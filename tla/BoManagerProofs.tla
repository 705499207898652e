-------------------------- MODULE BoManagerProofs ---------------------------
(***************************************************************************)
(* Theorems about BoManager: one bo per kernel buffer, handles that stay   *)
(* open under every reference, exact reference counts, no lost handle and  *)
(* no lost mapping, for any number of threads, variables, bos, buffers,    *)
(* handles and addresses.                                                  *)
(*                                                                         *)
(* None of them is inductive alone.  They need that the table and the bos  *)
(* agree with the kernel (BosSound, TableSound, HandlesDistinct), that a   *)
(* thread inside a call still has what it took (the parts about threads),  *)
(* and that a bo nobody refers to is in the hands of a thread that frees   *)
(* it (NobodyForgotten).                                                   *)
(***************************************************************************)
EXTENDS BoManager, Counting, TLAPS

Allocating(t) == pc[t] \in {"alloc_create", "alloc_close"}

Importing(t) == pc[t] \in {"import", "import_create"}

Freeing(t) == pc[t] \in {"free_unmap", "free_close"}

Finding(t) == pc[t] \in {"find", "find_above", "find_below"}

Mapping(t) == pc[t] \in {"map", "unmap"}

(* The kernel's handles are names: no two open buffers share one. *)
HandlesDistinct ==
    \A b, c \in Buffers : handleOf[b] = handleOf[c] /\ handleOf[b] # NoHandle => b = c

(* A bo's handle is open on its buffer until its memory is freed, and the  *)
(* table finds it as long as anybody refers to it.                         *)
BosSound ==
    \A o \in Bos :
       /\ handle[o] # NoHandle => origin[o] \in Buffers /\ handleOf[origin[o]] = handle[o]
       /\ refcount[o] > 0 => handle[o] # NoHandle /\ table[handle[o]] = o

(* The table has no stale entry. *)
TableSound ==
    \A h \in Handles : table[h] # NoBo => handle[table[h]] = h /\ refcount[table[h]] > 0

(* Every path between bo_table_mutex taken and released. *)
TableLockHeld ==
    \A t \in Threads :
       tableLock = t <=> Importing(t) \/ Freeing(t) \/ Finding(t) \/ pc[t] = "found"

(* The same for the cpu_access_mutex of each bo. *)
CpuLocksHeld ==
    \A t \in Threads, o \in Bos : cpuLock[o] = t <=> Mapping(t) /\ call[t].bo = o

(* The variable a call is to fill is its caller's, and still empty. *)
CallersSound ==
    \A t \in Threads :
       pc[t] = "alloc_create" \/ Importing(t) \/ Finding(t) =>
          call[t].var \in Vars /\ call[t].var[1] = t /\ ref[call[t].var] = NoBo

(* An allocation alone knows its buffer and its handle. *)
AllocatorsSound ==
    \A t \in Threads : Allocating(t) =>
       /\ call[t].buf \in Buffers \ fds
       /\ call[t].handle = handleOf[call[t].buf] /\ call[t].handle # NoHandle
       /\ \A o \in Bos : handle[o] # call[t].handle

AllocatorsApart ==
    \A t, u \in Threads :
       Allocating(t) /\ (Allocating(u) \/ Importing(u)) /\ t # u => call[t].buf # call[u].buf

(* An import's handle is open; once the table had no bo for it, it has none. *)
ImportersSound ==
    \A t \in Threads :
       /\ Importing(t) =>
             /\ call[t].buf \in Buffers
             /\ call[t].handle = handleOf[call[t].buf] /\ call[t].handle # NoHandle
       /\ pc[t] = "import_create" => table[call[t].handle] = NoBo

(* A bo that is being freed has left the table and then the address space. *)
FreersSound ==
    \A t \in Threads :
       /\ Freeing(t) =>
             /\ call[t].bo \in Bos
             /\ refcount[call[t].bo] = 0
             /\ handle[call[t].bo] # NoHandle
             /\ table[handle[call[t].bo]] = NoBo
       /\ pc[t] = "free_close" =>
             cpu_map_count[call[t].bo] = 0 /\ cpu_ptr[call[t].bo] = NULL

NobodyForgotten ==
    \A o \in Bos : handle[o] # NoHandle /\ refcount[o] = 0 =>
       \E t \in Threads : Freeing(t) /\ call[t].bo = o

(* A bo found by the loop keeps a reference until the loop is done with it. *)
FindersSound ==
    \A t \in Threads : pc[t] \in {"find_above", "find_below"} =>
       call[t].bo \in Bos /\ refcount[call[t].bo] > 0

(* A thread that maps or unmaps refers to the bo, and nobody has it mapped. *)
MappersSound ==
    \A t \in Threads :
       /\ Mapping(t) =>
             /\ call[t].bo \in Bos /\ Holds(t, call[t].bo)
             /\ cpu[t] = NoBo
             /\ cpu_map_count[call[t].bo] = 0
       /\ pc[t] = "map" => cpu_ptr[call[t].bo] = NULL

(* An address that is no longer mapped is forgotten by the unmapping thread; *)
(* free memory has none.                                                   *)
PointersSound ==
    \A o \in Bos :
       /\ cpu_ptr[o] # NULL /\ cpu_map_count[o] = 0 =>
             \E t \in Threads : pc[t] = "unmap" /\ call[t].bo = o
       /\ handle[o] = NoHandle => cpu_map_count[o] = 0

(* Only bos in use are kept mapped. *)
KeepersSound ==
    \A t \in Threads : cpu[t] # NoBo => refcount[cpu[t]] > 0

(* HandlesAccounted, by the calls that are really responsible. *)
HandlesOwned ==
    \A b \in Buffers : handleOf[b] # NoHandle =>
       \/ table[handleOf[b]] # NoBo
       \/ handleOf[b] \in leaked
       \/ \E t \in Threads : (Allocating(t) \/ Importing(t)) /\ call[t].handle = handleOf[b]
       \/ \E t \in Threads : Freeing(t) /\ handle[call[t].bo] = handleOf[b]

BoInvariant ==
    /\ TypeOK
    /\ HandlesDistinct /\ BosSound /\ TableSound
    /\ TableLockHeld /\ CpuLocksHeld
    /\ CallersSound
    /\ AllocatorsSound /\ AllocatorsApart
    /\ ImportersSound
    /\ FreersSound /\ NobodyForgotten
    /\ FindersSound
    /\ MappersSound /\ PointersSound /\ KeepersSound
    /\ RefsCounted
    /\ HandlesOwned
    /\ MappingsAccounted

-----------------------------------------------------------------------------
(* The counters. *)

LEMMA BoundsAreNumbers ==
  /\ IsFiniteSet(Vars) /\ Cardinality(Vars) \in Nat
  /\ IsFiniteSet(Threads) /\ Cardinality(Threads) \in Nat
  BY BoManagerAssumption, FS_Product, FS_CardinalityType DEF Vars

(* A thread has a slot to hold a reference in, so at least 1 is counted.   *)
LEMMA VarsCounted ==
  ASSUME NEW v \in Vars
  PROVE  Cardinality(Vars) >= 1
  BY BoundsAreNumbers, FS_EmptySet

LEMMA RefChange ==
  ASSUME NEW v \in Vars, ref'[v] # ref[v], \A x \in Vars \ {v} : ref'[x] = ref[x]
  PROVE  /\ Count(Vars, ref', ref'[v]) = Count(Vars, ref, ref'[v]) + 1
         /\ Count(Vars, ref', ref[v]) = Count(Vars, ref, ref[v]) - 1
         /\ \A b : b # ref'[v] /\ b # ref[v] => Count(Vars, ref', b) = Count(Vars, ref, b)
<1>1. IsFiniteSet(Vars)
  BY BoundsAreNumbers
<1> QED
  BY <1>1, CountChange, SMTT(30)

LEMMA CpuChange ==
  ASSUME NEW t \in Threads, cpu'[t] # cpu[t], \A u \in Threads \ {t} : cpu'[u] = cpu[u]
  PROVE  /\ Count(Threads, cpu', cpu'[t]) = Count(Threads, cpu, cpu'[t]) + 1
         /\ Count(Threads, cpu', cpu[t]) = Count(Threads, cpu, cpu[t]) - 1
         /\ \A b : b # cpu'[t] /\ b # cpu[t] =>
               Count(Threads, cpu', b) = Count(Threads, cpu, b)
<1>1. IsFiniteSet(Threads)
  BY BoundsAreNumbers
<1> QED
  BY <1>1, CountChange, SMTT(30)

(* What a variable names has a reference. *)
LEMMA NamedCounted ==
  ASSUME TypeOK, RefsCounted, NEW v \in Vars, ref[v] # NoBo
  PROVE  ref[v] \in Bos /\ refcount[ref[v]] > 0
<1>1. ref[v] \in Bos /\ refcount[ref[v]] \in Nat
  BY BoundsAreNumbers DEF TypeOK
<1>2. refcount[ref[v]] = Count(Vars, ref, ref[v])
  BY <1>1 DEF RefsCounted, Count
<1>3. Count(Vars, ref, ref[v]) # 0
  BY BoundsAreNumbers, CountType
<1> QED
  BY <1>1, <1>2, <1>3

(* One reference more, in an empty variable. *)
LEMMA ReferenceAdded ==
  ASSUME TypeOK, RefsCounted, NEW o \in Bos, NEW v \in Vars, ref[v] = NoBo, AddReference(o, v)
  PROVE  /\ refcount' \in [Bos -> 0 .. Cardinality(Vars)]
         /\ ref' \in [Vars -> Bos \cup {NoBo}]
         /\ refcount'[o] = refcount[o] + 1
         /\ \A p \in Bos \ {o} : refcount'[p] = refcount[p]
         /\ ref'[v] = o /\ \A w \in Vars \ {v} : ref'[w] = ref[w]
         /\ RefsCounted'
<1> USE BoManagerAssumption
<1>1. refcount' = [refcount EXCEPT ![o] = @ + 1] /\ ref' = [ref EXCEPT ![v] = o]
  BY DEF AddReference
<1>2. ref'[v] = o /\ \A w \in Vars \ {v} : ref'[w] = ref[w]
  BY <1>1 DEF TypeOK
<1>3. /\ refcount'[o] = refcount[o] + 1
      /\ \A p \in Bos \ {o} : refcount'[p] = refcount[p]
  BY <1>1 DEF TypeOK
<1>4. ref'[v] # ref[v]
  BY <1>2
<1>5. /\ Count(Vars, ref', ref'[v]) = Count(Vars, ref, ref'[v]) + 1
      /\ \A b : b # ref'[v] /\ b # ref[v] => Count(Vars, ref', b) = Count(Vars, ref, b)
  BY <1>2, <1>4, RefChange
<1>6. ASSUME NEW p \in Bos PROVE refcount'[p] = Count(Vars, ref', p)
  <2>1. refcount[p] = Count(Vars, ref, p)
    BY DEF RefsCounted, Count
  <2> QED
    BY <1>2, <1>3, <1>5, <2>1
<1>7. RefsCounted'
  BY <1>6 DEF RefsCounted, Count
<1>8. refcount'[o] \in 0 .. Cardinality(Vars)
  BY <1>6, BoundsAreNumbers, CountType
<1>9. refcount' \in [Bos -> 0 .. Cardinality(Vars)]
  BY <1>1, <1>8 DEF TypeOK
<1>10. ref' \in [Vars -> Bos \cup {NoBo}]
  BY <1>1 DEF TypeOK
<1> QED
  BY <1>2, <1>3, <1>7, <1>9, <1>10

(* One reference less; nobody has the bo when it was the last.             *)
LEMMA ReferenceDropped ==
  ASSUME TypeOK, RefsCounted, NEW v \in Vars, ref[v] # NoBo, DropReference(v)
  PROVE  /\ refcount' \in [Bos -> 0 .. Cardinality(Vars)]
         /\ ref' \in [Vars -> Bos \cup {NoBo}]
         /\ refcount'[ref[v]] = refcount[ref[v]] - 1
         /\ \A p \in Bos \ {ref[v]} : refcount'[p] = refcount[p]
         /\ ref'[v] = NoBo /\ \A w \in Vars \ {v} : ref'[w] = ref[w]
         /\ RefsCounted'
<1> USE BoManagerAssumption
<1> DEFINE o == ref[v]
<1>1. refcount' = [refcount EXCEPT ![o] = @ - 1] /\ ref' = [ref EXCEPT ![v] = NoBo]
  BY DEF DropReference
<1>2. ref'[v] = NoBo /\ \A w \in Vars \ {v} : ref'[w] = ref[w]
  BY <1>1 DEF TypeOK
<1>3. o \in Bos /\ refcount[o] > 0
  BY NamedCounted
<1>4. /\ refcount'[o] = refcount[o] - 1
      /\ \A p \in Bos \ {o} : refcount'[p] = refcount[p]
  BY <1>1, <1>3 DEF TypeOK
<1>5. ref'[v] # ref[v]
  BY <1>2
<1>6. /\ Count(Vars, ref', ref[v]) = Count(Vars, ref, ref[v]) - 1
      /\ \A b : b # ref'[v] /\ b # ref[v] => Count(Vars, ref', b) = Count(Vars, ref, b)
  BY <1>2, <1>5, RefChange
<1>7. ASSUME NEW p \in Bos PROVE refcount'[p] = Count(Vars, ref', p)
  <2>1. refcount[p] = Count(Vars, ref, p)
    BY DEF RefsCounted, Count
  <2>2. CASE p = o
    BY <1>4, <1>6, <2>1, <2>2
  <2>3. CASE p # o
    BY <1>2, <1>4, <1>6, <2>1, <2>3
  <2> QED
    BY <2>2, <2>3
<1>8. RefsCounted'
  BY <1>7 DEF RefsCounted, Count
<1>9. refcount'[o] \in 0 .. Cardinality(Vars)
  BY <1>3, <1>7, BoundsAreNumbers, CountType
<1>10. refcount' \in [Bos -> 0 .. Cardinality(Vars)]
  BY <1>1, <1>9 DEF TypeOK
<1>11. ref' \in [Vars -> Bos \cup {NoBo}]
  BY <1>1 DEF TypeOK
<1> QED
  BY <1>2, <1>4, <1>8, <1>10, <1>11

(* A thread's call does not touch what other threads hold. *)
LEMMA OthersHold ==
  ASSUME NEW t \in Threads, NEW v \in Vars, v[1] = t,
         \A w \in Vars \ {v} : ref'[w] = ref[w]
  PROVE  \A u \in Threads \ {t}, o \in Bos : Holds(u, o)' <=> Holds(u, o)
<1> SUFFICES ASSUME NEW u \in Threads \ {t}, NEW s \in Slots
             PROVE  ref'[u, s] = ref[u, s]
  BY DEF Holds
<1>1. <<u, s>> \in Vars /\ <<u, s>>[1] = u
  BY DEF Vars
<1>2. <<u, s>> # v
  BY <1>1
<1> QED
  BY <1>1, <1>2

-----------------------------------------------------------------------------
(* The kernel's handles and the bos made for them. *)

(* What BosSound, TableSound and NobodyForgotten say of one handle: while  *)
(* nobody frees, a handle without an entry in the table has no bo.         *)
LEMMA NoEntryNoBo ==
  ASSUME BosSound, NobodyForgotten, TypeOK, TableLockHeld,
         NEW h \in Handles, table[h] = NoBo, NEW o \in Bos, handle[o] = h,
         \A t \in Threads : ~Freeing(t)
  PROVE  FALSE
<1> USE BoManagerAssumption
<1>1. handle[o] # NoHandle
  BY DEF Handles, NoHandle
<1>2. refcount[o] # 0
  BY <1>1 DEF NobodyForgotten
<1>3. refcount[o] > 0
  BY <1>2, BoundsAreNumbers DEF TypeOK
<1> QED
  BY <1>3 DEF BosSound

(* Two bos in use have two handles. *)
LEMMA BosDistinct ==
  ASSUME TypeOK, BosSound, FreersSound, NobodyForgotten, TableLockHeld,
         NEW o \in Bos, NEW p \in Bos, handle[o] = handle[p], handle[o] # NoHandle
  PROVE  o = p
<1> USE BoManagerAssumption
<1>1. \A q \in Bos : refcount[q] > 0 \/ refcount[q] = 0
  BY BoundsAreNumbers DEF TypeOK
<1>2. CASE refcount[o] > 0 /\ refcount[p] > 0
  BY <1>2 DEF BosSound
<1>3. ASSUME NEW q \in Bos, NEW r \in Bos, handle[q] = handle[r], handle[q] # NoHandle,
             refcount[q] = 0
      PROVE  ~(refcount[r] > 0)
  <2>1. PICK t \in Threads : Freeing(t) /\ call[t].bo = q
    BY <1>3 DEF NobodyForgotten
  <2>2. table[handle[q]] = NoBo
    BY <2>1 DEF FreersSound
  <2> QED
    BY <1>3, <2>2 DEF BosSound
<1>4. CASE refcount[o] = 0 /\ refcount[p] = 0
  <2>1. PICK t \in Threads : Freeing(t) /\ call[t].bo = o
    BY <1>4 DEF NobodyForgotten
  <2>2. PICK u \in Threads : Freeing(u) /\ call[u].bo = p
    BY <1>4 DEF NobodyForgotten
  <2>3. tableLock = t /\ tableLock = u
    BY <2>1, <2>2 DEF TableLockHeld
  <2> QED
    BY <2>1, <2>2, <2>3
<1> QED
  BY <1>1, <1>2, <1>3, <1>4

(* The kernel gives out a handle nobody has. *)
LEMMA HandleOpened ==
  ASSUME TypeOK, HandlesDistinct, BosSound,
         NEW b \in Buffers, NEW h \in FreshHandles, handleOf[b] = NoHandle,
         handleOf' = [handleOf EXCEPT ![b] = h]
  PROVE  /\ h \in Handles /\ h # NoHandle
         /\ handleOf' \in [Buffers -> Handles \cup {NoHandle}]
         /\ handleOf'[b] = h
         /\ \A c \in Buffers \ {b} : handleOf'[c] = handleOf[c] /\ handleOf[c] # h
         /\ HandlesDistinct'
         /\ \A o \in Bos : handle[o] # h
         /\ \A o \in Bos : handle[o] # NoHandle =>
               origin[o] \in Buffers /\ handleOf'[origin[o]] = handle[o]
<1>1. h \in Handles /\ h # NoHandle
  BY BoManagerAssumption DEF FreshHandles, Handles, NoHandle
<1>2. \A c \in Buffers : handleOf[c] # h
  BY DEF FreshHandles
<1>3. handleOf' \in [Buffers -> Handles \cup {NoHandle}]
  BY <1>1 DEF TypeOK
<1>4. handleOf'[b] = h /\ \A c \in Buffers \ {b} : handleOf'[c] = handleOf[c] /\ handleOf[c] # h
  BY <1>2 DEF TypeOK
<1>5. HandlesDistinct'
  BY <1>2, <1>4 DEF HandlesDistinct
<1>6. \A o \in Bos : handle[o] # h
  BY <1>1, <1>2 DEF BosSound
<1>7. \A o \in Bos : handle[o] # NoHandle =>
         origin[o] \in Buffers /\ handleOf'[origin[o]] = handle[o]
  BY <1>4, <1>6 DEF BosSound
<1> QED
  BY <1>1, <1>3, <1>4, <1>5, <1>6, <1>7

(* The kernel closes a buffer's handle, and no other. *)
LEMMA HandleClosed ==
  ASSUME TypeOK, HandlesDistinct,
         NEW b \in Buffers, handleOf[b] # NoHandle, CloseHandle(handleOf[b])
  PROVE  /\ handleOf' \in [Buffers -> Handles \cup {NoHandle}]
         /\ handleOf'[b] = NoHandle
         /\ \A c \in Buffers \ {b} : handleOf'[c] = handleOf[c]
         /\ HandlesDistinct'
<1>1. handleOf' = [c \in Buffers |-> IF handleOf[c] = handleOf[b] THEN NoHandle ELSE handleOf[c]]
  BY DEF CloseHandle
<1>2. handleOf'[b] = NoHandle
  BY <1>1
<1>3. \A c \in Buffers \ {b} : handleOf'[c] = handleOf[c]
  BY <1>1 DEF HandlesDistinct
<1>4. HandlesDistinct'
  BY <1>2, <1>3 DEF HandlesDistinct
<1>5. handleOf' \in [Buffers -> Handles \cup {NoHandle}]
  BY <1>1 DEF TypeOK
<1> QED
  BY <1>2, <1>3, <1>4, <1>5

(* A bo made for an open handle that no bo has. *)
LEMMA BoCreated ==
  ASSUME TypeOK, BosSound, TableSound, RefsCounted, KeepersSound, MappingsAccounted,
         PointersSound,
         NEW o \in Bos, NEW v \in Vars, NEW b \in Buffers, NEW h \in Handles,
         ref[v] = NoBo, handleOf[b] = h, table[h] = NoBo, \A p \in Bos : handle[p] # h,
         Create(o, v, b, h), UNCHANGED <<kernelVars, mapVars>>
  PROVE  /\ handle[o] = NoHandle /\ refcount[o] = 0
         /\ table' \in [Handles -> Bos \cup {NoBo}]
         /\ refcount' \in [Bos -> 0 .. Cardinality(Vars)]
         /\ handle' \in [Bos -> Handles \cup {NoHandle}]
         /\ ref' \in [Vars -> Bos \cup {NoBo}]
         /\ origin' \in [Bos -> Buffers \cup {NoBuffer}]
         /\ handle'[o] = h /\ refcount'[o] = 1 /\ table'[h] = o /\ ref'[v] = o
         /\ \A p \in Bos \ {o} : handle'[p] = handle[p] /\ refcount'[p] = refcount[p]
         /\ \A k \in Handles \ {h} : table'[k] = table[k]
         /\ \A w \in Vars \ {v} : ref'[w] = ref[w]
         /\ BosSound' /\ TableSound' /\ RefsCounted' /\ KeepersSound' /\ MappingsAccounted'
<1> USE BoManagerAssumption
<1>1. /\ handle[o] = NoHandle
      /\ table' = [table EXCEPT ![h] = o]
      /\ refcount' = [refcount EXCEPT ![o] = 1]
      /\ handle' = [handle EXCEPT ![o] = h]
      /\ origin' = [origin EXCEPT ![o] = b]
      /\ ref' = [ref EXCEPT ![v] = o]
      /\ UNCHANGED <<handleOf, mapping, cpu_ptr, cpu_map_count, cpu>>
  BY DEF Create, kernelVars, mapVars
<1>2. h # NoHandle
  BY DEF Handles, NoHandle
<1>3. refcount[o] = 0
  BY <1>1, BoundsAreNumbers DEF BosSound, TypeOK
<1>4. /\ handle'[o] = h /\ refcount'[o] = 1 /\ table'[h] = o /\ ref'[v] = o /\ origin'[o] = b
      /\ \A p \in Bos \ {o} :
            handle'[p] = handle[p] /\ refcount'[p] = refcount[p] /\ origin'[p] = origin[p]
      /\ \A k \in Handles \ {h} : table'[k] = table[k]
      /\ \A w \in Vars \ {v} : ref'[w] = ref[w]
  BY <1>1 DEF TypeOK
<1>5. /\ table' \in [Handles -> Bos \cup {NoBo}]
      /\ refcount' \in [Bos -> 0 .. Cardinality(Vars)]
      /\ handle' \in [Bos -> Handles \cup {NoHandle}]
      /\ ref' \in [Vars -> Bos \cup {NoBo}]
      /\ origin' \in [Bos -> Buffers \cup {NoBuffer}]
  BY <1>1, BoundsAreNumbers, VarsCounted DEF TypeOK
<1>6. BosSound'
  <2>1. ASSUME NEW p \in Bos, handle'[p] # NoHandle
        PROVE  origin'[p] \in Buffers /\ handleOf'[origin'[p]] = handle'[p]
    BY <1>1, <1>4, <2>1 DEF BosSound
  <2>2. ASSUME NEW p \in Bos, refcount'[p] > 0
        PROVE  handle'[p] # NoHandle /\ table'[handle'[p]] = p
    <3>1. CASE p = o
      BY <1>2, <1>4, <3>1
    <3>2. CASE p # o
      <4>1. refcount[p] > 0 /\ handle'[p] = handle[p]
        BY <1>4, <2>2, <3>2
      <4>2. handle[p] # NoHandle /\ table[handle[p]] = p /\ handle[p] # h
        BY <4>1 DEF BosSound
      <4>3. handle[p] \in Handles
        BY <4>2 DEF TypeOK
      <4> QED
        BY <1>4, <4>1, <4>2, <4>3
    <3> QED
      BY <3>1, <3>2
  <2> QED
    BY <2>1, <2>2 DEF BosSound
<1>7. TableSound'
  <2> SUFFICES ASSUME NEW k \in Handles, table'[k] # NoBo
               PROVE  handle'[table'[k]] = k /\ refcount'[table'[k]] > 0
    BY DEF TableSound
  <2>1. CASE k = h
    BY <1>4, <2>1
  <2>2. CASE k # h
    <3>1. table'[k] = table[k] /\ handle[table[k]] = k /\ refcount[table[k]] > 0
      BY <1>4, <2>2 DEF TableSound
    <3>2. table[k] \in Bos \ {o}
      BY <1>3, <3>1 DEF TypeOK
    <3> QED
      BY <1>4, <3>1, <3>2
  <2> QED
    BY <2>1, <2>2
<1>8. RefsCounted'
  <2>1. ref'[v] # ref[v]
    BY <1>4
  <2>2. /\ Count(Vars, ref', ref'[v]) = Count(Vars, ref, ref'[v]) + 1
        /\ \A c : c # ref'[v] /\ c # ref[v] => Count(Vars, ref', c) = Count(Vars, ref, c)
    BY <1>4, <2>1, RefChange
  <2>3. ASSUME NEW p \in Bos PROVE refcount'[p] = Count(Vars, ref', p)
    <3>1. refcount[p] = Count(Vars, ref, p)
      BY DEF RefsCounted, Count
    <3>2. CASE p = o
      BY <1>3, <1>4, <2>2, <3>1, <3>2
    <3>3. CASE p # o
      BY <1>4, <2>2, <3>1, <3>3
    <3> QED
      BY <3>2, <3>3
  <2> QED
    BY <2>3 DEF RefsCounted, Count
<1>9. \A u \in Threads : cpu[u] # o
  BY <1>3 DEF KeepersSound
<1>10. KeepersSound'
  BY <1>1, <1>4, <1>9 DEF KeepersSound, TypeOK
<1>11. cpu_map_count[o] = 0
  BY <1>1 DEF PointersSound
<1>12. MappingsAccounted'
  <2>1. ASSUME NEW a \in Bases, mapping[a] # NoBuffer
        PROVE  \E p \in Bos : cpu_ptr[p] = a /\ origin'[p] = mapping[a] /\ cpu_map_count[p] > 0
    <3>1. PICK p \in Bos : cpu_ptr[p] = a /\ origin[p] = mapping[a] /\ cpu_map_count[p] > 0
      BY <2>1 DEF MappingsAccounted
    <3>2. p # o
      BY <1>11, <3>1
    <3> QED
      BY <1>4, <3>1, <3>2
  <2>2. ASSUME NEW p \in Bos, cpu_map_count[p] > 0
        PROVE  cpu_ptr[p] # NULL /\ mapping[cpu_ptr[p]] = origin'[p]
    <3>1. p # o
      BY <1>11, <2>2
    <3> QED
      BY <1>4, <2>2, <3>1 DEF MappingsAccounted
  <2>3. ASSUME NEW p \in Bos, refcount'[p] > 0
        PROVE  cpu_map_count[p] = Count(Threads, cpu, p)
    <3>1. CASE p = o
      <4>1. Count(Threads, cpu, o) = 0
        BY <1>9, BoundsAreNumbers, CountType
      <4> QED
        BY <1>11, <3>1, <4>1
    <3>2. CASE p # o
      BY <1>4, <2>3, <3>2 DEF MappingsAccounted, Count
    <3> QED
      BY <3>1, <3>2
  <2> QED
    BY <1>1, <2>1, <2>2, <2>3 DEF MappingsAccounted, Count
<1> QED
  BY <1>1, <1>3, <1>4, <1>5, <1>6, <1>7, <1>8, <1>10, <1>12

-----------------------------------------------------------------------------
(* The steps. *)

(* What a step of one thread says of the others. *)
LEMMA OthersStay ==
  ASSUME NEW t \in Threads, \A u \in Threads \ {t} : pc'[u] = pc[u]
  PROVE  \A u \in Threads \ {t} :
            /\ Allocating(u)' <=> Allocating(u)
            /\ Importing(u)' <=> Importing(u)
            /\ Freeing(u)' <=> Freeing(u)
            /\ Finding(u)' <=> Finding(u)
            /\ Mapping(u)' <=> Mapping(u)
  BY DEF Allocating, Importing, Freeing, Finding, Mapping

(* What a step that maps nothing and puts no bo in use says of mappings. *)
LEMMA MappingsStay ==
  ASSUME MappingsAccounted, UNCHANGED <<mapping, cpu_ptr, cpu_map_count, origin, cpu>>,
         \A o \in Bos : refcount'[o] > 0 => refcount[o] > 0
  PROVE  MappingsAccounted'
<1> DEFINE kept(o) == {t \in Threads : cpu[t] = o}
<1>1. \A o : kept(o)' = kept(o)
  OBVIOUS
<1> QED
  BY <1>1 DEF MappingsAccounted

(* The kernel allocates a buffer under a handle nobody has. *)
LEMMA AllocOpenPreserves ==
  ASSUME BoInvariant, NEW t \in Threads, NEW v \in Vars, AllocOpen(t, v)
  PROVE  BoInvariant'
<1> USE BoManagerAssumption DEF BoInvariant
<1>0. PICK b \in Buffers \ fds, h \in FreshHandles :
         /\ handleOf[b] = NoHandle
         /\ handleOf' = [handleOf EXCEPT ![b] = h]
         /\ call' = [call EXCEPT ![t] = [NoCall EXCEPT !.var = v, !.buf = b, !.handle = h]]
  BY DEF AllocOpen
<1>1. /\ pc[t] = "idle" /\ pc' = [pc EXCEPT ![t] = "alloc_create"]
      /\ v[1] = t /\ ref[v] = NoBo
      /\ UNCHANGED <<fds, mapping, table, tableLock, refcount, handle, cpu_ptr, cpu_map_count, cpuLock, ref, cpu, origin, leaked>>
  BY <1>0 DEF AllocOpen, FreeVar, Goto, kernelVars, boVars, mapVars
<1>2. /\ pc'[t] = "alloc_create" /\ call'[t].var = v /\ call'[t].buf = b /\ call'[t].handle = h
      /\ \A u \in Threads \ {t} : pc'[u] = pc[u] /\ call'[u] = call[u]
  BY <1>0, <1>1 DEF TypeOK, NoCall
<1>3. \A u \in Threads \ {t} :
         /\ Allocating(u)' <=> Allocating(u)
         /\ Importing(u)' <=> Importing(u)
         /\ Freeing(u)' <=> Freeing(u)
         /\ Finding(u)' <=> Finding(u)
         /\ Mapping(u)' <=> Mapping(u)
  BY <1>2, OthersStay
<1>4. /\ Allocating(t)' /\ ~Importing(t)' /\ ~Freeing(t)' /\ ~Finding(t)' /\ ~Mapping(t)'
      /\ ~Allocating(t) /\ ~Importing(t) /\ ~Freeing(t) /\ ~Finding(t) /\ ~Mapping(t)
  BY <1>1, <1>2 DEF Allocating, Importing, Freeing, Finding, Mapping
<1>5. /\ h \in Handles /\ h # NoHandle
      /\ handleOf' \in [Buffers -> Handles \cup {NoHandle}]
      /\ handleOf'[b] = h
      /\ \A c \in Buffers \ {b} : handleOf'[c] = handleOf[c] /\ handleOf[c] # h
      /\ HandlesDistinct'
      /\ \A o \in Bos : handle[o] # h
      /\ \A o \in Bos : handle[o] # NoHandle =>
            origin[o] \in Buffers /\ handleOf'[origin[o]] = handle[o]
  BY <1>0, HandleOpened
<1>6. \A u \in Threads \ {t} : Allocating(u) \/ Importing(u) =>
         call[u].buf # b /\ call[u].buf \in Buffers
  BY <1>0 DEF AllocatorsSound, ImportersSound
<1>7. TypeOK'
  BY <1>0, <1>1, <1>5 DEF TypeOK, CallType, NoCall, Labels
<1>8. MappingsAccounted'
  BY <1>1, MappingsStay
<1>9. RefsCounted' /\ KeepersSound'
  BY <1>1 DEF RefsCounted, KeepersSound
<1>10. TableSound'
  BY <1>1 DEF TableSound
<1>11. BosSound'
  BY <1>1, <1>5 DEF BosSound
<1>12. TableLockHeld'
  BY <1>1, <1>2, <1>3, <1>4 DEF TableLockHeld
<1>13. CpuLocksHeld'
  BY <1>1, <1>2, <1>3, <1>4 DEF CpuLocksHeld
<1>14. CallersSound'
  BY <1>1, <1>2, <1>3, <1>4 DEF CallersSound
<1>15. AllocatorsSound'
  BY <1>1, <1>2, <1>3, <1>4, <1>5, <1>6 DEF AllocatorsSound
<1>16. AllocatorsApart'
  BY <1>1, <1>2, <1>3, <1>4, <1>6 DEF AllocatorsApart
<1>17. ImportersSound'
  BY <1>1, <1>2, <1>3, <1>4, <1>5, <1>6 DEF ImportersSound
<1>18. FreersSound'
  BY <1>1, <1>2, <1>3, <1>4 DEF FreersSound
<1>19. NobodyForgotten'
  BY <1>1, <1>2, <1>3, <1>4 DEF NobodyForgotten
<1>20. FindersSound'
  BY <1>1, <1>2, <1>3, <1>4 DEF FindersSound
<1>21. \A u \in Threads, p \in Bos : Holds(u, p)' <=> Holds(u, p)
  BY <1>1 DEF Holds
<1>22. MappersSound'
  BY <1>1, <1>2, <1>3, <1>4, <1>21 DEF MappersSound
<1>23. PointersSound'
  BY <1>1, <1>2, <1>3, <1>4 DEF PointersSound
<1>24. HandlesOwned'
  <2> SUFFICES ASSUME NEW c \in Buffers, handleOf'[c] # NoHandle
               PROVE  \/ table[handleOf'[c]] # NoBo
                      \/ handleOf'[c] \in leaked
                      \/ \E u \in Threads :
                            (Allocating(u) \/ Importing(u))' /\ call'[u].handle = handleOf'[c]
                      \/ \E u \in Threads : Freeing(u)' /\ handle[call'[u].bo] = handleOf'[c]
    BY <1>1 DEF HandlesOwned
  <2>1. CASE c = b
    BY <1>2, <1>4, <1>5, <2>1
  <2>2. CASE c # b
    <3>1. handleOf'[c] = handleOf[c]
      BY <1>5, <2>2
    <3> QED
      BY <1>2, <1>3, <1>4, <3>1 DEF HandlesOwned
  <2> QED
    BY <2>1, <2>2
<1> QED
  BY <1>5, <1>7, <1>8, <1>9, <1>10, <1>11, <1>12, <1>13, <1>14, <1>15, <1>16, <1>17,
     <1>18, <1>19, <1>20, <1>22, <1>23, <1>24

(* The allocated buffer gets its bo. *)
LEMMA AllocCreatePreserves ==
  ASSUME BoInvariant, NEW t \in Threads, AllocCreate(t)
  PROVE  BoInvariant'
<1> USE BoManagerAssumption DEF BoInvariant
<1> DEFINE v == call[t].var
           b == call[t].buf
           h == call[t].handle
<1>0. PICK o \in Bos : Create(o, call[t].var, call[t].buf, call[t].handle)
  BY DEF AllocCreate
<1>1. /\ pc[t] = "alloc_create" /\ tableLock = NoThread
      /\ pc' = [pc EXCEPT ![t] = "idle"]
      /\ call' = [call EXCEPT ![t] = NoCall]
      /\ UNCHANGED <<handleOf, fds, mapping, tableLock, cpu_ptr, cpu_map_count, cpuLock, cpu, leaked>>
  BY <1>0 DEF AllocCreate, LockAndUnlock, Return, Goto, kernelVars, boVars, mapVars
<1>2. /\ pc'[t] = "idle"
      /\ \A u \in Threads \ {t} : pc'[u] = pc[u] /\ call'[u] = call[u]
  BY <1>0, <1>1 DEF TypeOK, NoCall
<1>3. \A u \in Threads \ {t} :
         /\ Allocating(u)' <=> Allocating(u)
         /\ Importing(u)' <=> Importing(u)
         /\ Freeing(u)' <=> Freeing(u)
         /\ Finding(u)' <=> Finding(u)
         /\ Mapping(u)' <=> Mapping(u)
  BY <1>2, OthersStay
<1>4. /\ ~Allocating(t)' /\ ~Importing(t)' /\ ~Freeing(t)' /\ ~Finding(t)' /\ ~Mapping(t)'
      /\ Allocating(t) /\ ~Importing(t) /\ ~Freeing(t) /\ ~Finding(t) /\ ~Mapping(t)
  BY <1>1, <1>2 DEF Allocating, Importing, Freeing, Finding, Mapping
<1>5. /\ b \in Buffers /\ h = handleOf[b] /\ h # NoHandle /\ \A p \in Bos : handle[p] # h
      /\ v \in Vars /\ v[1] = t /\ ref[v] = NoBo
  BY <1>1, <1>4 DEF AllocatorsSound, CallersSound
<1>6. h \in Handles /\ table[h] = NoBo
  BY <1>5 DEF TypeOK, TableSound
<1> HIDE DEF v, b, h
<1>7. Create(o, v, b, h) /\ UNCHANGED <<kernelVars, mapVars>>
  BY <1>0, <1>1 DEF v, b, h, kernelVars, mapVars
<1>8. /\ handle[o] = NoHandle /\ refcount[o] = 0
      /\ table' \in [Handles -> Bos \cup {NoBo}]
      /\ refcount' \in [Bos -> 0 .. Cardinality(Vars)]
      /\ handle' \in [Bos -> Handles \cup {NoHandle}]
      /\ ref' \in [Vars -> Bos \cup {NoBo}]
      /\ origin' \in [Bos -> Buffers \cup {NoBuffer}]
      /\ handle'[o] = h /\ refcount'[o] = 1 /\ table'[h] = o /\ ref'[v] = o
      /\ \A p \in Bos \ {o} : handle'[p] = handle[p] /\ refcount'[p] = refcount[p]
      /\ \A k \in Handles \ {h} : table'[k] = table[k]
      /\ \A w \in Vars \ {v} : ref'[w] = ref[w]
      /\ BosSound' /\ TableSound' /\ RefsCounted' /\ KeepersSound' /\ MappingsAccounted'
  BY <1>5, <1>6, <1>7, BoCreated
<1>9. /\ \A u \in Threads : ~Importing(u) /\ ~Freeing(u) /\ ~Finding(u)
      /\ \A u \in Threads \ {t} : Allocating(u) => call[u].handle # h
  <2>1. \A u \in Threads : ~Importing(u) /\ ~Freeing(u) /\ ~Finding(u)
    BY <1>1 DEF TableLockHeld
  <2>2. ASSUME NEW u \in Threads \ {t}, Allocating(u) PROVE call[u].handle # h
    <3>1. call[u].buf # b /\ call[u].buf \in Buffers /\ call[u].handle = handleOf[call[u].buf]
      BY <1>4, <2>2 DEF AllocatorsApart, AllocatorsSound, b
    <3> QED
      BY <1>5, <3>1 DEF HandlesDistinct
  <2> QED
    BY <2>1, <2>2
<1>10. \A u \in Threads \ {t}, p \in Bos : Holds(u, p)' <=> Holds(u, p)
  BY <1>5, <1>8, OthersHold
<1>11. TypeOK'
  BY <1>0, <1>1, <1>8 DEF TypeOK, CallType, NoCall, Labels
<1>12. HandlesDistinct'
  BY <1>1 DEF HandlesDistinct
<1>13. TableLockHeld'
  BY <1>1, <1>2, <1>3, <1>4 DEF TableLockHeld
<1>14. CpuLocksHeld'
  BY <1>1, <1>2, <1>3, <1>4 DEF CpuLocksHeld
<1>15. CallersSound'
  BY <1>1, <1>2, <1>3, <1>4, <1>5, <1>8, <1>9 DEF CallersSound
<1>16. AllocatorsSound'
  BY <1>1, <1>2, <1>3, <1>4, <1>8, <1>9 DEF AllocatorsSound
<1>17. AllocatorsApart'
  BY <1>1, <1>2, <1>3, <1>4 DEF AllocatorsApart
<1>18. ImportersSound'
  BY <1>1, <1>2, <1>3, <1>4, <1>9 DEF ImportersSound, Importing
<1>19. FreersSound'
  BY <1>1, <1>2, <1>3, <1>4, <1>9 DEF FreersSound, Freeing
<1>20. NobodyForgotten'
  BY <1>1, <1>2, <1>3, <1>4, <1>8, <1>9 DEF NobodyForgotten
<1>21. FindersSound'
  BY <1>1, <1>2, <1>3, <1>4, <1>9 DEF FindersSound, Finding
<1>22. MappersSound'
  BY <1>1, <1>2, <1>3, <1>4, <1>10 DEF MappersSound
<1>23. PointersSound'
  BY <1>1, <1>2, <1>3, <1>4, <1>5, <1>8 DEF PointersSound
<1>24. HandlesOwned'
  <2> SUFFICES ASSUME NEW c \in Buffers, handleOf[c] # NoHandle, handleOf[c] # h
               PROVE  \/ table'[handleOf[c]] # NoBo
                      \/ handleOf[c] \in leaked
                      \/ \E u \in Threads :
                            (Allocating(u) \/ Importing(u))' /\ call'[u].handle = handleOf[c]
                      \/ \E u \in Threads : Freeing(u)' /\ handle'[call'[u].bo] = handleOf[c]
    BY <1>1, <1>8 DEF HandlesOwned
  <2>1. handleOf[c] \in Handles /\ table'[handleOf[c]] = table[handleOf[c]]
    BY <1>8 DEF TypeOK
  <2>2. \A u \in Threads : call[u].handle = handleOf[c] => u # t
    BY DEF h
  <2> QED
    BY <1>2, <1>3, <1>9, <2>1, <2>2 DEF HandlesOwned
<1> QED
  BY <1>8, <1>11, <1>12, <1>13, <1>14, <1>15, <1>16, <1>17, <1>18, <1>19, <1>20, <1>21,
     <1>22, <1>23, <1>24

(* Without memory for the bo the allocation goes on to close its handle. *)
LEMMA AllocNoMemoryPreserves ==
  ASSUME BoInvariant, NEW t \in Threads, AllocNoMemory(t)
  PROVE  BoInvariant'
<1> USE BoManagerAssumption DEF BoInvariant
<1>1. /\ pc[t] = "alloc_create"
      /\ pc' = [pc EXCEPT ![t] = "alloc_close"]
      /\ UNCHANGED <<handleOf, fds, mapping, table, tableLock, refcount, handle, cpu_ptr, cpu_map_count, cpuLock, ref, cpu, call, origin, leaked>>
  BY DEF AllocNoMemory, LockAndUnlock, Goto, kernelVars, boVars, mapVars
<1>2. /\ pc'[t] = "alloc_close" /\ call'[t] = call[t]
      /\ \A u \in Threads \ {t} : pc'[u] = pc[u] /\ call'[u] = call[u]
  BY <1>1 DEF TypeOK, NoCall
<1>3. \A u \in Threads \ {t} :
         /\ Allocating(u)' <=> Allocating(u)
         /\ Importing(u)' <=> Importing(u)
         /\ Freeing(u)' <=> Freeing(u)
         /\ Finding(u)' <=> Finding(u)
         /\ Mapping(u)' <=> Mapping(u)
  BY <1>2, OthersStay
<1>4. /\ Allocating(t)' /\ ~Importing(t)' /\ ~Freeing(t)' /\ ~Finding(t)' /\ ~Mapping(t)'
      /\ Allocating(t) /\ ~Importing(t) /\ ~Freeing(t) /\ ~Finding(t) /\ ~Mapping(t)
  BY <1>1, <1>2 DEF Allocating, Importing, Freeing, Finding, Mapping
<1>5. TypeOK'
  BY <1>1 DEF TypeOK, CallType, NoCall, Labels
<1>6. MappingsAccounted'
  BY <1>1, MappingsStay
<1>7. RefsCounted' /\ KeepersSound'
  BY <1>1 DEF RefsCounted, KeepersSound
<1>8. HandlesDistinct' /\ BosSound' /\ TableSound'
  BY <1>1 DEF HandlesDistinct, BosSound, TableSound
<1>9. TableLockHeld'
  BY <1>1, <1>2, <1>3, <1>4 DEF TableLockHeld
<1>10. CpuLocksHeld'
  BY <1>1, <1>2, <1>3, <1>4 DEF CpuLocksHeld
<1>11. CallersSound'
  BY <1>1, <1>2, <1>3, <1>4 DEF CallersSound
<1>12. AllocatorsSound'
  BY <1>1, <1>2, <1>3, <1>4 DEF AllocatorsSound
<1>13. AllocatorsApart'
  BY <1>1, <1>2, <1>3, <1>4 DEF AllocatorsApart
<1>14. ImportersSound'
  BY <1>1, <1>2, <1>3, <1>4 DEF ImportersSound
<1>15. FreersSound'
  BY <1>1, <1>2, <1>3, <1>4 DEF FreersSound
<1>16. NobodyForgotten'
  BY <1>1, <1>2, <1>3, <1>4 DEF NobodyForgotten
<1>17. FindersSound'
  BY <1>1, <1>2, <1>3, <1>4 DEF FindersSound
<1>18. \A u \in Threads, p \in Bos : Holds(u, p)' <=> Holds(u, p)
  BY <1>1 DEF Holds
<1>19. MappersSound'
  BY <1>1, <1>2, <1>3, <1>4, <1>18 DEF MappersSound
<1>20. PointersSound'
  BY <1>1, <1>2, <1>3, <1>4 DEF PointersSound
<1>21. HandlesOwned'
  BY <1>1, <1>2, <1>3, <1>4 DEF HandlesOwned
<1> QED
  BY <1>5, <1>6, <1>7, <1>8, <1>9, <1>10, <1>11, <1>12, <1>13, <1>14, <1>15, <1>16,
     <1>17, <1>19, <1>20, <1>21

(* The handle of a failed allocation is closed. *)
LEMMA AllocClosePreserves ==
  ASSUME BoInvariant, NEW t \in Threads, AllocClose(t)
  PROVE  BoInvariant'
<1> USE BoManagerAssumption DEF BoInvariant
<1> DEFINE b == call[t].buf
<1>1. /\ pc[t] = "alloc_close"
      /\ CloseHandle(call[t].handle)
      /\ pc' = [pc EXCEPT ![t] = "idle"]
      /\ call' = [call EXCEPT ![t] = NoCall]
      /\ UNCHANGED <<fds, mapping, table, tableLock, refcount, handle, cpu_ptr, cpu_map_count, cpuLock, ref, cpu, origin, leaked>>
  BY DEF AllocClose, Return, Goto, kernelVars, boVars, mapVars
<1>2. /\ pc'[t] = "idle"
      /\ \A u \in Threads \ {t} : pc'[u] = pc[u] /\ call'[u] = call[u]
  BY <1>1 DEF TypeOK, NoCall
<1>3. \A u \in Threads \ {t} :
         /\ Allocating(u)' <=> Allocating(u)
         /\ Importing(u)' <=> Importing(u)
         /\ Freeing(u)' <=> Freeing(u)
         /\ Finding(u)' <=> Finding(u)
         /\ Mapping(u)' <=> Mapping(u)
  BY <1>2, OthersStay
<1>4. /\ ~Allocating(t)' /\ ~Importing(t)' /\ ~Freeing(t)' /\ ~Finding(t)' /\ ~Mapping(t)'
      /\ Allocating(t) /\ ~Importing(t) /\ ~Freeing(t) /\ ~Finding(t) /\ ~Mapping(t)
  BY <1>1, <1>2 DEF Allocating, Importing, Freeing, Finding, Mapping
<1>5. /\ b \in Buffers /\ handleOf[b] # NoHandle /\ call[t].handle = handleOf[b]
      /\ \A p \in Bos : handle[p] # handleOf[b]
      /\ \A u \in Threads \ {t} : Allocating(u) \/ Importing(u) => call[u].buf # b
  BY <1>4 DEF AllocatorsSound, AllocatorsApart
<1> HIDE DEF b
<1>6. /\ handleOf' \in [Buffers -> Handles \cup {NoHandle}]
      /\ handleOf'[b] = NoHandle
      /\ \A c \in Buffers \ {b} : handleOf'[c] = handleOf[c]
      /\ HandlesDistinct'
  BY <1>1, <1>5, HandleClosed
<1>7. TypeOK'
  BY <1>1, <1>6 DEF TypeOK, CallType, NoCall, Labels
<1>8. MappingsAccounted'
  BY <1>1, MappingsStay
<1>9. RefsCounted' /\ KeepersSound'
  BY <1>1 DEF RefsCounted, KeepersSound
<1>10. TableSound'
  BY <1>1 DEF TableSound
<1>11. BosSound'
  BY <1>1, <1>5, <1>6 DEF BosSound
<1>12. TableLockHeld'
  BY <1>1, <1>2, <1>3, <1>4 DEF TableLockHeld
<1>13. CpuLocksHeld'
  BY <1>1, <1>2, <1>3, <1>4 DEF CpuLocksHeld
<1>14. CallersSound'
  BY <1>1, <1>2, <1>3, <1>4 DEF CallersSound
<1>15. AllocatorsSound'
  BY <1>1, <1>2, <1>3, <1>4, <1>5, <1>6 DEF AllocatorsSound
<1>16. AllocatorsApart'
  BY <1>1, <1>2, <1>3, <1>4 DEF AllocatorsApart
<1>17. ImportersSound'
  BY <1>1, <1>2, <1>3, <1>4, <1>5, <1>6 DEF ImportersSound, Importing
<1>18. FreersSound'
  BY <1>1, <1>2, <1>3, <1>4 DEF FreersSound
<1>19. NobodyForgotten'
  BY <1>1, <1>2, <1>3, <1>4 DEF NobodyForgotten
<1>20. FindersSound'
  BY <1>1, <1>2, <1>3, <1>4 DEF FindersSound
<1>21. \A u \in Threads, p \in Bos : Holds(u, p)' <=> Holds(u, p)
  BY <1>1 DEF Holds
<1>22. MappersSound'
  BY <1>1, <1>2, <1>3, <1>4, <1>21 DEF MappersSound
<1>23. PointersSound'
  BY <1>1, <1>2, <1>3, <1>4 DEF PointersSound
<1>24. HandlesOwned'
  <2> SUFFICES ASSUME NEW c \in Buffers, handleOf'[c] # NoHandle
               PROVE  \/ table[handleOf'[c]] # NoBo
                      \/ handleOf'[c] \in leaked
                      \/ \E u \in Threads :
                            (Allocating(u) \/ Importing(u))' /\ call'[u].handle = handleOf'[c]
                      \/ \E u \in Threads : Freeing(u)' /\ handle[call'[u].bo] = handleOf'[c]
    BY <1>1 DEF HandlesOwned
  <2>1. c # b /\ handleOf'[c] = handleOf[c] /\ handleOf[c] # NoHandle
    BY <1>6
  <2>2. handleOf[c] # call[t].handle
    BY <1>5, <2>1 DEF HandlesDistinct
  <2>3. \A u \in Threads : call[u].handle = handleOf[c] => u # t
    BY <2>2
  <2> QED
    BY <1>1, <1>2, <1>3, <1>4, <2>1, <2>2, <2>3 DEF HandlesOwned
<1> QED
  BY <1>6, <1>7, <1>8, <1>9, <1>10, <1>11, <1>12, <1>13, <1>14, <1>15, <1>16, <1>17,
     <1>18, <1>19, <1>20, <1>22, <1>23, <1>24

(* Only a buffer that has a bo is exported. *)
LEMMA ExportPreserves ==
  ASSUME BoInvariant, NEW t \in Threads, NEW v \in Vars, Export(t, v)
  PROVE  BoInvariant'
<1> USE BoManagerAssumption DEF BoInvariant
<1>0. PICK b \in Buffers : handleOf[b] = handle[ref[v]] /\ fds' = fds \cup {b}
  BY DEF Export
<1>1. /\ ref[v] # NoBo
      /\ UNCHANGED <<handleOf, mapping, table, tableLock, refcount, handle, cpu_ptr, cpu_map_count, cpuLock, ref, cpu, pc, call, origin, leaked>>
  BY <1>0 DEF Export, kernelVars, boVars, mapVars
<1>5. ref[v] \in Bos /\ refcount[ref[v]] > 0
  BY <1>1, NamedCounted
<1>6. TypeOK'
  BY <1>0, <1>1 DEF TypeOK, CallType, NoCall, Labels
<1>7. MappingsAccounted'
  BY <1>1, MappingsStay
<1>8. RefsCounted' /\ KeepersSound'
  BY <1>1 DEF RefsCounted, KeepersSound
<1>9. HandlesDistinct' /\ BosSound' /\ TableSound'
  BY <1>1 DEF HandlesDistinct, BosSound, TableSound
<1>10. TableLockHeld' /\ CpuLocksHeld' /\ CallersSound'
  BY <1>1 DEF TableLockHeld, CpuLocksHeld, CallersSound, Allocating, Importing, Freeing,
     Finding, Mapping
<1>11. AllocatorsApart' /\ ImportersSound'
  BY <1>1 DEF AllocatorsApart, ImportersSound, Allocating, Importing, Freeing, Finding,
     Mapping
<1>12. FreersSound' /\ NobodyForgotten' /\ FindersSound'
  BY <1>1 DEF FreersSound, NobodyForgotten, FindersSound, Allocating, Importing,
     Freeing, Finding, Mapping
<1>13. MappersSound'
  BY <1>1 DEF MappersSound, Allocating, Importing, Freeing, Finding, Mapping, Holds
<1>14. PointersSound' /\ HandlesOwned'
  BY <1>1 DEF PointersSound, HandlesOwned, Allocating, Importing, Freeing, Finding,
     Mapping
<1>15. AllocatorsSound'
  BY <1>0, <1>1, <1>5 DEF AllocatorsSound, Allocating
<1> QED
  BY <1>6, <1>7, <1>8, <1>9, <1>10, <1>11, <1>12, <1>13, <1>14, <1>15

(* A descriptor closed is one descriptor less. *)
LEMMA CloseFdPreserves ==
  ASSUME BoInvariant, CloseFd
  PROVE  BoInvariant'
<1> USE DEF BoInvariant
<1>1. /\ fds' \in SUBSET fds
      /\ UNCHANGED <<handleOf, mapping, table, tableLock, refcount, handle, cpu_ptr,
                     cpu_map_count, cpuLock, ref, cpu, pc, call, origin, leaked>>
  BY DEF CloseFd, boVars, mapVars
<1>2. TypeOK'
  BY <1>1 DEF TypeOK
<1>3. AllocatorsSound'
  BY <1>1 DEF AllocatorsSound, Allocating
<1>4. HandlesDistinct' /\ BosSound' /\ TableSound'
  BY <1>1 DEF HandlesDistinct, BosSound, TableSound
<1>5. TableLockHeld' /\ CpuLocksHeld' /\ CallersSound'
  BY <1>1 DEF TableLockHeld, CpuLocksHeld, CallersSound, Importing, Freeing, Finding, Mapping
<1>6. AllocatorsApart' /\ ImportersSound' /\ FreersSound'
  BY <1>1 DEF AllocatorsApart, ImportersSound, FreersSound, Allocating, Importing, Freeing
<1>7. NobodyForgotten' /\ FindersSound' /\ MappersSound'
  BY <1>1 DEF NobodyForgotten, FindersSound, MappersSound, Freeing, Mapping, Holds
<1>8. PointersSound' /\ KeepersSound' /\ RefsCounted'
  BY <1>1 DEF PointersSound, KeepersSound, RefsCounted
<1>9. HandlesOwned'
  BY <1>1 DEF HandlesOwned, Allocating, Importing, Freeing
<1>10. MappingsAccounted'
  BY <1>1, MappingsStay
<1> QED
  BY <1>2, <1>3, <1>4, <1>5, <1>6, <1>7, <1>8, <1>9, <1>10

(* The kernel opens the descriptor's buffer: a new handle, or the one it has. *)
LEMMA ImportOpenPreserves ==
  ASSUME BoInvariant, NEW t \in Threads, NEW v \in Vars, NEW b \in Buffers, ImportOpen(t, v, b)
  PROVE  BoInvariant'
<1> USE BoManagerAssumption DEF BoInvariant
<1>0. PICK h \in HandlesFor(b) :
         /\ handleOf' = [handleOf EXCEPT ![b] = h]
         /\ call' = [call EXCEPT ![t] = [NoCall EXCEPT !.var = v, !.buf = b, !.handle = h]]
  BY DEF ImportOpen
<1>1. /\ pc[t] = "idle" /\ pc' = [pc EXCEPT ![t] = "import"]
      /\ v[1] = t /\ ref[v] = NoBo /\ b \in fds
      /\ tableLock = NoThread /\ tableLock' = t
      /\ UNCHANGED <<fds, mapping, table, refcount, handle, cpu_ptr, cpu_map_count, cpuLock, ref, cpu, origin, leaked>>
  BY <1>0 DEF ImportOpen, FreeVar, Lock, Goto, kernelVars, boVars, mapVars
<1>2. /\ pc'[t] = "import" /\ call'[t].var = v /\ call'[t].buf = b /\ call'[t].handle = h
      /\ \A u \in Threads \ {t} : pc'[u] = pc[u] /\ call'[u] = call[u]
  BY <1>0, <1>1 DEF TypeOK, NoCall
<1>3. \A u \in Threads \ {t} :
         /\ Allocating(u)' <=> Allocating(u)
         /\ Importing(u)' <=> Importing(u)
         /\ Freeing(u)' <=> Freeing(u)
         /\ Finding(u)' <=> Finding(u)
         /\ Mapping(u)' <=> Mapping(u)
  BY <1>2, OthersStay
<1>4. /\ ~Allocating(t)' /\ Importing(t)' /\ ~Freeing(t)' /\ ~Finding(t)' /\ ~Mapping(t)'
      /\ ~Allocating(t) /\ ~Importing(t) /\ ~Freeing(t) /\ ~Finding(t) /\ ~Mapping(t)
  BY <1>1, <1>2 DEF Allocating, Importing, Freeing, Finding, Mapping
<1>5. /\ h \in Handles /\ h # NoHandle
      /\ handleOf' \in [Buffers -> Handles \cup {NoHandle}]
      /\ handleOf'[b] = h
      /\ \A c \in Buffers \ {b} : handleOf'[c] = handleOf[c]
      /\ HandlesDistinct'
      /\ \A o \in Bos : handle[o] # NoHandle =>
            origin[o] \in Buffers /\ handleOf'[origin[o]] = handle[o]
  <2>1. CASE handleOf[b] = NoHandle
    <3>1. h \in FreshHandles
      BY <1>0, <2>1 DEF HandlesFor
    <3> QED
      BY <1>0, <2>1, <3>1, HandleOpened
  <2>2. CASE handleOf[b] # NoHandle
    <3>1. h = handleOf[b] /\ handleOf' = handleOf
      BY <1>0, <2>2 DEF HandlesFor, TypeOK
    <3>2. h \in Handles
      BY <2>2, <3>1 DEF TypeOK
    <3> QED
      BY <2>2, <3>1, <3>2 DEF TypeOK, HandlesDistinct, BosSound
  <2> QED
    BY <2>1, <2>2
<1>6. /\ \A u \in Threads : ~Importing(u) /\ ~Freeing(u) /\ ~Finding(u) /\ pc[u] # "found"
      /\ \A u \in Threads : Allocating(u) => call[u].buf # b /\ call[u].buf \in Buffers
  BY <1>1 DEF TableLockHeld, AllocatorsSound
<1>7. TypeOK'
  BY <1>0, <1>1, <1>5 DEF TypeOK, CallType, NoCall, Labels
<1>8. MappingsAccounted'
  BY <1>1, MappingsStay
<1>9. RefsCounted' /\ KeepersSound'
  BY <1>1 DEF RefsCounted, KeepersSound
<1>10. TableSound'
  BY <1>1 DEF TableSound
<1>11. BosSound'
  BY <1>1, <1>5 DEF BosSound
<1>12. TableLockHeld'
  BY <1>1, <1>2, <1>3, <1>4, <1>6 DEF TableLockHeld
<1>13. CpuLocksHeld'
  BY <1>1, <1>2, <1>3, <1>4 DEF CpuLocksHeld
<1>14. CallersSound'
  BY <1>1, <1>2, <1>3, <1>4 DEF CallersSound
<1>15. AllocatorsSound'
  BY <1>1, <1>2, <1>3, <1>4, <1>5, <1>6 DEF AllocatorsSound
<1>16. AllocatorsApart'
  BY <1>1, <1>2, <1>3, <1>4, <1>6 DEF AllocatorsApart
<1>17. ImportersSound'
  BY <1>1, <1>2, <1>3, <1>4, <1>5, <1>6 DEF ImportersSound, Importing
<1>18. FreersSound'
  BY <1>1, <1>2, <1>3, <1>4 DEF FreersSound
<1>19. NobodyForgotten'
  BY <1>1, <1>2, <1>3, <1>4 DEF NobodyForgotten
<1>20. FindersSound'
  BY <1>1, <1>2, <1>3, <1>4 DEF FindersSound
<1>21. \A u \in Threads, p \in Bos : Holds(u, p)' <=> Holds(u, p)
  BY <1>1 DEF Holds
<1>22. MappersSound'
  BY <1>1, <1>2, <1>3, <1>4, <1>21 DEF MappersSound
<1>23. PointersSound'
  BY <1>1, <1>2, <1>3, <1>4 DEF PointersSound
<1>24. HandlesOwned'
  <2> SUFFICES ASSUME NEW c \in Buffers, handleOf'[c] # NoHandle
               PROVE  \/ table[handleOf'[c]] # NoBo
                      \/ handleOf'[c] \in leaked
                      \/ \E u \in Threads :
                            (Allocating(u) \/ Importing(u))' /\ call'[u].handle = handleOf'[c]
                      \/ \E u \in Threads : Freeing(u)' /\ handle[call'[u].bo] = handleOf'[c]
    BY <1>1 DEF HandlesOwned
  <2>1. CASE c = b
    BY <1>2, <1>4, <1>5, <2>1
  <2>2. CASE c # b
    <3>1. handleOf'[c] = handleOf[c]
      BY <1>5, <2>2
    <3> QED
      BY <1>2, <1>3, <1>4, <3>1 DEF HandlesOwned
  <2> QED
    BY <2>1, <2>2
<1> QED
  BY <1>5, <1>7, <1>8, <1>9, <1>10, <1>11, <1>12, <1>13, <1>14, <1>15, <1>16, <1>17,
     <1>18, <1>19, <1>20, <1>22, <1>23, <1>24

(* An import that fails in the query leaves its handle open. *)
LEMMA ImportQueryFailsPreserves ==
  ASSUME BoInvariant, NEW t \in Threads, ImportQueryFails(t)
  PROVE  BoInvariant'
<1> USE BoManagerAssumption DEF BoInvariant
<1>1. /\ pc[t] = "import"
      /\ leaked' = IF table[call[t].handle] = NoBo THEN leaked \cup {call[t].handle} ELSE leaked
      /\ tableLock' = NoThread
      /\ pc' = [pc EXCEPT ![t] = "idle"]
      /\ call' = [call EXCEPT ![t] = NoCall]
      /\ UNCHANGED <<handleOf, fds, mapping, table, refcount, handle, cpu_ptr, cpu_map_count, cpuLock, ref, cpu, origin>>
  BY DEF ImportQueryFails, Return, Goto, Unlock, kernelVars, boVars, mapVars
<1>2. /\ pc'[t] = "idle"
      /\ \A u \in Threads \ {t} : pc'[u] = pc[u] /\ call'[u] = call[u]
  BY <1>1 DEF TypeOK, NoCall
<1>3. \A u \in Threads \ {t} :
         /\ Allocating(u)' <=> Allocating(u)
         /\ Importing(u)' <=> Importing(u)
         /\ Freeing(u)' <=> Freeing(u)
         /\ Finding(u)' <=> Finding(u)
         /\ Mapping(u)' <=> Mapping(u)
  BY <1>2, OthersStay
<1>4. /\ ~Allocating(t)' /\ ~Importing(t)' /\ ~Freeing(t)' /\ ~Finding(t)' /\ ~Mapping(t)'
      /\ ~Allocating(t) /\ Importing(t) /\ ~Freeing(t) /\ ~Finding(t) /\ ~Mapping(t)
  BY <1>1, <1>2 DEF Allocating, Importing, Freeing, Finding, Mapping
<1>5. /\ tableLock = t
      /\ \A u \in Threads \ {t} : ~Importing(u) /\ ~Freeing(u) /\ ~Finding(u) /\ pc[u] # "found"
  BY <1>1, <1>4, BoManagerAssumption DEF TableLockHeld
<1>6. call[t].handle \in Handles
  BY <1>4 DEF ImportersSound, TypeOK
<1>7. TypeOK'
  BY <1>1, <1>6 DEF TypeOK, CallType, NoCall, Labels
<1>8. MappingsAccounted'
  BY <1>1, MappingsStay
<1>9. RefsCounted' /\ KeepersSound'
  BY <1>1 DEF RefsCounted, KeepersSound
<1>10. HandlesDistinct' /\ BosSound' /\ TableSound'
  BY <1>1 DEF HandlesDistinct, BosSound, TableSound
<1>11. TableLockHeld'
  BY <1>1, <1>2, <1>3, <1>4, <1>5 DEF TableLockHeld
<1>12. CpuLocksHeld'
  BY <1>1, <1>2, <1>3, <1>4 DEF CpuLocksHeld
<1>13. CallersSound'
  BY <1>1, <1>2, <1>3, <1>4 DEF CallersSound
<1>14. AllocatorsSound'
  BY <1>1, <1>2, <1>3, <1>4 DEF AllocatorsSound
<1>15. AllocatorsApart'
  BY <1>1, <1>2, <1>3, <1>4 DEF AllocatorsApart
<1>16. ImportersSound'
  BY <1>1, <1>2, <1>3, <1>4 DEF ImportersSound
<1>17. FreersSound'
  BY <1>1, <1>2, <1>3, <1>4 DEF FreersSound
<1>18. NobodyForgotten'
  BY <1>1, <1>2, <1>3, <1>4 DEF NobodyForgotten
<1>19. FindersSound'
  BY <1>1, <1>2, <1>3, <1>4 DEF FindersSound
<1>20. \A u \in Threads, p \in Bos : Holds(u, p)' <=> Holds(u, p)
  BY <1>1 DEF Holds
<1>21. MappersSound'
  BY <1>1, <1>2, <1>3, <1>4, <1>20 DEF MappersSound
<1>22. PointersSound'
  BY <1>1, <1>2, <1>3, <1>4 DEF PointersSound
<1>23. HandlesOwned'
  <2> SUFFICES ASSUME NEW c \in Buffers, handleOf[c] # NoHandle
               PROVE  \/ table[handleOf[c]] # NoBo
                      \/ handleOf[c] \in leaked'
                      \/ \E u \in Threads :
                            (Allocating(u) \/ Importing(u))' /\ call'[u].handle = handleOf[c]
                      \/ \E u \in Threads : Freeing(u)' /\ handle[call'[u].bo] = handleOf[c]
    BY <1>1 DEF HandlesOwned
  <2>1. CASE handleOf[c] = call[t].handle
    BY <1>1, <2>1
  <2>2. CASE handleOf[c] # call[t].handle
    <3>1. \A u \in Threads : call[u].handle = handleOf[c] => u # t
      BY <2>2
    <3> QED
      BY <1>1, <1>2, <1>3, <1>4, <3>1 DEF HandlesOwned
  <2> QED
    BY <2>1, <2>2
<1> QED
  BY <1>7, <1>8, <1>9, <1>10, <1>11, <1>12, <1>13, <1>14, <1>15, <1>16, <1>17, <1>18,
     <1>19, <1>21, <1>22, <1>23

(* The bo of an open handle gets another reference. *)
LEMMA ImportExistingPreserves ==
  ASSUME BoInvariant, NEW t \in Threads, ImportExisting(t)
  PROVE  BoInvariant'
<1> USE BoManagerAssumption DEF BoInvariant
<1> DEFINE v == call[t].var
           h == call[t].handle
           o == table[h]
<1>1. /\ pc[t] = "import" /\ o # NoBo
      /\ AddReference(o, v)
      /\ tableLock' = NoThread
      /\ pc' = [pc EXCEPT ![t] = "idle"]
      /\ call' = [call EXCEPT ![t] = NoCall]
      /\ UNCHANGED <<handleOf, fds, mapping, table, handle, cpu_ptr, cpu_map_count, cpuLock, cpu, origin, leaked>>
  BY DEF ImportExisting, Return, Goto, Unlock, kernelVars, boVars, mapVars
<1>2. /\ pc'[t] = "idle"
      /\ \A u \in Threads \ {t} : pc'[u] = pc[u] /\ call'[u] = call[u]
  BY <1>1 DEF TypeOK, NoCall
<1>3. \A u \in Threads \ {t} :
         /\ Allocating(u)' <=> Allocating(u)
         /\ Importing(u)' <=> Importing(u)
         /\ Freeing(u)' <=> Freeing(u)
         /\ Finding(u)' <=> Finding(u)
         /\ Mapping(u)' <=> Mapping(u)
  BY <1>2, OthersStay
<1>4. /\ ~Allocating(t)' /\ ~Importing(t)' /\ ~Freeing(t)' /\ ~Finding(t)' /\ ~Mapping(t)'
      /\ ~Allocating(t) /\ Importing(t) /\ ~Freeing(t) /\ ~Finding(t) /\ ~Mapping(t)
  BY <1>1, <1>2 DEF Allocating, Importing, Freeing, Finding, Mapping
<1>5. /\ tableLock = t
      /\ \A u \in Threads \ {t} : ~Importing(u) /\ ~Freeing(u) /\ ~Finding(u) /\ pc[u] # "found"
  BY <1>1, <1>4, BoManagerAssumption DEF TableLockHeld
<1>6. /\ h \in Handles /\ o \in Bos /\ refcount[o] > 0
      /\ v \in Vars /\ v[1] = t /\ ref[v] = NoBo
  BY <1>1, <1>4 DEF ImportersSound, CallersSound, TypeOK, TableSound
<1> HIDE DEF v, o
<1>7. /\ refcount' \in [Bos -> 0 .. Cardinality(Vars)]
      /\ ref' \in [Vars -> Bos \cup {NoBo}]
      /\ refcount'[o] = refcount[o] + 1
      /\ \A p \in Bos \ {o} : refcount'[p] = refcount[p]
      /\ ref'[v] = o /\ \A w \in Vars \ {v} : ref'[w] = ref[w]
      /\ RefsCounted'
  BY <1>1, <1>6, ReferenceAdded
<1>8. /\ \A p \in Bos : refcount[p] \in Nat /\ refcount'[p] \in Nat
      /\ \A p \in Bos : refcount'[p] > 0 <=> refcount[p] > 0
      /\ \A p \in Bos : refcount'[p] = 0 <=> refcount[p] = 0
  BY <1>6, <1>7, BoundsAreNumbers DEF TypeOK
<1>9. \A u \in Threads \ {t}, p \in Bos : Holds(u, p)' <=> Holds(u, p)
  BY <1>6, <1>7, OthersHold
<1>10. TypeOK'
  BY <1>1, <1>7 DEF TypeOK, CallType, NoCall, Labels
<1>11. HandlesDistinct'
  BY <1>1 DEF HandlesDistinct
<1>12. BosSound'
  BY <1>1, <1>8 DEF BosSound
<1>13. TableSound'
  BY <1>1, <1>8 DEF TableSound, TypeOK
<1>14. TableLockHeld'
  BY <1>1, <1>2, <1>3, <1>4, <1>5 DEF TableLockHeld
<1>15. CpuLocksHeld'
  BY <1>1, <1>2, <1>3, <1>4 DEF CpuLocksHeld
<1>16. CallersSound'
  BY <1>1, <1>2, <1>3, <1>4, <1>5, <1>7, <1>6 DEF CallersSound
<1>17. AllocatorsSound'
  BY <1>1, <1>2, <1>3, <1>4 DEF AllocatorsSound
<1>18. AllocatorsApart'
  BY <1>1, <1>2, <1>3, <1>4 DEF AllocatorsApart
<1>19. ImportersSound'
  BY <1>1, <1>2, <1>3, <1>4 DEF ImportersSound
<1>20. FreersSound'
  BY <1>1, <1>2, <1>3, <1>4, <1>5 DEF FreersSound, Freeing
<1>21. NobodyForgotten'
  BY <1>1, <1>2, <1>3, <1>4, <1>8 DEF NobodyForgotten
<1>22. FindersSound'
  BY <1>1, <1>2, <1>3, <1>4, <1>5 DEF FindersSound, Finding
<1>23. MappersSound'
  BY <1>1, <1>2, <1>3, <1>4, <1>9 DEF MappersSound
<1>24. PointersSound'
  BY <1>1, <1>2, <1>3, <1>4 DEF PointersSound
<1>25. KeepersSound'
  BY <1>1, <1>8 DEF KeepersSound, TypeOK
<1>26. HandlesOwned'
  <2> SUFFICES ASSUME NEW c \in Buffers, handleOf[c] # NoHandle, table[handleOf[c]] = NoBo
               PROVE  \/ handleOf[c] \in leaked
                      \/ \E u \in Threads :
                            (Allocating(u) \/ Importing(u))' /\ call'[u].handle = handleOf[c]
                      \/ \E u \in Threads : Freeing(u)' /\ handle[call'[u].bo] = handleOf[c]
    BY <1>1 DEF HandlesOwned
  <2>1. handleOf[c] # h
    BY <1>1 DEF o
  <2>2. \A u \in Threads : call[u].handle = handleOf[c] => u # t
    BY <2>1
  <2> QED
    BY <1>1, <1>2, <1>3, <1>4, <2>2 DEF HandlesOwned
<1>27. MappingsAccounted'
  BY <1>1, <1>8, MappingsStay
<1> QED
  BY <1>7, <1>10, <1>11, <1>12, <1>13, <1>14, <1>15, <1>16, <1>17, <1>18, <1>19, <1>20,
     <1>21, <1>22, <1>23, <1>24, <1>25, <1>26, <1>27

(* A handle without a bo needs one. *)
LEMMA ImportNewPreserves ==
  ASSUME BoInvariant, NEW t \in Threads, ImportNew(t)
  PROVE  BoInvariant'
<1> USE BoManagerAssumption DEF BoInvariant
<1>1. /\ pc[t] = "import" /\ table[call[t].handle] = NoBo
      /\ pc' = [pc EXCEPT ![t] = "import_create"]
      /\ UNCHANGED <<handleOf, fds, mapping, table, tableLock, refcount, handle, cpu_ptr, cpu_map_count, cpuLock, ref, cpu, call, origin, leaked>>
  BY DEF ImportNew, Goto, kernelVars, boVars, mapVars
<1>2. /\ pc'[t] = "import_create" /\ call'[t] = call[t]
      /\ \A u \in Threads \ {t} : pc'[u] = pc[u] /\ call'[u] = call[u]
  BY <1>1 DEF TypeOK, NoCall
<1>3. \A u \in Threads \ {t} :
         /\ Allocating(u)' <=> Allocating(u)
         /\ Importing(u)' <=> Importing(u)
         /\ Freeing(u)' <=> Freeing(u)
         /\ Finding(u)' <=> Finding(u)
         /\ Mapping(u)' <=> Mapping(u)
  BY <1>2, OthersStay
<1>4. /\ ~Allocating(t)' /\ Importing(t)' /\ ~Freeing(t)' /\ ~Finding(t)' /\ ~Mapping(t)'
      /\ ~Allocating(t) /\ Importing(t) /\ ~Freeing(t) /\ ~Finding(t) /\ ~Mapping(t)
  BY <1>1, <1>2 DEF Allocating, Importing, Freeing, Finding, Mapping
<1>5. TypeOK'
  BY <1>1 DEF TypeOK, CallType, NoCall, Labels
<1>6. MappingsAccounted'
  BY <1>1, MappingsStay
<1>7. RefsCounted' /\ KeepersSound'
  BY <1>1 DEF RefsCounted, KeepersSound
<1>8. HandlesDistinct' /\ BosSound' /\ TableSound'
  BY <1>1 DEF HandlesDistinct, BosSound, TableSound
<1>9. TableLockHeld'
  BY <1>1, <1>2, <1>3, <1>4 DEF TableLockHeld
<1>10. CpuLocksHeld'
  BY <1>1, <1>2, <1>3, <1>4 DEF CpuLocksHeld
<1>11. CallersSound'
  BY <1>1, <1>2, <1>3, <1>4 DEF CallersSound
<1>12. AllocatorsSound'
  BY <1>1, <1>2, <1>3, <1>4 DEF AllocatorsSound
<1>13. AllocatorsApart'
  BY <1>1, <1>2, <1>3, <1>4 DEF AllocatorsApart
<1>14. ImportersSound'
  BY <1>1, <1>2, <1>3, <1>4 DEF ImportersSound
<1>15. FreersSound'
  BY <1>1, <1>2, <1>3, <1>4 DEF FreersSound
<1>16. NobodyForgotten'
  BY <1>1, <1>2, <1>3, <1>4 DEF NobodyForgotten
<1>17. FindersSound'
  BY <1>1, <1>2, <1>3, <1>4 DEF FindersSound
<1>18. \A u \in Threads, p \in Bos : Holds(u, p)' <=> Holds(u, p)
  BY <1>1 DEF Holds
<1>19. MappersSound'
  BY <1>1, <1>2, <1>3, <1>4, <1>18 DEF MappersSound
<1>20. PointersSound'
  BY <1>1, <1>2, <1>3, <1>4 DEF PointersSound
<1>21. HandlesOwned'
  BY <1>1, <1>2, <1>3, <1>4 DEF HandlesOwned
<1> QED
  BY <1>5, <1>6, <1>7, <1>8, <1>9, <1>10, <1>11, <1>12, <1>13, <1>14, <1>15, <1>16,
     <1>17, <1>19, <1>20, <1>21

(* The imported buffer gets its bo. *)
LEMMA ImportCreatePreserves ==
  ASSUME BoInvariant, NEW t \in Threads, ImportCreate(t)
  PROVE  BoInvariant'
<1> USE BoManagerAssumption DEF BoInvariant
<1> DEFINE v == call[t].var
           b == call[t].buf
           h == call[t].handle
<1>0. PICK o \in Bos : Create(o, call[t].var, call[t].buf, call[t].handle)
  BY DEF ImportCreate
<1>1. /\ pc[t] = "import_create"
      /\ leaked' = leaked \ {call[t].handle}
      /\ tableLock' = NoThread
      /\ pc' = [pc EXCEPT ![t] = "idle"]
      /\ call' = [call EXCEPT ![t] = NoCall]
      /\ UNCHANGED <<handleOf, fds, mapping, cpu_ptr, cpu_map_count, cpuLock, cpu>>
  BY <1>0 DEF ImportCreate, Unlock, Return, Goto, kernelVars, boVars, mapVars
<1>2. /\ pc'[t] = "idle"
      /\ \A u \in Threads \ {t} : pc'[u] = pc[u] /\ call'[u] = call[u]
  BY <1>0, <1>1 DEF TypeOK, NoCall
<1>3. \A u \in Threads \ {t} :
         /\ Allocating(u)' <=> Allocating(u)
         /\ Importing(u)' <=> Importing(u)
         /\ Freeing(u)' <=> Freeing(u)
         /\ Finding(u)' <=> Finding(u)
         /\ Mapping(u)' <=> Mapping(u)
  BY <1>2, OthersStay
<1>4. /\ ~Allocating(t)' /\ ~Importing(t)' /\ ~Freeing(t)' /\ ~Finding(t)' /\ ~Mapping(t)'
      /\ ~Allocating(t) /\ Importing(t) /\ ~Freeing(t) /\ ~Finding(t) /\ ~Mapping(t)
  BY <1>1, <1>2 DEF Allocating, Importing, Freeing, Finding, Mapping
<1>5. /\ tableLock = t
      /\ \A u \in Threads \ {t} : ~Importing(u) /\ ~Freeing(u) /\ ~Finding(u) /\ pc[u] # "found"
  BY <1>1, <1>4, BoManagerAssumption DEF TableLockHeld
<1>6. /\ b \in Buffers /\ h = handleOf[b] /\ h # NoHandle /\ h \in Handles /\ table[h] = NoBo
      /\ v \in Vars /\ v[1] = t /\ ref[v] = NoBo
      /\ \A u \in Threads \ {t} : Allocating(u) => call[u].buf # b
  BY <1>1, <1>4 DEF ImportersSound, CallersSound, AllocatorsApart, TypeOK
<1> HIDE DEF v, b, h
<1>7. Create(o, v, b, h) /\ UNCHANGED <<kernelVars, mapVars>>
  BY <1>0, <1>1 DEF v, b, h, kernelVars, mapVars
<1>8. \A p \in Bos : handle[p] # h
  <2>1. \A u \in Threads : ~Freeing(u)
    BY <1>4, <1>5
  <2> QED
    BY <1>6, <2>1, NoEntryNoBo
<1>9. /\ handle[o] = NoHandle /\ refcount[o] = 0
      /\ table' \in [Handles -> Bos \cup {NoBo}]
      /\ refcount' \in [Bos -> 0 .. Cardinality(Vars)]
      /\ handle' \in [Bos -> Handles \cup {NoHandle}]
      /\ ref' \in [Vars -> Bos \cup {NoBo}]
      /\ origin' \in [Bos -> Buffers \cup {NoBuffer}]
      /\ handle'[o] = h /\ refcount'[o] = 1 /\ table'[h] = o /\ ref'[v] = o
      /\ \A p \in Bos \ {o} : handle'[p] = handle[p] /\ refcount'[p] = refcount[p]
      /\ \A k \in Handles \ {h} : table'[k] = table[k]
      /\ \A w \in Vars \ {v} : ref'[w] = ref[w]
      /\ BosSound' /\ TableSound' /\ RefsCounted' /\ KeepersSound' /\ MappingsAccounted'
  BY <1>6, <1>7, <1>8, BoCreated
<1>10. \A u \in Threads \ {t} : Allocating(u) => call[u].handle # h
  BY <1>6 DEF AllocatorsSound, HandlesDistinct
<1>11. \A u \in Threads \ {t}, p \in Bos : Holds(u, p)' <=> Holds(u, p)
  BY <1>6, <1>9, OthersHold
<1>12. TypeOK'
  BY <1>0, <1>1, <1>9 DEF TypeOK, CallType, NoCall, Labels
<1>13. HandlesDistinct'
  BY <1>1 DEF HandlesDistinct
<1>14. TableLockHeld'
  BY <1>1, <1>2, <1>3, <1>4, <1>5 DEF TableLockHeld
<1>15. CpuLocksHeld'
  BY <1>1, <1>2, <1>3, <1>4 DEF CpuLocksHeld
<1>16. CallersSound'
  BY <1>1, <1>2, <1>3, <1>4, <1>6, <1>9 DEF CallersSound
<1>17. AllocatorsSound'
  BY <1>1, <1>2, <1>3, <1>4, <1>9, <1>10 DEF AllocatorsSound
<1>18. AllocatorsApart'
  BY <1>1, <1>2, <1>3, <1>4 DEF AllocatorsApart
<1>19. ImportersSound'
  BY <1>1, <1>2, <1>3, <1>4, <1>5 DEF ImportersSound, Importing
<1>20. FreersSound'
  BY <1>1, <1>2, <1>3, <1>4, <1>5 DEF FreersSound, Freeing
<1>21. NobodyForgotten'
  BY <1>1, <1>2, <1>3, <1>4, <1>9, <1>5 DEF NobodyForgotten
<1>22. FindersSound'
  BY <1>1, <1>2, <1>3, <1>4, <1>5 DEF FindersSound, Finding
<1>23. MappersSound'
  BY <1>1, <1>2, <1>3, <1>4, <1>11 DEF MappersSound
<1>24. PointersSound'
  BY <1>1, <1>2, <1>3, <1>4, <1>6, <1>9 DEF PointersSound
<1>25. HandlesOwned'
  <2> SUFFICES ASSUME NEW c \in Buffers, handleOf[c] # NoHandle, handleOf[c] # h
               PROVE  \/ table'[handleOf[c]] # NoBo
                      \/ handleOf[c] \in leaked'
                      \/ \E u \in Threads :
                            (Allocating(u) \/ Importing(u))' /\ call'[u].handle = handleOf[c]
                      \/ \E u \in Threads : Freeing(u)' /\ handle'[call'[u].bo] = handleOf[c]
    BY <1>1, <1>9 DEF HandlesOwned
  <2>1. handleOf[c] \in Handles /\ table'[handleOf[c]] = table[handleOf[c]]
    BY <1>9 DEF TypeOK
  <2>2. \A u \in Threads : call[u].handle = handleOf[c] => u # t
    BY DEF h
  <2>3. handleOf[c] \in leaked => handleOf[c] \in leaked'
    BY <1>1 DEF h
  <2> QED
    BY <1>2, <1>3, <1>4, <1>5, <2>1, <2>2, <2>3 DEF HandlesOwned
<1> QED
  BY <1>9, <1>12, <1>13, <1>14, <1>15, <1>16, <1>17, <1>18, <1>19, <1>20, <1>21, <1>22,
     <1>23, <1>24, <1>25

(* Without memory for the bo the import closes its handle. *)
LEMMA ImportNoMemoryPreserves ==
  ASSUME BoInvariant, NEW t \in Threads, ImportNoMemory(t)
  PROVE  BoInvariant'
<1> USE BoManagerAssumption DEF BoInvariant
<1> DEFINE b == call[t].buf
<1>1. /\ pc[t] = "import_create"
      /\ CloseHandle(call[t].handle)
      /\ leaked' = leaked \ {call[t].handle}
      /\ tableLock' = NoThread
      /\ pc' = [pc EXCEPT ![t] = "idle"]
      /\ call' = [call EXCEPT ![t] = NoCall]
      /\ UNCHANGED <<fds, mapping, table, refcount, handle, cpu_ptr, cpu_map_count, cpuLock, ref, cpu, origin>>
  BY DEF ImportNoMemory, Return, Goto, Unlock, kernelVars, boVars, mapVars
<1>2. /\ pc'[t] = "idle"
      /\ \A u \in Threads \ {t} : pc'[u] = pc[u] /\ call'[u] = call[u]
  BY <1>1 DEF TypeOK, NoCall
<1>3. \A u \in Threads \ {t} :
         /\ Allocating(u)' <=> Allocating(u)
         /\ Importing(u)' <=> Importing(u)
         /\ Freeing(u)' <=> Freeing(u)
         /\ Finding(u)' <=> Finding(u)
         /\ Mapping(u)' <=> Mapping(u)
  BY <1>2, OthersStay
<1>4. /\ ~Allocating(t)' /\ ~Importing(t)' /\ ~Freeing(t)' /\ ~Finding(t)' /\ ~Mapping(t)'
      /\ ~Allocating(t) /\ Importing(t) /\ ~Freeing(t) /\ ~Finding(t) /\ ~Mapping(t)
  BY <1>1, <1>2 DEF Allocating, Importing, Freeing, Finding, Mapping
<1>5. /\ b \in Buffers /\ handleOf[b] # NoHandle /\ call[t].handle = handleOf[b]
      /\ handleOf[b] \in Handles /\ table[handleOf[b]] = NoBo
      /\ \A u \in Threads \ {t} : Allocating(u) => call[u].buf # b
  BY <1>1, <1>4 DEF ImportersSound, AllocatorsApart, TypeOK
<1> HIDE DEF b
<1>6. /\ handleOf' \in [Buffers -> Handles \cup {NoHandle}]
      /\ handleOf'[b] = NoHandle
      /\ \A c \in Buffers \ {b} : handleOf'[c] = handleOf[c]
      /\ HandlesDistinct'
  BY <1>1, <1>5, HandleClosed
<1>7. /\ tableLock = t
      /\ \A u \in Threads \ {t} : ~Importing(u) /\ ~Freeing(u) /\ ~Finding(u) /\ pc[u] # "found"
  BY <1>1, <1>4, BoManagerAssumption DEF TableLockHeld
<1>8. \A p \in Bos : handle[p] # handleOf[b]
  <2>1. \A u \in Threads : ~Freeing(u)
    BY <1>4, <1>7
  <2> QED
    BY <1>5, <2>1, NoEntryNoBo
<1>9. TypeOK'
  BY <1>1, <1>6 DEF TypeOK, CallType, NoCall, Labels
<1>10. MappingsAccounted'
  BY <1>1, MappingsStay
<1>11. RefsCounted' /\ KeepersSound'
  BY <1>1 DEF RefsCounted, KeepersSound
<1>12. TableSound'
  BY <1>1 DEF TableSound
<1>13. BosSound'
  BY <1>1, <1>6, <1>8 DEF BosSound
<1>14. TableLockHeld'
  BY <1>1, <1>2, <1>3, <1>4, <1>7 DEF TableLockHeld
<1>15. CpuLocksHeld'
  BY <1>1, <1>2, <1>3, <1>4 DEF CpuLocksHeld
<1>16. CallersSound'
  BY <1>1, <1>2, <1>3, <1>4 DEF CallersSound
<1>17. AllocatorsSound'
  BY <1>1, <1>2, <1>3, <1>4, <1>5, <1>6 DEF AllocatorsSound
<1>18. AllocatorsApart'
  BY <1>1, <1>2, <1>3, <1>4 DEF AllocatorsApart
<1>19. ImportersSound'
  BY <1>1, <1>2, <1>3, <1>4, <1>7 DEF ImportersSound, Importing
<1>20. FreersSound'
  BY <1>1, <1>2, <1>3, <1>4 DEF FreersSound
<1>21. NobodyForgotten'
  BY <1>1, <1>2, <1>3, <1>4 DEF NobodyForgotten
<1>22. FindersSound'
  BY <1>1, <1>2, <1>3, <1>4 DEF FindersSound
<1>23. \A u \in Threads, p \in Bos : Holds(u, p)' <=> Holds(u, p)
  BY <1>1 DEF Holds
<1>24. MappersSound'
  BY <1>1, <1>2, <1>3, <1>4, <1>23 DEF MappersSound
<1>25. PointersSound'
  BY <1>1, <1>2, <1>3, <1>4 DEF PointersSound
<1>26. HandlesOwned'
  <2> SUFFICES ASSUME NEW c \in Buffers, handleOf'[c] # NoHandle
               PROVE  \/ table[handleOf'[c]] # NoBo
                      \/ handleOf'[c] \in leaked'
                      \/ \E u \in Threads :
                            (Allocating(u) \/ Importing(u))' /\ call'[u].handle = handleOf'[c]
                      \/ \E u \in Threads : Freeing(u)' /\ handle[call'[u].bo] = handleOf'[c]
    BY <1>1 DEF HandlesOwned
  <2>1. c # b /\ handleOf'[c] = handleOf[c] /\ handleOf[c] # NoHandle
    BY <1>6
  <2>2. handleOf[c] # call[t].handle
    BY <1>5, <2>1 DEF HandlesDistinct
  <2>3. \A u \in Threads : call[u].handle = handleOf[c] => u # t
    BY <2>2
  <2> QED
    BY <1>1, <1>2, <1>3, <1>4, <2>1, <2>2, <2>3 DEF HandlesOwned
<1> QED
  BY <1>6, <1>9, <1>10, <1>11, <1>12, <1>13, <1>14, <1>15, <1>16, <1>17, <1>18, <1>19,
     <1>20, <1>21, <1>22, <1>24, <1>25, <1>26

(* A reference copied without a lock. *)
LEMMA IncRefPreserves ==
  ASSUME BoInvariant, NEW t \in Threads, NEW v \in Vars, NEW w \in Vars, IncRef(t, v, w)
  PROVE  BoInvariant'
<1> USE BoManagerAssumption DEF BoInvariant
<1> DEFINE o == ref[v]
<1>1. /\ pc[t] = "idle" /\ ref[v] # NoBo /\ w[1] = t /\ ref[w] = NoBo
      /\ AddReference(ref[v], w)
      /\ UNCHANGED <<handleOf, fds, mapping, table, tableLock, handle, cpu_ptr, cpu_map_count, cpuLock, cpu, pc, call, origin, leaked>>
  BY DEF IncRef, FreeVar, kernelVars, boVars, mapVars
<1>5. o \in Bos /\ refcount[o] > 0 /\ w[1] = t
  BY <1>1, NamedCounted
<1>6. /\ refcount' \in [Bos -> 0 .. Cardinality(Vars)]
      /\ ref' \in [Vars -> Bos \cup {NoBo}]
      /\ refcount'[o] = refcount[o] + 1
      /\ \A p \in Bos \ {o} : refcount'[p] = refcount[p]
      /\ ref'[w] = o /\ \A x \in Vars \ {w} : ref'[x] = ref[x]
      /\ RefsCounted'
  BY <1>1, <1>5, ReferenceAdded
<1> HIDE DEF o
<1>7. /\ \A p \in Bos : refcount[p] \in Nat /\ refcount'[p] \in Nat
      /\ \A p \in Bos : refcount'[p] > 0 <=> refcount[p] > 0
      /\ \A p \in Bos : refcount'[p] = 0 <=> refcount[p] = 0
  BY <1>5, <1>6, BoundsAreNumbers DEF TypeOK
<1>8. \A u \in Threads \ {t}, p \in Bos : Holds(u, p)' <=> Holds(u, p)
  BY <1>5, <1>6, OthersHold
<1>9. TypeOK'
  BY <1>1, <1>6 DEF TypeOK, CallType, NoCall, Labels
<1>10. HandlesDistinct'
  BY <1>1 DEF HandlesDistinct
<1>11. TableLockHeld' /\ CpuLocksHeld'
  BY <1>1 DEF TableLockHeld, CpuLocksHeld, Allocating, Importing, Freeing, Finding,
     Mapping
<1>12. AllocatorsSound' /\ AllocatorsApart' /\ ImportersSound'
  BY <1>1 DEF AllocatorsSound, AllocatorsApart, ImportersSound, Allocating, Importing,
     Freeing, Finding, Mapping
<1>13. PointersSound' /\ HandlesOwned'
  BY <1>1 DEF PointersSound, HandlesOwned, Allocating, Importing, Freeing, Finding,
     Mapping
<1>14. BosSound'
  BY <1>1, <1>7 DEF BosSound
<1>15. TableSound'
  BY <1>1, <1>7 DEF TableSound, TypeOK
<1>16. CallersSound'
  <2> SUFFICES ASSUME NEW u \in Threads, pc[u] = "alloc_create" \/ Importing(u) \/ Finding(u)
               PROVE  call[u].var \in Vars /\ call[u].var[1] = u /\ ref'[call[u].var] = NoBo
    BY <1>1 DEF CallersSound, Importing, Finding
  <2>1. u # t
    BY <1>1 DEF Importing, Finding
  <2>2. call[u].var \in Vars /\ call[u].var[1] = u /\ ref[call[u].var] = NoBo
    BY DEF CallersSound
  <2> QED
    BY <1>5, <1>6, <2>1, <2>2
<1>17. FreersSound'
  BY <1>1, <1>7 DEF FreersSound, Freeing
<1>18. NobodyForgotten'
  BY <1>1, <1>7 DEF NobodyForgotten, Freeing
<1>19. FindersSound'
  BY <1>1, <1>7 DEF FindersSound
<1>20. MappersSound'
  BY <1>1, <1>8 DEF MappersSound, Mapping
<1>21. KeepersSound'
  BY <1>1, <1>7 DEF KeepersSound, TypeOK
<1>22. MappingsAccounted'
  BY <1>1, <1>7, MappingsStay
<1> QED
  BY <1>6, <1>9, <1>10, <1>11, <1>12, <1>13, <1>14, <1>15, <1>16, <1>17, <1>18, <1>19,
     <1>20, <1>21, <1>22

(* Not the last reference: the bo stays as it is. *)
LEMMA FreeSharedPreserves ==
  ASSUME BoInvariant, NEW t \in Threads, NEW v \in Vars, FreeShared(t, v)
  PROVE  BoInvariant'
<1> USE BoManagerAssumption DEF BoInvariant
<1> DEFINE o == ref[v]
<1>1. /\ pc[t] = "idle" /\ v[1] = t /\ o # NoBo /\ refcount[o] > 1
      /\ DropReference(v)
      /\ UNCHANGED <<handleOf, fds, mapping, table, tableLock, handle, cpu_ptr, cpu_map_count, cpuLock, cpu, pc, call, origin, leaked>>
  BY DEF FreeShared, LockAndUnlock, kernelVars, boVars, mapVars
<1>5. o \in Bos /\ v[1] = t
  BY <1>1, NamedCounted
<1>6. /\ refcount' \in [Bos -> 0 .. Cardinality(Vars)]
      /\ ref' \in [Vars -> Bos \cup {NoBo}]
      /\ refcount'[o] = refcount[o] - 1
      /\ \A p \in Bos \ {o} : refcount'[p] = refcount[p]
      /\ ref'[v] = NoBo /\ \A w \in Vars \ {v} : ref'[w] = ref[w]
      /\ RefsCounted'
  BY <1>1, <1>5, ReferenceDropped
<1> HIDE DEF o
<1>7. /\ \A p \in Bos : refcount[p] \in Nat /\ refcount'[p] \in Nat
      /\ \A p \in Bos : refcount'[p] > 0 <=> refcount[p] > 0
      /\ \A p \in Bos : refcount'[p] = 0 <=> refcount[p] = 0
  BY <1>1, <1>5, <1>6, BoundsAreNumbers DEF TypeOK
<1>8. \A u \in Threads \ {t}, p \in Bos : Holds(u, p)' <=> Holds(u, p)
  BY <1>5, <1>6, OthersHold
<1>9. TypeOK'
  BY <1>1, <1>6 DEF TypeOK, CallType, NoCall, Labels
<1>10. HandlesDistinct'
  BY <1>1 DEF HandlesDistinct
<1>11. TableLockHeld' /\ CpuLocksHeld'
  BY <1>1 DEF TableLockHeld, CpuLocksHeld, Allocating, Importing, Freeing, Finding,
     Mapping
<1>12. AllocatorsSound' /\ AllocatorsApart' /\ ImportersSound'
  BY <1>1 DEF AllocatorsSound, AllocatorsApart, ImportersSound, Allocating, Importing,
     Freeing, Finding, Mapping
<1>13. PointersSound' /\ HandlesOwned'
  BY <1>1 DEF PointersSound, HandlesOwned, Allocating, Importing, Freeing, Finding,
     Mapping
<1>14. BosSound'
  BY <1>1, <1>7 DEF BosSound
<1>15. TableSound'
  BY <1>1, <1>7 DEF TableSound, TypeOK
<1>16. CallersSound'
  <2> SUFFICES ASSUME NEW u \in Threads, pc[u] = "alloc_create" \/ Importing(u) \/ Finding(u)
               PROVE  call[u].var \in Vars /\ call[u].var[1] = u /\ ref'[call[u].var] = NoBo
    BY <1>1 DEF CallersSound, Importing, Finding
  <2>1. u # t
    BY <1>1 DEF Importing, Finding
  <2>2. call[u].var \in Vars /\ call[u].var[1] = u /\ ref[call[u].var] = NoBo
    BY DEF CallersSound
  <2> QED
    BY <1>5, <1>6, <2>1, <2>2
<1>17. FreersSound'
  BY <1>1, <1>7 DEF FreersSound, Freeing
<1>18. NobodyForgotten'
  BY <1>1, <1>7 DEF NobodyForgotten, Freeing
<1>19. FindersSound'
  BY <1>1, <1>7 DEF FindersSound
<1>20. MappersSound'
  BY <1>1, <1>8 DEF MappersSound, Mapping
<1>21. KeepersSound'
  BY <1>1, <1>7 DEF KeepersSound, TypeOK
<1>22. MappingsAccounted'
  BY <1>1, <1>7, MappingsStay
<1> QED
  BY <1>6, <1>9, <1>10, <1>11, <1>12, <1>13, <1>14, <1>15, <1>16, <1>17, <1>18, <1>19,
     <1>20, <1>21, <1>22

(* The last reference: the bo leaves the table, and nobody names it. *)
LEMMA FreeLastPreserves ==
  ASSUME BoInvariant, NEW t \in Threads, NEW v \in Vars, FreeLast(t, v)
  PROVE  BoInvariant'
<1> USE BoManagerAssumption DEF BoInvariant
<1> DEFINE o == ref[v]
<1>1. /\ pc[t] = "idle" /\ pc' = [pc EXCEPT ![t] = "free_unmap"]
      /\ v[1] = t /\ o # NoBo /\ refcount[o] = 1
      /\ tableLock = NoThread /\ tableLock' = t
      /\ DropReference(v)
      /\ table' = [table EXCEPT ![handle[o]] = NoBo]
      /\ cpu' = [u \in Threads |-> IF cpu[u] = o THEN NoBo ELSE cpu[u]]
      /\ call' = [call EXCEPT ![t] = [NoCall EXCEPT !.bo = o]]
      /\ UNCHANGED <<handleOf, fds, mapping, handle, cpu_ptr, cpu_map_count, cpuLock, origin, leaked>>
  BY DEF FreeLast, Lock, Goto, kernelVars, boVars, mapVars
<1>2. /\ pc'[t] = "free_unmap" /\ call'[t].bo = o
      /\ \A u \in Threads \ {t} : pc'[u] = pc[u] /\ call'[u] = call[u]
  BY <1>1 DEF TypeOK, NoCall
<1>3. \A u \in Threads \ {t} :
         /\ Allocating(u)' <=> Allocating(u)
         /\ Importing(u)' <=> Importing(u)
         /\ Freeing(u)' <=> Freeing(u)
         /\ Finding(u)' <=> Finding(u)
         /\ Mapping(u)' <=> Mapping(u)
  BY <1>2, OthersStay
<1>4. /\ ~Allocating(t)' /\ ~Importing(t)' /\ Freeing(t)' /\ ~Finding(t)' /\ ~Mapping(t)'
      /\ ~Allocating(t) /\ ~Importing(t) /\ ~Freeing(t) /\ ~Finding(t) /\ ~Mapping(t)
  BY <1>1, <1>2 DEF Allocating, Importing, Freeing, Finding, Mapping
<1>5. /\ o \in Bos /\ v[1] = t
      /\ handle[o] \in Handles /\ handle[o] # NoHandle /\ table[handle[o]] = o
  BY <1>1, NamedCounted DEF BosSound, TypeOK
<1>6. /\ refcount' \in [Bos -> 0 .. Cardinality(Vars)]
      /\ ref' \in [Vars -> Bos \cup {NoBo}]
      /\ refcount'[o] = refcount[o] - 1
      /\ \A p \in Bos \ {o} : refcount'[p] = refcount[p]
      /\ ref'[v] = NoBo /\ \A w \in Vars \ {v} : ref'[w] = ref[w]
      /\ RefsCounted'
  BY <1>1, <1>5, ReferenceDropped
<1> HIDE DEF o
<1>7. refcount'[o] = 0
  BY <1>1, <1>6
<1>8. \A u \in Threads \ {t}, p \in Bos : Holds(u, p)' <=> Holds(u, p)
  BY <1>5, <1>6, OthersHold
<1>9. \A u \in Threads : ~Importing(u) /\ ~Freeing(u) /\ ~Finding(u) /\ pc[u] # "found"
  BY <1>1 DEF TableLockHeld
<1>10. /\ table' \in [Handles -> Bos \cup {NoBo}]
       /\ table'[handle[o]] = NoBo
       /\ \A k \in Handles \ {handle[o]} : table'[k] = table[k] /\ table[k] # o
  BY <1>1, <1>5 DEF TypeOK, TableSound
<1>11. /\ cpu' \in [Threads -> Bos \cup {NoBo}]
       /\ \A u \in Threads : cpu'[u] # o /\ (cpu'[u] # NoBo => cpu'[u] = cpu[u])
       /\ \A u \in Threads, p \in Bos \ {o} : cpu'[u] = p <=> cpu[u] = p
  BY <1>1, <1>5 DEF TypeOK
<1>12. TypeOK'
  BY <1>1, <1>5, <1>6, <1>10, <1>11 DEF TypeOK, CallType, NoCall, Labels
<1>13. HandlesDistinct'
  BY <1>1 DEF HandlesDistinct
<1>14. BosSound'
  <2> SUFFICES ASSUME NEW p \in Bos, refcount'[p] > 0
               PROVE  handle[p] # NoHandle /\ table'[handle[p]] = p
    BY <1>1 DEF BosSound
  <2>1. p # o
    BY <1>7
  <2>2. handle[p] # NoHandle /\ table[handle[p]] = p
    BY <1>6, <2>1 DEF BosSound
  <2>3. handle[p] \in Handles /\ handle[p] # handle[o]
    BY <1>5, <2>1, <2>2 DEF TypeOK
  <2> QED
    BY <1>10, <2>2, <2>3
<1>15. TableSound'
  <2> SUFFICES ASSUME NEW k \in Handles, table'[k] # NoBo
               PROVE  handle[table'[k]] = k /\ refcount'[table'[k]] > 0
    BY <1>1 DEF TableSound
  <2>1. table'[k] = table[k] /\ table[k] # o
    BY <1>10
  <2>2. table[k] \in Bos \ {o}
    BY <2>1 DEF TypeOK
  <2> QED
    BY <1>6, <2>1, <2>2 DEF TableSound
<1>16. TableLockHeld'
  BY <1>1, <1>2, <1>3, <1>4, <1>9 DEF TableLockHeld
<1>17. CpuLocksHeld'
  BY <1>1, <1>2, <1>3, <1>4 DEF CpuLocksHeld
<1>18. CallersSound'
  BY <1>1, <1>2, <1>3, <1>4, <1>6, <1>9 DEF CallersSound
<1>19. AllocatorsSound'
  BY <1>1, <1>2, <1>3, <1>4 DEF AllocatorsSound
<1>20. AllocatorsApart'
  BY <1>1, <1>2, <1>3, <1>4 DEF AllocatorsApart
<1>21. ImportersSound'
  BY <1>1, <1>2, <1>3, <1>4, <1>9 DEF ImportersSound, Importing
<1>22. FreersSound'
  BY <1>1, <1>2, <1>3, <1>4, <1>5, <1>7, <1>9, <1>10 DEF FreersSound, Freeing
<1>23. NobodyForgotten'
  BY <1>1, <1>2, <1>3, <1>4, <1>6, <1>9 DEF NobodyForgotten
<1>24. FindersSound'
  BY <1>1, <1>2, <1>3, <1>4, <1>9 DEF FindersSound, Finding
<1>25. MappersSound'
  BY <1>1, <1>2, <1>3, <1>4, <1>8, <1>11 DEF MappersSound
<1>26. PointersSound'
  BY <1>1, <1>2, <1>3, <1>4 DEF PointersSound
<1>27. KeepersSound'
  BY <1>6, <1>11 DEF KeepersSound, TypeOK
<1>28. HandlesOwned'
  <2> SUFFICES ASSUME NEW c \in Buffers, handleOf[c] # NoHandle
               PROVE  \/ table'[handleOf[c]] # NoBo
                      \/ handleOf[c] \in leaked
                      \/ \E u \in Threads :
                            (Allocating(u) \/ Importing(u))' /\ call'[u].handle = handleOf[c]
                      \/ \E u \in Threads : Freeing(u)' /\ handle[call'[u].bo] = handleOf[c]
    BY <1>1 DEF HandlesOwned
  <2>1. CASE handleOf[c] = handle[o]
    BY <1>1, <1>2, <1>4, <2>1
  <2>2. CASE handleOf[c] # handle[o]
    <3>1. table'[handleOf[c]] = table[handleOf[c]]
      BY <1>10, <2>2 DEF TypeOK
    <3> QED
      BY <1>2, <1>3, <1>4, <1>9, <3>1 DEF HandlesOwned
  <2> QED
    BY <2>1, <2>2
<1>29. MappingsAccounted'
  <2>1. ASSUME NEW p \in Bos, refcount'[p] > 0
        PROVE  cpu_map_count[p] = Cardinality({u \in Threads : cpu'[u] = p})
    <3>1. p # o
      BY <1>7, <2>1
    <3>2. cpu_map_count[p] = Cardinality({u \in Threads : cpu[u] = p})
      BY <1>6, <2>1, <3>1 DEF MappingsAccounted
    <3>3. {u \in Threads : cpu'[u] = p} = {u \in Threads : cpu[u] = p}
      BY <1>11, <3>1
    <3> QED
      BY <3>2, <3>3
  <2>2. /\ \A a \in Bases : mapping'[a] # NoBuffer =>
              \E p \in Bos :
                 cpu_ptr'[p] = a /\ origin'[p] = mapping'[a] /\ cpu_map_count'[p] > 0
        /\ \A p \in Bos : cpu_map_count'[p] > 0 =>
              cpu_ptr'[p] # NULL /\ mapping'[cpu_ptr'[p]] = origin'[p]
    BY <1>1 DEF MappingsAccounted
  <2> QED
    BY <1>1, <2>1, <2>2 DEF MappingsAccounted
<1> QED
  BY <1>6, <1>12, <1>13, <1>14, <1>15, <1>16, <1>17, <1>18, <1>19, <1>20, <1>21, <1>22,
     <1>23, <1>24, <1>25, <1>26, <1>27, <1>28, <1>29

(* Two bos that are mapped are mapped at two addresses. *)
LEMMA PointersDistinct ==
  ASSUME TypeOK, HandlesDistinct, BosSound, FreersSound, NobodyForgotten, TableLockHeld,
         PointersSound, MappingsAccounted,
         NEW o \in Bos, NEW p \in Bos, cpu_map_count[o] > 0, cpu_map_count[p] > 0,
         cpu_ptr[o] = cpu_ptr[p]
  PROVE  o = p
<1>1. origin[o] = origin[p]
  BY DEF MappingsAccounted
<1>2. handle[o] # NoHandle /\ handle[p] # NoHandle
  BY DEF PointersSound
<1>3. handle[o] = handle[p]
  BY <1>1, <1>2 DEF BosSound
<1> QED
  BY <1>2, <1>3, BosDistinct

(* One bo's mapping goes; the others' stay. *)
LEMMA MappingRemoved ==
  ASSUME TypeOK, HandlesDistinct, BosSound, FreersSound, NobodyForgotten, TableLockHeld,
         PointersSound, MappingsAccounted,
         NEW o \in Bos, cpu_map_count[o] > 0,
         mapping' = [mapping EXCEPT ![cpu_ptr[o]] = NoBuffer],
         cpu_map_count' = [cpu_map_count EXCEPT ![o] = 0],
         \A p \in Bos \ {o} : cpu_ptr'[p] = cpu_ptr[p],
         UNCHANGED origin
  PROVE  /\ mapping' \in [Bases -> Buffers \cup {NoBuffer}]
         /\ cpu_map_count' \in [Bos -> 0 .. Cardinality(Threads)]
         /\ cpu_map_count'[o] = 0
         /\ \A p \in Bos \ {o} : cpu_map_count'[p] = cpu_map_count[p]
         /\ \A a \in Bases : mapping'[a] # NoBuffer =>
               \E p \in Bos :
                  cpu_ptr'[p] = a /\ origin'[p] = mapping'[a] /\ cpu_map_count'[p] > 0
         /\ \A p \in Bos : cpu_map_count'[p] > 0 =>
               cpu_ptr'[p] # NULL /\ mapping'[cpu_ptr'[p]] = origin'[p]
<1> USE BoManagerAssumption
<1>1. cpu_ptr[o] \in Bases /\ cpu_ptr[o] # NULL
  BY DEF MappingsAccounted, TypeOK
<1>2. /\ mapping' \in [Bases -> Buffers \cup {NoBuffer}]
      /\ mapping'[cpu_ptr[o]] = NoBuffer
      /\ \A a \in Bases \ {cpu_ptr[o]} : mapping'[a] = mapping[a]
  BY <1>1 DEF TypeOK
<1>3. /\ cpu_map_count' \in [Bos -> 0 .. Cardinality(Threads)]
      /\ cpu_map_count'[o] = 0
      /\ \A p \in Bos \ {o} : cpu_map_count'[p] = cpu_map_count[p]
  BY BoundsAreNumbers DEF TypeOK
<1>4. ASSUME NEW a \in Bases, mapping'[a] # NoBuffer
      PROVE  \E p \in Bos :
                cpu_ptr'[p] = a /\ origin'[p] = mapping'[a] /\ cpu_map_count'[p] > 0
  <2>1. a # cpu_ptr[o] /\ mapping'[a] = mapping[a]
    BY <1>2, <1>4
  <2>2. PICK p \in Bos : cpu_ptr[p] = a /\ origin[p] = mapping[a] /\ cpu_map_count[p] > 0
    BY <1>4, <2>1 DEF MappingsAccounted
  <2>3. p # o
    BY <2>1, <2>2
  <2> QED
    BY <1>3, <2>1, <2>2, <2>3
<1>5. ASSUME NEW p \in Bos, cpu_map_count'[p] > 0
      PROVE  cpu_ptr'[p] # NULL /\ mapping'[cpu_ptr'[p]] = origin'[p]
  <2>1. p # o
    BY <1>3, <1>5
  <2>2. cpu_map_count[p] > 0 /\ cpu_ptr'[p] = cpu_ptr[p]
    BY <1>3, <1>5, <2>1
  <2>3. cpu_ptr[p] # NULL /\ mapping[cpu_ptr[p]] = origin[p]
    BY <2>2 DEF MappingsAccounted
  <2>4. cpu_ptr[p] \in Bases \ {cpu_ptr[o]}
    BY <2>1, <2>2, <2>3, PointersDistinct DEF TypeOK
  <2> QED
    BY <1>2, <2>2, <2>3, <2>4
<1> QED
  BY <1>2, <1>3, <1>4, <1>5

(* What is still mapped goes with the bo. *)
LEMMA FreeUnmapPreserves ==
  ASSUME BoInvariant, NEW t \in Threads, FreeUnmap(t)
  PROVE  BoInvariant'
<1> USE BoManagerAssumption DEF BoInvariant
<1> DEFINE o == call[t].bo
<1>1. /\ pc[t] = "free_unmap" /\ pc' = [pc EXCEPT ![t] = "free_close"]
      /\ cpuLock[o] = NoThread
      /\ UNCHANGED <<handleOf, fds, table, tableLock, refcount, handle, cpuLock, ref, cpu, call, origin, leaked>>
  BY DEF FreeUnmap, Goto, kernelVars, boVars, mapVars
<1>2. /\ pc'[t] = "free_close" /\ call'[t] = call[t]
      /\ \A u \in Threads \ {t} : pc'[u] = pc[u] /\ call'[u] = call[u]
  BY <1>1 DEF TypeOK, NoCall
<1>3. \A u \in Threads \ {t} :
         /\ Allocating(u)' <=> Allocating(u)
         /\ Importing(u)' <=> Importing(u)
         /\ Freeing(u)' <=> Freeing(u)
         /\ Finding(u)' <=> Finding(u)
         /\ Mapping(u)' <=> Mapping(u)
  BY <1>2, OthersStay
<1>4. /\ ~Allocating(t)' /\ ~Importing(t)' /\ Freeing(t)' /\ ~Finding(t)' /\ ~Mapping(t)'
      /\ ~Allocating(t) /\ ~Importing(t) /\ Freeing(t) /\ ~Finding(t) /\ ~Mapping(t)
  BY <1>1, <1>2 DEF Allocating, Importing, Freeing, Finding, Mapping
<1>5. o \in Bos /\ refcount[o] = 0 /\ handle[o] # NoHandle /\ table[handle[o]] = NoBo
  BY <1>4 DEF FreersSound
<1> HIDE DEF o
<1>6. \A u \in Threads : Mapping(u) => call[u].bo # o
  <2>1. ASSUME NEW u \in Threads, Mapping(u), call[u].bo = o PROVE FALSE
    <3>1. Holds(u, o)
      BY <2>1 DEF MappersSound
    <3>2. PICK s \in Slots : ref[<<u, s>>] = o
      BY <3>1 DEF Holds
    <3>3. <<u, s>> \in Vars
      BY DEF Vars
    <3> QED
      BY <1>5, <3>2, <3>3, NamedCounted
  <2> QED
    BY <2>1
<1>7. /\ mapping' \in [Bases -> Buffers \cup {NoBuffer}]
      /\ cpu_ptr' \in [Bos -> Bases \cup {NULL}]
      /\ cpu_map_count' \in [Bos -> 0 .. Cardinality(Threads)]
      /\ cpu_map_count'[o] = 0 /\ cpu_ptr'[o] = NULL
      /\ \A p \in Bos \ {o} : cpu_map_count'[p] = cpu_map_count[p] /\ cpu_ptr'[p] = cpu_ptr[p]
      /\ \A a \in Bases : mapping'[a] # NoBuffer =>
            \E p \in Bos :
               cpu_ptr'[p] = a /\ origin'[p] = mapping'[a] /\ cpu_map_count'[p] > 0
      /\ \A p \in Bos : cpu_map_count'[p] > 0 =>
            cpu_ptr'[p] # NULL /\ mapping'[cpu_ptr'[p]] = origin'[p]
  <2>1. CASE cpu_map_count[o] > 0
    <3>1. /\ mapping' = [mapping EXCEPT ![cpu_ptr[o]] = NoBuffer]
          /\ cpu_ptr' = [cpu_ptr EXCEPT ![o] = NULL]
          /\ cpu_map_count' = [cpu_map_count EXCEPT ![o] = 0]
      BY <2>1 DEF FreeUnmap, Mapped, o
    <3>2. /\ cpu_ptr' \in [Bos -> Bases \cup {NULL}]
          /\ cpu_ptr'[o] = NULL
          /\ \A p \in Bos \ {o} : cpu_ptr'[p] = cpu_ptr[p]
      BY <1>5, <3>1 DEF TypeOK
    <3> QED
      BY <1>1, <1>5, <2>1, <3>1, <3>2, MappingRemoved
  <2>2. CASE ~(cpu_map_count[o] > 0)
    <3>1. UNCHANGED <<mapping, cpu_ptr, cpu_map_count>>
      BY <2>2 DEF FreeUnmap, Mapped, o
    <3>2. cpu_map_count[o] = 0
      BY <1>5, <2>2, BoundsAreNumbers DEF TypeOK
    <3>3. cpu_ptr[o] = NULL
      BY <1>5, <1>6, <3>2 DEF PointersSound, Mapping
    <3>4. /\ \A a \in Bases : mapping[a] # NoBuffer =>
                \E p \in Bos : cpu_ptr[p] = a /\ origin[p] = mapping[a] /\ cpu_map_count[p] > 0
          /\ \A p \in Bos : cpu_map_count[p] > 0 =>
                cpu_ptr[p] # NULL /\ mapping[cpu_ptr[p]] = origin[p]
      BY DEF MappingsAccounted
    <3> QED
      BY <1>1, <3>1, <3>2, <3>3, <3>4 DEF TypeOK
  <2> QED
    BY <2>1, <2>2
<1>8. /\ tableLock = t
      /\ \A u \in Threads \ {t} : ~Importing(u) /\ ~Freeing(u) /\ ~Finding(u) /\ pc[u] # "found"
  BY <1>1, <1>4, BoManagerAssumption DEF TableLockHeld
<1>9. TypeOK'
  BY <1>1, <1>7 DEF TypeOK, CallType, NoCall, Labels
<1>10. RefsCounted' /\ KeepersSound'
  BY <1>1 DEF RefsCounted, KeepersSound
<1>11. HandlesDistinct' /\ BosSound' /\ TableSound'
  BY <1>1 DEF HandlesDistinct, BosSound, TableSound
<1>12. TableLockHeld'
  BY <1>1, <1>2, <1>3, <1>4 DEF TableLockHeld
<1>13. CpuLocksHeld'
  BY <1>1, <1>2, <1>3, <1>4 DEF CpuLocksHeld
<1>14. CallersSound'
  BY <1>1, <1>2, <1>3, <1>4 DEF CallersSound
<1>15. AllocatorsSound'
  BY <1>1, <1>2, <1>3, <1>4 DEF AllocatorsSound
<1>16. AllocatorsApart'
  BY <1>1, <1>2, <1>3, <1>4 DEF AllocatorsApart
<1>17. ImportersSound'
  BY <1>1, <1>2, <1>3, <1>4 DEF ImportersSound
<1>18. FreersSound'
  <2>1. \A u \in Threads \ {t} : ~Freeing(u) /\ pc[u] # "free_close"
    BY <1>8 DEF Freeing
  <2> QED
    BY <1>1, <1>2, <1>3, <1>4, <1>5, <1>7, <2>1 DEF FreersSound, o
<1>19. NobodyForgotten'
  BY <1>1, <1>2, <1>3, <1>4 DEF NobodyForgotten
<1>20. FindersSound'
  BY <1>1, <1>2, <1>3, <1>4 DEF FindersSound
<1>21. MappersSound'
  <2>1. \A u \in Threads, p \in Bos : Holds(u, p)' <=> Holds(u, p)
    BY <1>1 DEF Holds
  <2> QED
    BY <1>1, <1>2, <1>3, <1>4, <1>5, <1>6, <1>7, <2>1 DEF MappersSound, Mapping
<1>22. PointersSound'
  BY <1>1, <1>2, <1>3, <1>4, <1>5, <1>7 DEF PointersSound
<1>23. HandlesOwned'
  BY <1>1, <1>2, <1>3, <1>4 DEF HandlesOwned
<1>24. MappingsAccounted'
  <2>1. ASSUME NEW p \in Bos, refcount[p] > 0
        PROVE  cpu_map_count'[p] = Cardinality({u \in Threads : cpu[u] = p})
    <3>1. p # o
      BY <1>5, <2>1
    <3> QED
      BY <1>7, <2>1, <3>1 DEF MappingsAccounted
  <2> QED
    BY <1>1, <1>7, <2>1 DEF MappingsAccounted
<1> QED
  BY <1>9, <1>10, <1>11, <1>12, <1>13, <1>14, <1>15, <1>16, <1>17, <1>18, <1>19, <1>20,
     <1>21, <1>22, <1>23, <1>24

(* The handle of the bo is closed and its memory freed. *)
LEMMA FreeClosePreserves ==
  ASSUME BoInvariant, NEW t \in Threads, FreeClose(t)
  PROVE  BoInvariant'
<1> USE BoManagerAssumption DEF BoInvariant
<1> DEFINE o == call[t].bo
           b == origin[o]
<1>1. /\ pc[t] = "free_close" /\ pc' = [pc EXCEPT ![t] = "idle"]
      /\ call' = [call EXCEPT ![t] = NoCall]
      /\ tableLock' = NoThread
      /\ CloseHandle(handle[o])
      /\ handle' = [handle EXCEPT ![o] = NoHandle]
      /\ origin' = [origin EXCEPT ![o] = NoBuffer]
      /\ UNCHANGED <<fds, mapping, table, refcount, cpu_ptr, cpu_map_count, cpuLock, ref, cpu, leaked>>
  BY DEF FreeClose, Goto, Return, Unlock, kernelVars, boVars, mapVars
<1>2. /\ pc'[t] = "idle"
      /\ \A u \in Threads \ {t} : pc'[u] = pc[u] /\ call'[u] = call[u]
  BY <1>1 DEF TypeOK, NoCall
<1>3. \A u \in Threads \ {t} :
         /\ Allocating(u)' <=> Allocating(u)
         /\ Importing(u)' <=> Importing(u)
         /\ Freeing(u)' <=> Freeing(u)
         /\ Finding(u)' <=> Finding(u)
         /\ Mapping(u)' <=> Mapping(u)
  BY <1>2, OthersStay
<1>4. /\ ~Allocating(t)' /\ ~Importing(t)' /\ ~Freeing(t)' /\ ~Finding(t)' /\ ~Mapping(t)'
      /\ ~Allocating(t) /\ ~Importing(t) /\ Freeing(t) /\ ~Finding(t) /\ ~Mapping(t)
  BY <1>1, <1>2 DEF Allocating, Importing, Freeing, Finding, Mapping
<1>5. /\ o \in Bos /\ refcount[o] = 0 /\ handle[o] # NoHandle /\ table[handle[o]] = NoBo
      /\ cpu_map_count[o] = 0
  BY <1>1, <1>4 DEF FreersSound
<1>6. b \in Buffers /\ handleOf[b] = handle[o] /\ handleOf[b] # NoHandle
  BY <1>5 DEF BosSound
<1> HIDE DEF o, b
<1>7. /\ handleOf' \in [Buffers -> Handles \cup {NoHandle}]
      /\ handleOf'[b] = NoHandle
      /\ \A c \in Buffers \ {b} : handleOf'[c] = handleOf[c]
      /\ HandlesDistinct'
  BY <1>1, <1>6, HandleClosed
<1>8. /\ tableLock = t
      /\ \A u \in Threads \ {t} : ~Importing(u) /\ ~Freeing(u) /\ ~Finding(u) /\ pc[u] # "found"
  BY <1>1, <1>4, BoManagerAssumption DEF TableLockHeld
<1>9. /\ handle' \in [Bos -> Handles \cup {NoHandle}]
      /\ origin' \in [Bos -> Buffers \cup {NoBuffer}]
      /\ handle'[o] = NoHandle
      /\ \A p \in Bos \ {o} : handle'[p] = handle[p] /\ origin'[p] = origin[p]
  BY <1>1, <1>5 DEF TypeOK
<1>10. \A p \in Bos \ {o} : handle[p] # handle[o]
  BY <1>5, BosDistinct
<1>11. TypeOK'
  BY <1>1, <1>7, <1>9 DEF TypeOK, CallType, NoCall, Labels
<1>12. RefsCounted' /\ KeepersSound'
  BY <1>1 DEF RefsCounted, KeepersSound
<1>13. BosSound'
  <2>1. ASSUME NEW p \in Bos, handle'[p] # NoHandle
        PROVE  origin'[p] \in Buffers /\ handleOf'[origin'[p]] = handle'[p]
    <3>1. p # o
      BY <1>9, <2>1
    <3>2. origin[p] \in Buffers /\ handleOf[origin[p]] = handle[p] /\ handle[p] # handle[o]
      BY <1>9, <1>10, <2>1, <3>1 DEF BosSound
    <3> QED
      BY <1>6, <1>7, <1>9, <3>1, <3>2
  <2>2. ASSUME NEW p \in Bos, refcount[p] > 0
        PROVE  handle'[p] # NoHandle /\ table[handle'[p]] = p
    BY <1>5, <1>9, <2>2 DEF BosSound
  <2> QED
    BY <1>1, <2>1, <2>2 DEF BosSound
<1>14. TableSound'
  <2> SUFFICES ASSUME NEW k \in Handles, table[k] # NoBo
               PROVE  handle'[table[k]] = k /\ refcount[table[k]] > 0
    BY <1>1 DEF TableSound
  <2>1. table[k] \in Bos \ {o}
    BY <1>5 DEF TableSound, TypeOK
  <2> QED
    BY <1>9, <2>1 DEF TableSound
<1>15. TableLockHeld'
  BY <1>1, <1>2, <1>3, <1>4, <1>8 DEF TableLockHeld
<1>16. CpuLocksHeld'
  BY <1>1, <1>2, <1>3, <1>4 DEF CpuLocksHeld
<1>17. CallersSound'
  BY <1>1, <1>2, <1>3, <1>4 DEF CallersSound
<1>18. AllocatorsSound'
  <2> SUFFICES ASSUME NEW u \in Threads \ {t}, Allocating(u)
               PROVE  /\ call[u].buf \in Buffers \ fds
                      /\ call[u].handle = handleOf'[call[u].buf] /\ call[u].handle # NoHandle
                      /\ \A p \in Bos : handle'[p] # call[u].handle
    BY <1>1, <1>2, <1>3, <1>4 DEF AllocatorsSound
  <2>1. /\ call[u].buf \in Buffers \ fds
        /\ call[u].handle = handleOf[call[u].buf] /\ call[u].handle # NoHandle
        /\ \A p \in Bos : handle[p] # call[u].handle
    BY DEF AllocatorsSound
  <2>2. call[u].buf # b
    BY <1>5, <1>6, <2>1
  <2> QED
    BY <1>7, <1>9, <2>1, <2>2
<1>19. AllocatorsApart'
  BY <1>1, <1>2, <1>3, <1>4 DEF AllocatorsApart
<1>20. ImportersSound'
  BY <1>1, <1>2, <1>3, <1>4, <1>8 DEF ImportersSound, Importing
<1>21. FreersSound'
  BY <1>1, <1>2, <1>3, <1>4, <1>8 DEF FreersSound, Freeing
<1>22. NobodyForgotten'
  <2> SUFFICES ASSUME NEW p \in Bos, handle'[p] # NoHandle, refcount[p] = 0 PROVE FALSE
    BY <1>1 DEF NobodyForgotten
  <2>1. p # o /\ handle[p] # NoHandle
    BY <1>9
  <2>2. PICK u \in Threads : Freeing(u) /\ call[u].bo = p
    BY <2>1 DEF NobodyForgotten
  <2> QED
    BY <1>8, <2>1, <2>2 DEF o
<1>23. FindersSound'
  BY <1>1, <1>2, <1>3, <1>4 DEF FindersSound
<1>24. \A u \in Threads, p \in Bos : Holds(u, p)' <=> Holds(u, p)
  BY <1>1 DEF Holds
<1>25. MappersSound'
  BY <1>1, <1>2, <1>3, <1>4, <1>24 DEF MappersSound
<1>26. PointersSound'
  BY <1>1, <1>2, <1>3, <1>4, <1>5, <1>9 DEF PointersSound
<1>27. HandlesOwned'
  <2> SUFFICES ASSUME NEW c \in Buffers, handleOf'[c] # NoHandle
               PROVE  \/ table[handleOf'[c]] # NoBo
                      \/ handleOf'[c] \in leaked
                      \/ \E u \in Threads :
                            (Allocating(u) \/ Importing(u))' /\ call'[u].handle = handleOf'[c]
    BY <1>1 DEF HandlesOwned
  <2>1. c # b /\ handleOf'[c] = handleOf[c] /\ handleOf[c] # NoHandle
    BY <1>7
  <2>2. handleOf[c] # handle[o]
    BY <1>6, <2>1 DEF HandlesDistinct
  <2>3. \A u \in Threads : Freeing(u) => handle[call[u].bo] # handleOf[c]
    BY <1>8, <2>2 DEF o
  <2> QED
    BY <1>1, <1>2, <1>3, <1>4, <2>1, <2>3 DEF HandlesOwned
<1>28. MappingsAccounted'
  <2>1. \A p \in Bos : cpu_map_count[p] > 0 => origin'[p] = origin[p]
    BY <1>5, <1>9
  <2> QED
    BY <1>1, <2>1 DEF MappingsAccounted
<1> QED
  BY <1>7, <1>11, <1>12, <1>13, <1>14, <1>15, <1>16, <1>17, <1>18, <1>19, <1>20, <1>21,
     <1>22, <1>23, <1>25, <1>26, <1>27, <1>28

(* A bo that is mapped is counted once more. *)
LEMMA MapAgainPreserves ==
  ASSUME BoInvariant, NEW t \in Threads, NEW o \in Bos, MapAgain(t, o)
  PROVE  BoInvariant'
<1> USE BoManagerAssumption DEF BoInvariant
<1>1. /\ pc[t] = "idle" /\ Holds(t, o) /\ cpu[t] = NoBo
      /\ cpuLock[o] = NoThread /\ cpu_ptr[o] # NULL
      /\ cpu_map_count' = [cpu_map_count EXCEPT ![o] = @ + 1]
      /\ cpu' = [cpu EXCEPT ![t] = o]
      /\ UNCHANGED <<handleOf, fds, mapping, table, tableLock, refcount, handle, cpu_ptr, cpuLock, ref, pc, call, origin, leaked>>
  BY DEF MapAgain, kernelVars, boVars, mapVars
<1>5. \A u \in Threads : Mapping(u) => call[u].bo # o
  BY <1>1, BoManagerAssumption DEF CpuLocksHeld
<1>6. refcount[o] > 0 /\ handle[o] # NoHandle
  <2>1. PICK s \in Slots : ref[<<t, s>>] = o
    BY <1>1 DEF Holds
  <2>2. <<t, s>> \in Vars
    BY DEF Vars
  <2> QED
    BY <2>1, <2>2, NamedCounted, BoManagerAssumption DEF BosSound
<1>7. cpu_map_count[o] \in Nat /\ cpu_map_count[o] > 0
  <2>1. cpu_map_count[o] # 0
    BY <1>1, <1>5 DEF PointersSound, Mapping
  <2> QED
    BY <2>1, BoundsAreNumbers DEF TypeOK
<1>8. /\ cpu_map_count'[o] = cpu_map_count[o] + 1
      /\ \A p \in Bos \ {o} : cpu_map_count'[p] = cpu_map_count[p]
      /\ cpu'[t] = o /\ \A u \in Threads \ {t} : cpu'[u] = cpu[u]
      /\ cpu' \in [Threads -> Bos \cup {NoBo}]
  BY <1>1, <1>7 DEF TypeOK
<1>9. /\ Count(Threads, cpu', o) = Count(Threads, cpu, o) + 1
      /\ \A p : p # o /\ p # NoBo => Count(Threads, cpu', p) = Count(Threads, cpu, p)
  <2>1. cpu'[t] # cpu[t]
    BY <1>1, <1>8, BoManagerAssumption
  <2> QED
    BY <1>1, <1>8, <2>1, CpuChange
<1>10. \A p \in Bos : refcount[p] > 0 => cpu_map_count'[p] = Count(Threads, cpu', p)
  <2>1. ASSUME NEW p \in Bos, refcount[p] > 0
        PROVE  cpu_map_count'[p] = Count(Threads, cpu', p)
    <3>1. cpu_map_count[p] = Count(Threads, cpu, p)
      BY <2>1 DEF MappingsAccounted, Count
    <3>2. CASE p = o
      BY <1>8, <1>9, <3>1, <3>2
    <3>3. CASE p # o
      BY <1>8, <1>9, BoManagerAssumption, <3>1, <3>3
    <3> QED
      BY <3>2, <3>3
  <2> QED
    BY <2>1
<1>11. cpu_map_count' \in [Bos -> 0 .. Cardinality(Threads)]
  <2>1. cpu_map_count'[o] \in 0 .. Cardinality(Threads)
    BY <1>6, <1>10, BoundsAreNumbers, CountType
  <2> QED
    BY <1>1, <1>8, <2>1 DEF TypeOK
<1>12. TypeOK'
  BY <1>1, <1>8, <1>11 DEF TypeOK, CallType, NoCall, Labels
<1>13. RefsCounted'
  BY <1>1 DEF RefsCounted
<1>14. HandlesDistinct' /\ BosSound' /\ TableSound'
  BY <1>1 DEF HandlesDistinct, BosSound, TableSound
<1>15. TableLockHeld' /\ CpuLocksHeld' /\ CallersSound'
  BY <1>1 DEF TableLockHeld, CpuLocksHeld, CallersSound, Allocating, Importing, Freeing,
     Finding, Mapping
<1>16. AllocatorsSound' /\ AllocatorsApart' /\ ImportersSound'
  BY <1>1 DEF AllocatorsSound, AllocatorsApart, ImportersSound, Allocating, Importing,
     Freeing, Finding, Mapping
<1>17. NobodyForgotten' /\ FindersSound'
  BY <1>1 DEF NobodyForgotten, FindersSound, Allocating, Importing, Freeing, Finding,
     Mapping
<1>18. HandlesOwned'
  BY <1>1 DEF HandlesOwned, Allocating, Importing, Freeing, Finding, Mapping
<1>19. FreersSound'
  BY <1>1, <1>6, <1>8 DEF FreersSound, Freeing
<1>20. MappersSound'
  <2>1. \A u \in Threads, p \in Bos : Holds(u, p)' <=> Holds(u, p)
    BY <1>1 DEF Holds
  <2>2. \A u \in Threads : Mapping(u) => u # t
    BY <1>1 DEF Mapping
  <2> QED
    BY <1>1, <1>5, <1>8, <2>1, <2>2 DEF MappersSound, Mapping
<1>21. PointersSound'
  BY <1>1, <1>6, <1>7, <1>8 DEF PointersSound
<1>22. KeepersSound'
  BY <1>1, <1>6, <1>8 DEF KeepersSound
<1>23. MappingsAccounted'
  <2>1. \A p \in Bos : cpu_map_count'[p] > 0 <=> cpu_map_count[p] > 0
    BY <1>7, <1>8
  <2> QED
    BY <1>1, <1>10, <2>1 DEF MappingsAccounted, Count
<1> QED
  BY <1>12, <1>13, <1>14, <1>15, <1>16, <1>17, <1>18, <1>19, <1>20, <1>21, <1>22, <1>23

(* A bo that is not mapped: the kernel is asked, under the bo's mutex. *)
LEMMA MapFirstPreserves ==
  ASSUME BoInvariant, NEW t \in Threads, NEW o \in Bos, MapFirst(t, o)
  PROVE  BoInvariant'
<1> USE BoManagerAssumption DEF BoInvariant
<1>1. /\ pc[t] = "idle" /\ pc' = [pc EXCEPT ![t] = "map"]
      /\ Holds(t, o) /\ cpu[t] = NoBo
      /\ cpuLock[o] = NoThread /\ cpu_ptr[o] = NULL
      /\ cpuLock' = [cpuLock EXCEPT ![o] = t]
      /\ call' = [call EXCEPT ![t] = [NoCall EXCEPT !.bo = o]]
      /\ UNCHANGED <<handleOf, fds, mapping, table, tableLock, refcount, handle, cpu_ptr, cpu_map_count, ref, cpu, origin, leaked>>
  BY DEF MapFirst, Goto, kernelVars, boVars, mapVars
<1>2. /\ pc'[t] = "map" /\ call'[t].bo = o
      /\ \A u \in Threads \ {t} : pc'[u] = pc[u] /\ call'[u] = call[u]
  BY <1>1 DEF TypeOK, NoCall
<1>3. \A u \in Threads \ {t} :
         /\ Allocating(u)' <=> Allocating(u)
         /\ Importing(u)' <=> Importing(u)
         /\ Freeing(u)' <=> Freeing(u)
         /\ Finding(u)' <=> Finding(u)
         /\ Mapping(u)' <=> Mapping(u)
  BY <1>2, OthersStay
<1>4. /\ ~Allocating(t)' /\ ~Importing(t)' /\ ~Freeing(t)' /\ ~Finding(t)' /\ Mapping(t)'
      /\ ~Allocating(t) /\ ~Importing(t) /\ ~Freeing(t) /\ ~Finding(t) /\ ~Mapping(t)
  BY <1>1, <1>2 DEF Allocating, Importing, Freeing, Finding, Mapping
<1>5. \A u \in Threads : Mapping(u) => call[u].bo # o
  BY <1>1, BoManagerAssumption DEF CpuLocksHeld
<1>6. cpu_map_count[o] = 0
  BY <1>1, BoundsAreNumbers DEF MappingsAccounted, TypeOK
<1>7. cpuLock'[o] = t /\ \A p \in Bos \ {o} : cpuLock'[p] = cpuLock[p]
  BY <1>1 DEF TypeOK
<1>8. TypeOK'
  BY <1>1 DEF TypeOK, CallType, NoCall, Labels
<1>9. MappingsAccounted'
  BY <1>1, MappingsStay
<1>10. RefsCounted' /\ KeepersSound'
  BY <1>1 DEF RefsCounted, KeepersSound
<1>11. HandlesDistinct' /\ BosSound' /\ TableSound'
  BY <1>1 DEF HandlesDistinct, BosSound, TableSound
<1>12. TableLockHeld'
  BY <1>1, <1>2, <1>3, <1>4 DEF TableLockHeld
<1>13. CpuLocksHeld'
  BY <1>1, <1>2, <1>3, <1>4, <1>5, <1>7, BoManagerAssumption DEF CpuLocksHeld
<1>14. CallersSound'
  BY <1>1, <1>2, <1>3, <1>4 DEF CallersSound
<1>15. AllocatorsSound'
  BY <1>1, <1>2, <1>3, <1>4 DEF AllocatorsSound
<1>16. AllocatorsApart'
  BY <1>1, <1>2, <1>3, <1>4 DEF AllocatorsApart
<1>17. ImportersSound'
  BY <1>1, <1>2, <1>3, <1>4 DEF ImportersSound
<1>18. FreersSound'
  BY <1>1, <1>2, <1>3, <1>4 DEF FreersSound
<1>19. NobodyForgotten'
  BY <1>1, <1>2, <1>3, <1>4 DEF NobodyForgotten
<1>20. FindersSound'
  BY <1>1, <1>2, <1>3, <1>4 DEF FindersSound
<1>21. MappersSound'
  <2>1. \A u \in Threads, p \in Bos : Holds(u, p)' <=> Holds(u, p)
    BY <1>1 DEF Holds
  <2> QED
    BY <1>1, <1>2, <1>3, <1>4, <1>6, <2>1 DEF MappersSound, Mapping
<1>22. PointersSound'
  BY <1>1, <1>2, <1>3, <1>4 DEF PointersSound
<1>23. HandlesOwned'
  BY <1>1, <1>2, <1>3, <1>4 DEF HandlesOwned
<1> QED
  BY <1>8, <1>9, <1>10, <1>11, <1>12, <1>13, <1>14, <1>15, <1>16, <1>17, <1>18, <1>19,
     <1>20, <1>21, <1>22, <1>23

(* The kernel maps the buffer: its first mapping is counted. *)
LEMMA MapKernelPreserves ==
  ASSUME BoInvariant, NEW t \in Threads, MapKernel(t)
  PROVE  BoInvariant'
<1> USE BoManagerAssumption DEF BoInvariant
<1> DEFINE o == call[t].bo
<1>0. PICK a \in Bases, b \in Buffers :
         /\ mapping[a] = NoBuffer
         /\ handleOf[b] = handle[call[t].bo]
         /\ mapping' = [mapping EXCEPT ![a] = b]
         /\ cpu_ptr' = [cpu_ptr EXCEPT ![call[t].bo] = a]
  BY DEF MapKernel
<1>1. /\ pc[t] = "map" /\ pc' = [pc EXCEPT ![t] = "idle"]
      /\ call' = [call EXCEPT ![t] = NoCall]
      /\ mapping[a] = NoBuffer /\ handleOf[b] = handle[o]
      /\ mapping' = [mapping EXCEPT ![a] = b]
      /\ cpu_ptr' = [cpu_ptr EXCEPT ![o] = a]
      /\ cpu_map_count' = [cpu_map_count EXCEPT ![o] = 1]
      /\ cpu' = [cpu EXCEPT ![t] = o]
      /\ cpuLock' = [cpuLock EXCEPT ![o] = NoThread]
      /\ UNCHANGED <<handleOf, fds, table, tableLock, refcount, handle, ref, origin, leaked>>
  BY <1>0 DEF MapKernel, Goto, Return, kernelVars, boVars, mapVars
<1>2. /\ pc'[t] = "idle"
      /\ \A u \in Threads \ {t} : pc'[u] = pc[u] /\ call'[u] = call[u]
  BY <1>0, <1>1 DEF TypeOK, NoCall
<1>3. \A u \in Threads \ {t} :
         /\ Allocating(u)' <=> Allocating(u)
         /\ Importing(u)' <=> Importing(u)
         /\ Freeing(u)' <=> Freeing(u)
         /\ Finding(u)' <=> Finding(u)
         /\ Mapping(u)' <=> Mapping(u)
  BY <1>2, OthersStay
<1>4. /\ ~Allocating(t)' /\ ~Importing(t)' /\ ~Freeing(t)' /\ ~Finding(t)' /\ ~Mapping(t)'
      /\ ~Allocating(t) /\ ~Importing(t) /\ ~Freeing(t) /\ ~Finding(t) /\ Mapping(t)
  BY <1>1, <1>2 DEF Allocating, Importing, Freeing, Finding, Mapping
<1>5. /\ o \in Bos /\ Holds(t, o) /\ cpu[t] = NoBo /\ cpu_map_count[o] = 0
      /\ \A u \in Threads \ {t} : Mapping(u) => call[u].bo # o
  BY <1>4 DEF MappersSound, CpuLocksHeld
<1> HIDE DEF o
<1>6. refcount[o] > 0 /\ handle[o] # NoHandle
  <2>1. PICK s \in Slots : ref[<<t, s>>] = o
    BY <1>5 DEF Holds
  <2>2. <<t, s>> \in Vars
    BY DEF Vars
  <2> QED
    BY <1>5, <2>1, <2>2, NamedCounted, BoManagerAssumption DEF BosSound
<1>7. b = origin[o]
  BY <1>1, <1>5, <1>6 DEF BosSound, HandlesDistinct
<1>8. a # NULL /\ \A p \in Bos : cpu_map_count[p] > 0 => cpu_ptr[p] # a
  <2>1. a # NULL
    BY BoManagerAssumption DEF NULL
  <2>2. ASSUME NEW p \in Bos, cpu_map_count[p] > 0 PROVE cpu_ptr[p] # a
    <3>1. handle[p] # NoHandle
      BY <2>2 DEF PointersSound
    <3>2. mapping[cpu_ptr[p]] = origin[p] /\ origin[p] \in Buffers
      BY <2>2, <3>1 DEF MappingsAccounted, BosSound
    <3> QED
      BY <1>1, <3>2, BoManagerAssumption
  <2> QED
    BY <2>1, <2>2
<1>9. /\ mapping' \in [Bases -> Buffers \cup {NoBuffer}]
      /\ cpu_ptr' \in [Bos -> Bases \cup {NULL}]
      /\ cpu' \in [Threads -> Bos \cup {NoBo}]
      /\ mapping'[a] = b /\ \A c \in Bases \ {a} : mapping'[c] = mapping[c]
      /\ cpu_ptr'[o] = a /\ cpu_map_count'[o] = 1
      /\ \A p \in Bos \ {o} : cpu_ptr'[p] = cpu_ptr[p] /\ cpu_map_count'[p] = cpu_map_count[p]
      /\ cpu'[t] = o /\ \A u \in Threads \ {t} : cpu'[u] = cpu[u]
  BY <1>1, <1>5 DEF TypeOK
<1>10. /\ cpuLock' \in [Bos -> Threads \cup {NoThread}]
       /\ cpuLock'[o] = NoThread /\ \A p \in Bos \ {o} : cpuLock'[p] = cpuLock[p]
  BY <1>1, <1>5 DEF TypeOK
<1>11. /\ Count(Threads, cpu', o) = Count(Threads, cpu, o) + 1
       /\ \A p : p # o /\ p # NoBo => Count(Threads, cpu', p) = Count(Threads, cpu, p)
  <2>1. cpu'[t] # cpu[t]
    BY <1>5, <1>9, BoManagerAssumption
  <2> QED
    BY <1>5, <1>9, <2>1, CpuChange
<1>12. \A p \in Bos : refcount[p] > 0 => cpu_map_count'[p] = Count(Threads, cpu', p)
  <2>1. ASSUME NEW p \in Bos, refcount[p] > 0
        PROVE  cpu_map_count'[p] = Count(Threads, cpu', p)
    <3>1. cpu_map_count[p] = Count(Threads, cpu, p)
      BY <2>1 DEF MappingsAccounted, Count
    <3>2. CASE p = o
      BY <1>5, <1>9, <1>11, <3>1, <3>2
    <3>3. CASE p # o
      BY <1>9, <1>11, BoManagerAssumption, <3>1, <3>3
    <3> QED
      BY <3>2, <3>3
  <2> QED
    BY <2>1
<1>13. cpu_map_count' \in [Bos -> 0 .. Cardinality(Threads)]
  <2>1. cpu_map_count'[o] \in 0 .. Cardinality(Threads)
    BY <1>5, <1>6, <1>12, BoundsAreNumbers, CountType
  <2> QED
    BY <1>1, <1>9, <2>1 DEF TypeOK
<1>14. TypeOK'
  BY <1>0, <1>1, <1>9, <1>10, <1>13 DEF TypeOK, CallType, NoCall, Labels
<1>15. RefsCounted'
  BY <1>1 DEF RefsCounted
<1>16. HandlesDistinct' /\ BosSound' /\ TableSound'
  BY <1>1 DEF HandlesDistinct, BosSound, TableSound
<1>17. TableLockHeld'
  BY <1>1, <1>2, <1>3, <1>4 DEF TableLockHeld
<1>18. CpuLocksHeld'
  BY <1>1, <1>2, <1>3, <1>4, <1>5, <1>10, BoManagerAssumption DEF CpuLocksHeld, o
<1>19. CallersSound'
  BY <1>1, <1>2, <1>3, <1>4 DEF CallersSound
<1>20. AllocatorsSound'
  BY <1>1, <1>2, <1>3, <1>4 DEF AllocatorsSound
<1>21. AllocatorsApart'
  BY <1>1, <1>2, <1>3, <1>4 DEF AllocatorsApart
<1>22. ImportersSound'
  BY <1>1, <1>2, <1>3, <1>4 DEF ImportersSound
<1>23. FreersSound'
  BY <1>1, <1>2, <1>3, <1>4, <1>6, <1>9 DEF FreersSound, Freeing
<1>24. NobodyForgotten'
  BY <1>1, <1>2, <1>3, <1>4 DEF NobodyForgotten
<1>25. FindersSound'
  BY <1>1, <1>2, <1>3, <1>4 DEF FindersSound
<1>26. MappersSound'
  <2>1. \A u \in Threads, p \in Bos : Holds(u, p)' <=> Holds(u, p)
    BY <1>1 DEF Holds
  <2> QED
    BY <1>1, <1>2, <1>3, <1>4, <1>5, <1>9, <2>1 DEF MappersSound, Mapping
<1>27. PointersSound'
  <2> SUFFICES ASSUME NEW p \in Bos
               PROVE  /\ cpu_ptr'[p] # NULL /\ cpu_map_count'[p] = 0 =>
                            \E u \in Threads : pc'[u] = "unmap" /\ call'[u].bo = p
                      /\ handle[p] = NoHandle => cpu_map_count'[p] = 0
    BY <1>1 DEF PointersSound
  <2>1. CASE p = o
    BY <1>6, <1>9, <2>1
  <2>2. CASE p # o
    <3>1. \A u \in Threads : pc[u] = "unmap" => u # t
      BY <1>1
    <3> QED
      BY <1>2, <1>9, <2>2, <3>1 DEF PointersSound
  <2> QED
    BY <2>1, <2>2
<1>28. KeepersSound'
  BY <1>1, <1>6, <1>9 DEF KeepersSound
<1>29. HandlesOwned'
  BY <1>1, <1>2, <1>3, <1>4 DEF HandlesOwned
<1>30. MappingsAccounted'
  <2>1. ASSUME NEW c \in Bases, mapping'[c] # NoBuffer
        PROVE  \E p \in Bos : cpu_ptr'[p] = c /\ origin[p] = mapping'[c] /\ cpu_map_count'[p] > 0
    <3>1. CASE c = a
      BY <1>5, <1>7, <1>9, <3>1
    <3>2. CASE c # a
      <4>1. PICK p \in Bos : cpu_ptr[p] = c /\ origin[p] = mapping[c] /\ cpu_map_count[p] > 0
        BY <1>9, <2>1, <3>2 DEF MappingsAccounted
      <4>2. p # o
        BY <1>5, <4>1
      <4> QED
        BY <1>9, <3>2, <4>1, <4>2
    <3> QED
      BY <3>1, <3>2
  <2>2. ASSUME NEW p \in Bos, cpu_map_count'[p] > 0
        PROVE  cpu_ptr'[p] # NULL /\ mapping'[cpu_ptr'[p]] = origin[p]
    <3>1. CASE p = o
      BY <1>7, <1>8, <1>9, <3>1
    <3>2. CASE p # o
      <4>1. cpu_map_count[p] > 0 /\ cpu_ptr'[p] = cpu_ptr[p]
        BY <1>9, <2>2, <3>2
      <4>2. cpu_ptr[p] # NULL /\ mapping[cpu_ptr[p]] = origin[p] /\ cpu_ptr[p] # a
        BY <1>8, <4>1 DEF MappingsAccounted
      <4>3. cpu_ptr[p] \in Bases \ {a}
        BY <4>2 DEF TypeOK
      <4>4. mapping'[cpu_ptr[p]] = mapping[cpu_ptr[p]]
        BY <1>9, <4>3
      <4> QED
        BY <4>1, <4>2, <4>4
    <3> QED
      BY <3>1, <3>2
  <2> QED
    BY <1>1, <1>12, <2>1, <2>2 DEF MappingsAccounted, Count
<1> QED
  BY <1>14, <1>15, <1>16, <1>17, <1>18, <1>19, <1>20, <1>21, <1>22, <1>23, <1>24, <1>25,
     <1>26, <1>27, <1>28, <1>29, <1>30

(* The kernel refuses: nothing is mapped. *)
LEMMA MapFailsPreserves ==
  ASSUME BoInvariant, NEW t \in Threads, MapFails(t)
  PROVE  BoInvariant'
<1> USE BoManagerAssumption DEF BoInvariant
<1> DEFINE o == call[t].bo
<1>1. /\ pc[t] = "map" /\ pc' = [pc EXCEPT ![t] = "idle"]
      /\ call' = [call EXCEPT ![t] = NoCall]
      /\ cpuLock' = [cpuLock EXCEPT ![o] = NoThread]
      /\ UNCHANGED <<handleOf, fds, mapping, table, tableLock, refcount, handle, cpu_ptr, cpu_map_count, ref, cpu, origin, leaked>>
  BY DEF MapFails, Goto, Return, kernelVars, boVars, mapVars
<1>2. /\ pc'[t] = "idle"
      /\ \A u \in Threads \ {t} : pc'[u] = pc[u] /\ call'[u] = call[u]
  BY <1>1 DEF TypeOK, NoCall
<1>3. \A u \in Threads \ {t} :
         /\ Allocating(u)' <=> Allocating(u)
         /\ Importing(u)' <=> Importing(u)
         /\ Freeing(u)' <=> Freeing(u)
         /\ Finding(u)' <=> Finding(u)
         /\ Mapping(u)' <=> Mapping(u)
  BY <1>2, OthersStay
<1>4. /\ ~Allocating(t)' /\ ~Importing(t)' /\ ~Freeing(t)' /\ ~Finding(t)' /\ ~Mapping(t)'
      /\ ~Allocating(t) /\ ~Importing(t) /\ ~Freeing(t) /\ ~Finding(t) /\ Mapping(t)
  BY <1>1, <1>2 DEF Allocating, Importing, Freeing, Finding, Mapping
<1>5. /\ o \in Bos /\ Holds(t, o) /\ cpu[t] = NoBo /\ cpu_map_count[o] = 0
      /\ \A u \in Threads \ {t} : Mapping(u) => call[u].bo # o
  BY <1>4 DEF MappersSound, CpuLocksHeld
<1>6. cpuLock'[o] = NoThread /\ \A p \in Bos \ {o} : cpuLock'[p] = cpuLock[p]
  BY <1>1, <1>5 DEF TypeOK
<1>7. TypeOK'
  BY <1>1, <1>5 DEF TypeOK, CallType, NoCall, Labels
<1>8. MappingsAccounted'
  BY <1>1, MappingsStay
<1>9. RefsCounted' /\ KeepersSound'
  BY <1>1 DEF RefsCounted, KeepersSound
<1>10. HandlesDistinct' /\ BosSound' /\ TableSound'
  BY <1>1 DEF HandlesDistinct, BosSound, TableSound
<1>11. TableLockHeld'
  BY <1>1, <1>2, <1>3, <1>4 DEF TableLockHeld
<1>12. CpuLocksHeld'
  BY <1>1, <1>2, <1>3, <1>4, <1>5, <1>6, BoManagerAssumption DEF CpuLocksHeld
<1>13. CallersSound'
  BY <1>1, <1>2, <1>3, <1>4 DEF CallersSound
<1>14. AllocatorsSound'
  BY <1>1, <1>2, <1>3, <1>4 DEF AllocatorsSound
<1>15. AllocatorsApart'
  BY <1>1, <1>2, <1>3, <1>4 DEF AllocatorsApart
<1>16. ImportersSound'
  BY <1>1, <1>2, <1>3, <1>4 DEF ImportersSound
<1>17. FreersSound'
  BY <1>1, <1>2, <1>3, <1>4 DEF FreersSound
<1>18. NobodyForgotten'
  BY <1>1, <1>2, <1>3, <1>4 DEF NobodyForgotten
<1>19. FindersSound'
  BY <1>1, <1>2, <1>3, <1>4 DEF FindersSound
<1>20. \A u \in Threads, p \in Bos : Holds(u, p)' <=> Holds(u, p)
  BY <1>1 DEF Holds
<1>21. MappersSound'
  BY <1>1, <1>2, <1>3, <1>4, <1>20 DEF MappersSound
<1>22. PointersSound'
  BY <1>1, <1>2, <1>3, <1>4 DEF PointersSound
<1>23. HandlesOwned'
  BY <1>1, <1>2, <1>3, <1>4 DEF HandlesOwned
<1> QED
  BY <1>7, <1>8, <1>9, <1>10, <1>11, <1>12, <1>13, <1>14, <1>15, <1>16, <1>17, <1>18,
     <1>19, <1>21, <1>22, <1>23

(* A bo mapped more than once is counted once less. *)
LEMMA UnmapSharedPreserves ==
  ASSUME BoInvariant, NEW t \in Threads, NEW o \in Bos, UnmapShared(t, o)
  PROVE  BoInvariant'
<1> USE BoManagerAssumption DEF BoInvariant
<1>1. /\ pc[t] = "idle" /\ Holds(t, o) /\ cpu[t] = o
      /\ cpuLock[o] = NoThread /\ cpu_map_count[o] > 1
      /\ cpu_map_count' = [cpu_map_count EXCEPT ![o] = @ - 1]
      /\ cpu' = [cpu EXCEPT ![t] = NoBo]
      /\ UNCHANGED <<handleOf, fds, mapping, table, tableLock, refcount, handle, cpu_ptr, cpuLock, ref, pc, call, origin, leaked>>
  BY DEF UnmapShared, kernelVars, boVars, mapVars
<1>5. \A u \in Threads : Mapping(u) => call[u].bo # o
  BY <1>1, BoManagerAssumption DEF CpuLocksHeld
<1>6. refcount[o] > 0 /\ handle[o] # NoHandle
  <2>1. PICK s \in Slots : ref[<<t, s>>] = o
    BY <1>1 DEF Holds
  <2>2. <<t, s>> \in Vars
    BY DEF Vars
  <2> QED
    BY <2>1, <2>2, NamedCounted, BoManagerAssumption DEF BosSound
<1>7. cpu_map_count[o] \in Nat
  BY BoundsAreNumbers DEF TypeOK
<1>8. /\ cpu_map_count'[o] = cpu_map_count[o] - 1
      /\ \A p \in Bos \ {o} : cpu_map_count'[p] = cpu_map_count[p]
      /\ cpu'[t] = NoBo /\ \A u \in Threads \ {t} : cpu'[u] = cpu[u]
      /\ cpu' \in [Threads -> Bos \cup {NoBo}]
  BY <1>1, <1>7 DEF TypeOK
<1>9. /\ Count(Threads, cpu', o) = Count(Threads, cpu, o) - 1
      /\ \A p : p # o /\ p # NoBo => Count(Threads, cpu', p) = Count(Threads, cpu, p)
  <2>1. cpu'[t] # cpu[t]
    BY <1>1, <1>8, BoManagerAssumption
  <2> QED
    BY <1>1, <1>8, <2>1, CpuChange
<1>10. \A p \in Bos : refcount[p] > 0 => cpu_map_count'[p] = Count(Threads, cpu', p)
  <2>1. ASSUME NEW p \in Bos, refcount[p] > 0
        PROVE  cpu_map_count'[p] = Count(Threads, cpu', p)
    <3>1. cpu_map_count[p] = Count(Threads, cpu, p)
      BY <2>1 DEF MappingsAccounted, Count
    <3>2. CASE p = o
      BY <1>8, <1>9, <3>1, <3>2
    <3>3. CASE p # o
      BY <1>8, <1>9, BoManagerAssumption, <3>1, <3>3
    <3> QED
      BY <3>2, <3>3
  <2> QED
    BY <2>1
<1>11. cpu_map_count' \in [Bos -> 0 .. Cardinality(Threads)]
  <2>1. cpu_map_count'[o] \in 0 .. Cardinality(Threads)
    BY <1>6, <1>10, BoundsAreNumbers, CountType
  <2> QED
    BY <1>1, <1>8, <2>1 DEF TypeOK
<1>12. TypeOK'
  BY <1>1, <1>8, <1>11 DEF TypeOK, CallType, NoCall, Labels
<1>13. RefsCounted'
  BY <1>1 DEF RefsCounted
<1>14. HandlesDistinct' /\ BosSound' /\ TableSound'
  BY <1>1 DEF HandlesDistinct, BosSound, TableSound
<1>15. TableLockHeld' /\ CpuLocksHeld' /\ CallersSound'
  BY <1>1 DEF TableLockHeld, CpuLocksHeld, CallersSound, Allocating, Importing, Freeing,
     Finding, Mapping
<1>16. AllocatorsSound' /\ AllocatorsApart' /\ ImportersSound'
  BY <1>1 DEF AllocatorsSound, AllocatorsApart, ImportersSound, Allocating, Importing,
     Freeing, Finding, Mapping
<1>17. NobodyForgotten' /\ FindersSound'
  BY <1>1 DEF NobodyForgotten, FindersSound, Allocating, Importing, Freeing, Finding,
     Mapping
<1>18. HandlesOwned'
  BY <1>1 DEF HandlesOwned, Allocating, Importing, Freeing, Finding, Mapping
<1>19. FreersSound'
  BY <1>1, <1>6, <1>8 DEF FreersSound, Freeing
<1>20. MappersSound'
  <2>1. \A u \in Threads, p \in Bos : Holds(u, p)' <=> Holds(u, p)
    BY <1>1 DEF Holds
  <2>2. \A u \in Threads : Mapping(u) => u # t
    BY <1>1 DEF Mapping
  <2> QED
    BY <1>1, <1>5, <1>8, <2>1, <2>2 DEF MappersSound, Mapping
<1>21. PointersSound'
  BY <1>1, <1>6, <1>7, <1>8 DEF PointersSound
<1>22. KeepersSound'
  BY <1>1, <1>8 DEF KeepersSound
<1>23. MappingsAccounted'
  <2>1. \A p \in Bos : cpu_map_count'[p] > 0 <=> cpu_map_count[p] > 0
    BY <1>1, <1>7, <1>8
  <2> QED
    BY <1>1, <1>10, <2>1 DEF MappingsAccounted, Count
<1> QED
  BY <1>12, <1>13, <1>14, <1>15, <1>16, <1>17, <1>18, <1>19, <1>20, <1>21, <1>22, <1>23

(* The last mapping of a bo goes; its address stays until the next step. *)
LEMMA UnmapLastPreserves ==
  ASSUME BoInvariant, NEW t \in Threads, NEW o \in Bos, UnmapLast(t, o)
  PROVE  BoInvariant'
<1> USE BoManagerAssumption DEF BoInvariant
<1>1. /\ pc[t] = "idle" /\ pc' = [pc EXCEPT ![t] = "unmap"]
      /\ Holds(t, o) /\ cpu[t] = o
      /\ cpuLock[o] = NoThread /\ cpu_map_count[o] = 1
      /\ cpuLock' = [cpuLock EXCEPT ![o] = t]
      /\ cpu_map_count' = [cpu_map_count EXCEPT ![o] = 0]
      /\ mapping' = [mapping EXCEPT ![cpu_ptr[o]] = NoBuffer]
      /\ cpu' = [cpu EXCEPT ![t] = NoBo]
      /\ call' = [call EXCEPT ![t] = [NoCall EXCEPT !.bo = o]]
      /\ UNCHANGED <<handleOf, fds, table, tableLock, refcount, handle, cpu_ptr, ref, origin, leaked>>
  BY DEF UnmapLast, Goto, kernelVars, boVars, mapVars
<1>2. /\ pc'[t] = "unmap" /\ call'[t].bo = o
      /\ \A u \in Threads \ {t} : pc'[u] = pc[u] /\ call'[u] = call[u]
  BY <1>1 DEF TypeOK, NoCall
<1>3. \A u \in Threads \ {t} :
         /\ Allocating(u)' <=> Allocating(u)
         /\ Importing(u)' <=> Importing(u)
         /\ Freeing(u)' <=> Freeing(u)
         /\ Finding(u)' <=> Finding(u)
         /\ Mapping(u)' <=> Mapping(u)
  BY <1>2, OthersStay
<1>4. /\ ~Allocating(t)' /\ ~Importing(t)' /\ ~Freeing(t)' /\ ~Finding(t)' /\ Mapping(t)'
      /\ ~Allocating(t) /\ ~Importing(t) /\ ~Freeing(t) /\ ~Finding(t) /\ ~Mapping(t)
  BY <1>1, <1>2 DEF Allocating, Importing, Freeing, Finding, Mapping
<1>5. \A u \in Threads : Mapping(u) => call[u].bo # o
  BY <1>1, BoManagerAssumption DEF CpuLocksHeld
<1>6. refcount[o] > 0 /\ handle[o] # NoHandle
  <2>1. PICK s \in Slots : ref[<<t, s>>] = o
    BY <1>1 DEF Holds
  <2>2. <<t, s>> \in Vars
    BY DEF Vars
  <2> QED
    BY <2>1, <2>2, NamedCounted, BoManagerAssumption DEF BosSound
<1>7. /\ mapping' \in [Bases -> Buffers \cup {NoBuffer}]
      /\ cpu_map_count' \in [Bos -> 0 .. Cardinality(Threads)]
      /\ cpu_map_count'[o] = 0
      /\ \A p \in Bos \ {o} : cpu_map_count'[p] = cpu_map_count[p]
      /\ \A a \in Bases : mapping'[a] # NoBuffer =>
            \E p \in Bos :
               cpu_ptr'[p] = a /\ origin'[p] = mapping'[a] /\ cpu_map_count'[p] > 0
      /\ \A p \in Bos : cpu_map_count'[p] > 0 =>
            cpu_ptr'[p] # NULL /\ mapping'[cpu_ptr'[p]] = origin'[p]
  <2>1. /\ cpu_map_count[o] > 0
        /\ \A p \in Bos \ {o} : cpu_ptr'[p] = cpu_ptr[p]
        /\ UNCHANGED origin
    BY <1>1
  <2> QED
    BY <1>1, <2>1, MappingRemoved
<1>8. /\ cpu'[t] = NoBo /\ \A u \in Threads \ {t} : cpu'[u] = cpu[u]
      /\ cpu' \in [Threads -> Bos \cup {NoBo}]
      /\ cpuLock' \in [Bos -> Threads \cup {NoThread}]
      /\ cpuLock'[o] = t /\ \A p \in Bos \ {o} : cpuLock'[p] = cpuLock[p]
  BY <1>1 DEF TypeOK
<1>9. /\ Count(Threads, cpu', o) = Count(Threads, cpu, o) - 1
      /\ \A p : p # o /\ p # NoBo => Count(Threads, cpu', p) = Count(Threads, cpu, p)
  <2>1. cpu'[t] # cpu[t]
    BY <1>1, <1>8, BoManagerAssumption
  <2> QED
    BY <1>1, <1>8, <2>1, CpuChange
<1>10. \A p \in Bos : refcount[p] > 0 => cpu_map_count'[p] = Count(Threads, cpu', p)
  <2>1. ASSUME NEW p \in Bos, refcount[p] > 0
        PROVE  cpu_map_count'[p] = Count(Threads, cpu', p)
    <3>1. cpu_map_count[p] = Count(Threads, cpu, p)
      BY <2>1 DEF MappingsAccounted, Count
    <3>2. CASE p = o
      BY <1>1, <1>7, <1>9, <3>1, <3>2
    <3>3. CASE p # o
      BY <1>7, <1>9, BoManagerAssumption, <3>1, <3>3
    <3> QED
      BY <3>2, <3>3
  <2> QED
    BY <2>1
<1>11. TypeOK'
  BY <1>1, <1>7, <1>8 DEF TypeOK, CallType, NoCall, Labels
<1>12. RefsCounted'
  BY <1>1 DEF RefsCounted
<1>13. HandlesDistinct' /\ BosSound' /\ TableSound'
  BY <1>1 DEF HandlesDistinct, BosSound, TableSound
<1>14. TableLockHeld'
  BY <1>1, <1>2, <1>3, <1>4 DEF TableLockHeld
<1>15. CpuLocksHeld'
  BY <1>1, <1>2, <1>3, <1>4, <1>5, <1>8, BoManagerAssumption DEF CpuLocksHeld
<1>16. CallersSound'
  BY <1>1, <1>2, <1>3, <1>4 DEF CallersSound
<1>17. AllocatorsSound'
  BY <1>1, <1>2, <1>3, <1>4 DEF AllocatorsSound
<1>18. AllocatorsApart'
  BY <1>1, <1>2, <1>3, <1>4 DEF AllocatorsApart
<1>19. ImportersSound'
  BY <1>1, <1>2, <1>3, <1>4 DEF ImportersSound
<1>20. FreersSound'
  BY <1>1, <1>2, <1>3, <1>4, <1>6, <1>7 DEF FreersSound, Freeing
<1>21. NobodyForgotten'
  BY <1>1, <1>2, <1>3, <1>4 DEF NobodyForgotten
<1>22. FindersSound'
  BY <1>1, <1>2, <1>3, <1>4 DEF FindersSound
<1>23. MappersSound'
  <2>1. \A u \in Threads, p \in Bos : Holds(u, p)' <=> Holds(u, p)
    BY <1>1 DEF Holds
  <2> QED
    BY <1>1, <1>2, <1>3, <1>4, <1>5, <1>7, <1>8, <2>1 DEF MappersSound, Mapping
<1>24. PointersSound'
  <2> SUFFICES ASSUME NEW p \in Bos
               PROVE  /\ cpu_ptr[p] # NULL /\ cpu_map_count'[p] = 0 =>
                            \E u \in Threads : pc'[u] = "unmap" /\ call'[u].bo = p
                      /\ handle[p] = NoHandle => cpu_map_count'[p] = 0
    BY <1>1 DEF PointersSound
  <2>1. CASE p = o
    BY <1>2, <1>6, <2>1
  <2>2. CASE p # o
    <3>1. \A u \in Threads : pc[u] = "unmap" => u # t
      BY <1>1
    <3> QED
      BY <1>2, <1>7, <2>2, <3>1 DEF PointersSound
  <2> QED
    BY <2>1, <2>2
<1>25. KeepersSound'
  BY <1>1, <1>8 DEF KeepersSound
<1>26. HandlesOwned'
  BY <1>1, <1>2, <1>3, <1>4 DEF HandlesOwned
<1>27. MappingsAccounted'
  <2>1. \A p \in Bos : refcount'[p] > 0 => cpu_map_count'[p] = Count(Threads, cpu', p)
    BY <1>1, <1>10
  <2> QED
    BY <1>7, <2>1 DEF MappingsAccounted, Count
<1> QED
  BY <1>11, <1>12, <1>13, <1>14, <1>15, <1>16, <1>17, <1>18, <1>19, <1>20, <1>21, <1>22,
     <1>23, <1>24, <1>25, <1>26, <1>27

(* The address of a mapping that is gone is forgotten. *)
LEMMA UnmapClearPreserves ==
  ASSUME BoInvariant, NEW t \in Threads, UnmapClear(t)
  PROVE  BoInvariant'
<1> USE BoManagerAssumption DEF BoInvariant
<1> DEFINE o == call[t].bo
<1>1. /\ pc[t] = "unmap" /\ pc' = [pc EXCEPT ![t] = "idle"]
      /\ call' = [call EXCEPT ![t] = NoCall]
      /\ cpu_ptr' = [cpu_ptr EXCEPT ![o] = NULL]
      /\ cpuLock' = [cpuLock EXCEPT ![o] = NoThread]
      /\ UNCHANGED <<handleOf, fds, mapping, table, tableLock, refcount, handle, cpu_map_count, ref, cpu, origin, leaked>>
  BY DEF UnmapClear, Goto, Return, kernelVars, boVars, mapVars
<1>2. /\ pc'[t] = "idle"
      /\ \A u \in Threads \ {t} : pc'[u] = pc[u] /\ call'[u] = call[u]
  BY <1>1 DEF TypeOK, NoCall
<1>3. \A u \in Threads \ {t} :
         /\ Allocating(u)' <=> Allocating(u)
         /\ Importing(u)' <=> Importing(u)
         /\ Freeing(u)' <=> Freeing(u)
         /\ Finding(u)' <=> Finding(u)
         /\ Mapping(u)' <=> Mapping(u)
  BY <1>2, OthersStay
<1>4. /\ ~Allocating(t)' /\ ~Importing(t)' /\ ~Freeing(t)' /\ ~Finding(t)' /\ ~Mapping(t)'
      /\ ~Allocating(t) /\ ~Importing(t) /\ ~Freeing(t) /\ ~Finding(t) /\ Mapping(t)
  BY <1>1, <1>2 DEF Allocating, Importing, Freeing, Finding, Mapping
<1>5. /\ o \in Bos /\ Holds(t, o) /\ cpu[t] = NoBo /\ cpu_map_count[o] = 0
      /\ \A u \in Threads \ {t} : Mapping(u) => call[u].bo # o
  BY <1>4 DEF MappersSound, CpuLocksHeld
<1>6. /\ cpuLock'[o] = NoThread /\ \A p \in Bos \ {o} : cpuLock'[p] = cpuLock[p]
      /\ cpu_ptr' \in [Bos -> Bases \cup {NULL}]
      /\ cpu_ptr'[o] = NULL /\ \A p \in Bos \ {o} : cpu_ptr'[p] = cpu_ptr[p]
  BY <1>1, <1>5 DEF TypeOK
<1>7. TypeOK'
  BY <1>1, <1>5, <1>6 DEF TypeOK, CallType, NoCall, Labels
<1>8. RefsCounted' /\ KeepersSound'
  BY <1>1 DEF RefsCounted, KeepersSound
<1>9. HandlesDistinct' /\ BosSound' /\ TableSound'
  BY <1>1 DEF HandlesDistinct, BosSound, TableSound
<1>10. TableLockHeld'
  BY <1>1, <1>2, <1>3, <1>4 DEF TableLockHeld
<1>11. CpuLocksHeld'
  BY <1>1, <1>2, <1>3, <1>4, <1>5, <1>6, BoManagerAssumption DEF CpuLocksHeld
<1>12. CallersSound'
  BY <1>1, <1>2, <1>3, <1>4 DEF CallersSound
<1>13. AllocatorsSound'
  BY <1>1, <1>2, <1>3, <1>4 DEF AllocatorsSound
<1>14. AllocatorsApart'
  BY <1>1, <1>2, <1>3, <1>4 DEF AllocatorsApart
<1>15. ImportersSound'
  BY <1>1, <1>2, <1>3, <1>4 DEF ImportersSound
<1>16. FreersSound'
  BY <1>1, <1>2, <1>3, <1>4, <1>6 DEF FreersSound, Freeing
<1>17. NobodyForgotten'
  BY <1>1, <1>2, <1>3, <1>4 DEF NobodyForgotten
<1>18. FindersSound'
  BY <1>1, <1>2, <1>3, <1>4 DEF FindersSound
<1>19. MappersSound'
  <2>1. \A u \in Threads, p \in Bos : Holds(u, p)' <=> Holds(u, p)
    BY <1>1 DEF Holds
  <2> QED
    BY <1>1, <1>2, <1>3, <1>4, <1>6, <2>1 DEF MappersSound, Mapping
<1>20. PointersSound'
  <2> SUFFICES ASSUME NEW p \in Bos, cpu_ptr'[p] # NULL, cpu_map_count[p] = 0
               PROVE  \E u \in Threads : pc'[u] = "unmap" /\ call'[u].bo = p
    BY <1>1 DEF PointersSound
  <2>1. p # o /\ cpu_ptr[p] # NULL
    BY <1>6
  <2>2. PICK u \in Threads : pc[u] = "unmap" /\ call[u].bo = p
    BY <2>1 DEF PointersSound
  <2> QED
    BY <1>2, <2>1, <2>2
<1>21. HandlesOwned'
  BY <1>1, <1>2, <1>3, <1>4 DEF HandlesOwned
<1>22. MappingsAccounted'
  <2>1. \A p \in Bos : cpu_map_count[p] > 0 => cpu_ptr'[p] = cpu_ptr[p]
    BY <1>5, <1>6
  <2> QED
    BY <1>1, <2>1 DEF MappingsAccounted
<1> QED
  BY <1>7, <1>8, <1>9, <1>10, <1>11, <1>12, <1>13, <1>14, <1>15, <1>16, <1>17, <1>18,
     <1>19, <1>20, <1>21, <1>22

(* The loop over the table starts, under its mutex. *)
LEMMA FindStartPreserves ==
  ASSUME BoInvariant, NEW t \in Threads, NEW v \in Vars, NEW a \in Pointers, FindStart(t, v, a)
  PROVE  BoInvariant'
<1> USE BoManagerAssumption DEF BoInvariant
<1>1. /\ pc[t] = "idle" /\ pc' = [pc EXCEPT ![t] = "find"]
      /\ v[1] = t /\ ref[v] = NoBo
      /\ tableLock = NoThread /\ tableLock' = t
      /\ call' = [call EXCEPT ![t] = [NoCall EXCEPT !.var = v, !.cpu = a]]
      /\ UNCHANGED <<handleOf, fds, mapping, table, refcount, handle, cpu_ptr, cpu_map_count, cpuLock, ref, cpu, origin, leaked>>
  BY DEF FindStart, FreeVar, Lock, Goto, kernelVars, boVars, mapVars
<1>2. /\ pc'[t] = "find" /\ call'[t].var = v
      /\ \A u \in Threads \ {t} : pc'[u] = pc[u] /\ call'[u] = call[u]
  BY <1>1 DEF TypeOK, NoCall
<1>3. \A u \in Threads \ {t} :
         /\ Allocating(u)' <=> Allocating(u)
         /\ Importing(u)' <=> Importing(u)
         /\ Freeing(u)' <=> Freeing(u)
         /\ Finding(u)' <=> Finding(u)
         /\ Mapping(u)' <=> Mapping(u)
  BY <1>2, OthersStay
<1>4. /\ ~Allocating(t)' /\ ~Importing(t)' /\ ~Freeing(t)' /\ Finding(t)' /\ ~Mapping(t)'
      /\ ~Allocating(t) /\ ~Importing(t) /\ ~Freeing(t) /\ ~Finding(t) /\ ~Mapping(t)
  BY <1>1, <1>2 DEF Allocating, Importing, Freeing, Finding, Mapping
<1>5. \A u \in Threads : ~Importing(u) /\ ~Freeing(u) /\ ~Finding(u) /\ pc[u] # "found"
  BY <1>1, BoManagerAssumption DEF TableLockHeld
<1>6. TypeOK'
  BY <1>1 DEF TypeOK, CallType, NoCall, Labels
<1>7. MappingsAccounted'
  BY <1>1, MappingsStay
<1>8. RefsCounted' /\ KeepersSound'
  BY <1>1 DEF RefsCounted, KeepersSound
<1>9. HandlesDistinct' /\ BosSound' /\ TableSound'
  BY <1>1 DEF HandlesDistinct, BosSound, TableSound
<1>10. TableLockHeld'
  BY <1>1, <1>2, <1>3, <1>4, <1>5 DEF TableLockHeld
<1>11. CpuLocksHeld'
  BY <1>1, <1>2, <1>3, <1>4 DEF CpuLocksHeld
<1>12. CallersSound'
  BY <1>1, <1>2, <1>3, <1>4 DEF CallersSound
<1>13. AllocatorsSound'
  BY <1>1, <1>2, <1>3, <1>4 DEF AllocatorsSound
<1>14. AllocatorsApart'
  BY <1>1, <1>2, <1>3, <1>4 DEF AllocatorsApart
<1>15. ImportersSound'
  BY <1>1, <1>2, <1>3, <1>4 DEF ImportersSound
<1>16. FreersSound'
  BY <1>1, <1>2, <1>3, <1>4 DEF FreersSound
<1>17. NobodyForgotten'
  BY <1>1, <1>2, <1>3, <1>4 DEF NobodyForgotten
<1>18. FindersSound'
  BY <1>1, <1>2, <1>3, <1>4 DEF FindersSound
<1>19. \A u \in Threads, p \in Bos : Holds(u, p)' <=> Holds(u, p)
  BY <1>1 DEF Holds
<1>20. MappersSound'
  BY <1>1, <1>2, <1>3, <1>4, <1>19 DEF MappersSound
<1>21. PointersSound'
  BY <1>1, <1>2, <1>3, <1>4 DEF PointersSound
<1>22. HandlesOwned'
  BY <1>1, <1>2, <1>3, <1>4 DEF HandlesOwned
<1> QED
  BY <1>6, <1>7, <1>8, <1>9, <1>10, <1>11, <1>12, <1>13, <1>14, <1>15, <1>16, <1>17,
     <1>18, <1>20, <1>21, <1>22

(* The loop goes to the next bo of the table. *)
LEMMA FindLookPreserves ==
  ASSUME BoInvariant, NEW t \in Threads, FindLook(t)
  PROVE  BoInvariant'
<1> USE BoManagerAssumption DEF BoInvariant
<1>0. PICK i \in KeysAfter(call[t].handle) :
         /\ call' = [call EXCEPT ![t].handle = i, ![t].bo = table[i]]
         /\ IF cpu_ptr[table[i]] = NULL THEN UNCHANGED pc ELSE Goto(t, "find_above")
  BY DEF FindLook
<1>1. /\ pc[t] = "find"
      /\ \/ UNCHANGED pc
         \/ pc' = [pc EXCEPT ![t] = "find_above"]
      /\ UNCHANGED <<handleOf, fds, mapping, table, tableLock, refcount, handle, cpu_ptr, cpu_map_count, cpuLock, ref, cpu, origin, leaked>>
  BY <1>0 DEF FindLook, Goto, kernelVars, boVars, mapVars
<1>2. /\ pc'[t] \in {"find", "find_above"} /\ call'[t].var = call[t].var /\ call'[t].bo = table[i]
      /\ \A u \in Threads \ {t} : pc'[u] = pc[u] /\ call'[u] = call[u]
  BY <1>0, <1>1 DEF TypeOK, NoCall
<1>3. \A u \in Threads \ {t} :
         /\ Allocating(u)' <=> Allocating(u)
         /\ Importing(u)' <=> Importing(u)
         /\ Freeing(u)' <=> Freeing(u)
         /\ Finding(u)' <=> Finding(u)
         /\ Mapping(u)' <=> Mapping(u)
  BY <1>2, OthersStay
<1>4. /\ ~Allocating(t)' /\ ~Importing(t)' /\ ~Freeing(t)' /\ Finding(t)' /\ ~Mapping(t)'
      /\ ~Allocating(t) /\ ~Importing(t) /\ ~Freeing(t) /\ Finding(t) /\ ~Mapping(t)
  BY <1>1, <1>2 DEF Allocating, Importing, Freeing, Finding, Mapping
<1>5. i \in Handles /\ table[i] \in Bos /\ refcount[table[i]] > 0
  BY <1>0 DEF KeysAfter, TypeOK, TableSound
<1>6. TypeOK'
  <2>1. call'[t] \in CallType
    <3>1. call'[t] = [call[t] EXCEPT !.handle = i, !.bo = table[i]] /\ call[t] \in CallType
      BY <1>0 DEF TypeOK
    <3> QED
      BY <1>5, <3>1 DEF CallType
  <2>2. call' = [u \in Threads |-> call'[u]]
    BY <1>0 DEF TypeOK
  <2>3. call' \in [Threads -> CallType]
    BY <1>2, <2>1, <2>2 DEF TypeOK
  <2> QED
    BY <1>1, <2>3 DEF TypeOK, Labels
<1>7. MappingsAccounted'
  BY <1>1, MappingsStay
<1>8. RefsCounted' /\ KeepersSound'
  BY <1>1 DEF RefsCounted, KeepersSound
<1>9. HandlesDistinct' /\ BosSound' /\ TableSound'
  BY <1>1 DEF HandlesDistinct, BosSound, TableSound
<1>10. TableLockHeld'
  BY <1>1, <1>2, <1>3, <1>4 DEF TableLockHeld
<1>11. CpuLocksHeld'
  BY <1>1, <1>2, <1>3, <1>4 DEF CpuLocksHeld
<1>12. CallersSound'
  BY <1>1, <1>2, <1>3, <1>4 DEF CallersSound
<1>13. AllocatorsSound'
  BY <1>1, <1>2, <1>3, <1>4 DEF AllocatorsSound
<1>14. AllocatorsApart'
  BY <1>1, <1>2, <1>3, <1>4 DEF AllocatorsApart
<1>15. ImportersSound'
  BY <1>1, <1>2, <1>3, <1>4 DEF ImportersSound
<1>16. FreersSound'
  BY <1>1, <1>2, <1>3, <1>4 DEF FreersSound
<1>17. NobodyForgotten'
  BY <1>1, <1>2, <1>3, <1>4 DEF NobodyForgotten
<1>18. FindersSound'
  BY <1>1, <1>2, <1>3, <1>4, <1>5 DEF FindersSound
<1>19. \A u \in Threads, p \in Bos : Holds(u, p)' <=> Holds(u, p)
  BY <1>1 DEF Holds
<1>20. MappersSound'
  BY <1>1, <1>2, <1>3, <1>4, <1>19 DEF MappersSound
<1>21. PointersSound'
  BY <1>1, <1>2, <1>3, <1>4 DEF PointersSound
<1>22. HandlesOwned'
  BY <1>1, <1>2, <1>3, <1>4 DEF HandlesOwned
<1> QED
  BY <1>6, <1>7, <1>8, <1>9, <1>10, <1>11, <1>12, <1>13, <1>14, <1>15, <1>16, <1>17,
     <1>18, <1>20, <1>21, <1>22

(* The first comparison of the loop. *)
LEMMA FindAbovePreserves ==
  ASSUME BoInvariant, NEW t \in Threads, FindAbove(t)
  PROVE  BoInvariant'
<1> USE BoManagerAssumption DEF BoInvariant
<1>1. /\ pc[t] = "find_above"
      /\ pc' = [pc EXCEPT ![t] = IF call[t].cpu >= cpu_ptr[call[t].bo] THEN "find_below" ELSE "find"]
      /\ UNCHANGED <<handleOf, fds, mapping, table, tableLock, refcount, handle, cpu_ptr, cpu_map_count, cpuLock, ref, cpu, call, origin, leaked>>
  BY DEF FindAbove, Goto, kernelVars, boVars, mapVars
<1>2. /\ pc'[t] \in {"find", "find_below"} /\ call'[t] = call[t]
      /\ \A u \in Threads \ {t} : pc'[u] = pc[u] /\ call'[u] = call[u]
  BY <1>1 DEF TypeOK, NoCall
<1>3. \A u \in Threads \ {t} :
         /\ Allocating(u)' <=> Allocating(u)
         /\ Importing(u)' <=> Importing(u)
         /\ Freeing(u)' <=> Freeing(u)
         /\ Finding(u)' <=> Finding(u)
         /\ Mapping(u)' <=> Mapping(u)
  BY <1>2, OthersStay
<1>4. /\ ~Allocating(t)' /\ ~Importing(t)' /\ ~Freeing(t)' /\ Finding(t)' /\ ~Mapping(t)'
      /\ ~Allocating(t) /\ ~Importing(t) /\ ~Freeing(t) /\ Finding(t) /\ ~Mapping(t)
  BY <1>1, <1>2 DEF Allocating, Importing, Freeing, Finding, Mapping
<1>5. TypeOK'
  BY <1>1 DEF TypeOK, CallType, NoCall, Labels
<1>6. MappingsAccounted'
  BY <1>1, MappingsStay
<1>7. RefsCounted' /\ KeepersSound'
  BY <1>1 DEF RefsCounted, KeepersSound
<1>8. HandlesDistinct' /\ BosSound' /\ TableSound'
  BY <1>1 DEF HandlesDistinct, BosSound, TableSound
<1>9. TableLockHeld'
  BY <1>1, <1>2, <1>3, <1>4 DEF TableLockHeld
<1>10. CpuLocksHeld'
  BY <1>1, <1>2, <1>3, <1>4 DEF CpuLocksHeld
<1>11. CallersSound'
  BY <1>1, <1>2, <1>3, <1>4 DEF CallersSound
<1>12. AllocatorsSound'
  BY <1>1, <1>2, <1>3, <1>4 DEF AllocatorsSound
<1>13. AllocatorsApart'
  BY <1>1, <1>2, <1>3, <1>4 DEF AllocatorsApart
<1>14. ImportersSound'
  BY <1>1, <1>2, <1>3, <1>4 DEF ImportersSound
<1>15. FreersSound'
  BY <1>1, <1>2, <1>3, <1>4 DEF FreersSound
<1>16. NobodyForgotten'
  BY <1>1, <1>2, <1>3, <1>4 DEF NobodyForgotten
<1>17. FindersSound'
  BY <1>1, <1>2, <1>3, <1>4 DEF FindersSound
<1>18. \A u \in Threads, p \in Bos : Holds(u, p)' <=> Holds(u, p)
  BY <1>1 DEF Holds
<1>19. MappersSound'
  BY <1>1, <1>2, <1>3, <1>4, <1>18 DEF MappersSound
<1>20. PointersSound'
  BY <1>1, <1>2, <1>3, <1>4 DEF PointersSound
<1>21. HandlesOwned'
  BY <1>1, <1>2, <1>3, <1>4 DEF HandlesOwned
<1> QED
  BY <1>5, <1>6, <1>7, <1>8, <1>9, <1>10, <1>11, <1>12, <1>13, <1>14, <1>15, <1>16,
     <1>17, <1>19, <1>20, <1>21

(* The second comparison, when it fails. *)
LEMMA FindMissesPreserves ==
  ASSUME BoInvariant, NEW t \in Threads, FindBelow(t),
         ~(call[t].cpu < cpu_ptr[call[t].bo] + BoSize)
  PROVE  BoInvariant'
<1> USE BoManagerAssumption DEF BoInvariant
<1>1. /\ pc[t] = "find_below" /\ pc' = [pc EXCEPT ![t] = "find"]
      /\ UNCHANGED <<handleOf, fds, mapping, table, tableLock, refcount, handle, cpu_ptr, cpu_map_count, cpuLock, ref, cpu, call, origin, leaked>>
  BY DEF FindBelow, Goto, kernelVars, boVars, mapVars
<1>2. /\ pc'[t] = "find" /\ call'[t] = call[t]
      /\ \A u \in Threads \ {t} : pc'[u] = pc[u] /\ call'[u] = call[u]
  BY <1>1 DEF TypeOK, NoCall
<1>3. \A u \in Threads \ {t} :
         /\ Allocating(u)' <=> Allocating(u)
         /\ Importing(u)' <=> Importing(u)
         /\ Freeing(u)' <=> Freeing(u)
         /\ Finding(u)' <=> Finding(u)
         /\ Mapping(u)' <=> Mapping(u)
  BY <1>2, OthersStay
<1>4. /\ ~Allocating(t)' /\ ~Importing(t)' /\ ~Freeing(t)' /\ Finding(t)' /\ ~Mapping(t)'
      /\ ~Allocating(t) /\ ~Importing(t) /\ ~Freeing(t) /\ Finding(t) /\ ~Mapping(t)
  BY <1>1, <1>2 DEF Allocating, Importing, Freeing, Finding, Mapping
<1>5. TypeOK'
  BY <1>1 DEF TypeOK, CallType, NoCall, Labels
<1>6. MappingsAccounted'
  BY <1>1, MappingsStay
<1>7. RefsCounted' /\ KeepersSound'
  BY <1>1 DEF RefsCounted, KeepersSound
<1>8. HandlesDistinct' /\ BosSound' /\ TableSound'
  BY <1>1 DEF HandlesDistinct, BosSound, TableSound
<1>9. TableLockHeld'
  BY <1>1, <1>2, <1>3, <1>4 DEF TableLockHeld
<1>10. CpuLocksHeld'
  BY <1>1, <1>2, <1>3, <1>4 DEF CpuLocksHeld
<1>11. CallersSound'
  BY <1>1, <1>2, <1>3, <1>4 DEF CallersSound
<1>12. AllocatorsSound'
  BY <1>1, <1>2, <1>3, <1>4 DEF AllocatorsSound
<1>13. AllocatorsApart'
  BY <1>1, <1>2, <1>3, <1>4 DEF AllocatorsApart
<1>14. ImportersSound'
  BY <1>1, <1>2, <1>3, <1>4 DEF ImportersSound
<1>15. FreersSound'
  BY <1>1, <1>2, <1>3, <1>4 DEF FreersSound
<1>16. NobodyForgotten'
  BY <1>1, <1>2, <1>3, <1>4 DEF NobodyForgotten
<1>17. FindersSound'
  BY <1>1, <1>2, <1>3, <1>4 DEF FindersSound
<1>18. \A u \in Threads, p \in Bos : Holds(u, p)' <=> Holds(u, p)
  BY <1>1 DEF Holds
<1>19. MappersSound'
  BY <1>1, <1>2, <1>3, <1>4, <1>18 DEF MappersSound
<1>20. PointersSound'
  BY <1>1, <1>2, <1>3, <1>4 DEF PointersSound
<1>21. HandlesOwned'
  BY <1>1, <1>2, <1>3, <1>4 DEF HandlesOwned
<1> QED
  BY <1>5, <1>6, <1>7, <1>8, <1>9, <1>10, <1>11, <1>12, <1>13, <1>14, <1>15, <1>16,
     <1>17, <1>19, <1>20, <1>21

(* The second comparison, when it holds: the bo found gets another reference. *)
LEMMA FindHitsPreserves ==
  ASSUME BoInvariant, NEW t \in Threads, FindBelow(t),
         call[t].cpu < cpu_ptr[call[t].bo] + BoSize
  PROVE  BoInvariant'
<1> USE BoManagerAssumption DEF BoInvariant
<1> DEFINE v == call[t].var
           o == call[t].bo
<1>1. /\ pc[t] = "find_below" /\ pc' = [pc EXCEPT ![t] = "found"]
      /\ AddReference(o, v)
      /\ UNCHANGED <<handleOf, fds, mapping, table, tableLock, handle, cpu_ptr, cpu_map_count, cpuLock, cpu, call, origin, leaked>>
  BY DEF FindBelow, Goto, kernelVars, boVars, mapVars
<1>2. /\ pc'[t] = "found" /\ call'[t] = call[t]
      /\ \A u \in Threads \ {t} : pc'[u] = pc[u] /\ call'[u] = call[u]
  BY <1>1 DEF TypeOK, NoCall
<1>3. \A u \in Threads \ {t} :
         /\ Allocating(u)' <=> Allocating(u)
         /\ Importing(u)' <=> Importing(u)
         /\ Freeing(u)' <=> Freeing(u)
         /\ Finding(u)' <=> Finding(u)
         /\ Mapping(u)' <=> Mapping(u)
  BY <1>2, OthersStay
<1>4. /\ ~Allocating(t)' /\ ~Importing(t)' /\ ~Freeing(t)' /\ ~Finding(t)' /\ ~Mapping(t)'
      /\ ~Allocating(t) /\ ~Importing(t) /\ ~Freeing(t) /\ Finding(t) /\ ~Mapping(t)
  BY <1>1, <1>2 DEF Allocating, Importing, Freeing, Finding, Mapping
<1>5. /\ tableLock = t
      /\ \A u \in Threads \ {t} : ~Importing(u) /\ ~Freeing(u) /\ ~Finding(u) /\ pc[u] # "found"
  BY <1>1, <1>4, BoManagerAssumption DEF TableLockHeld
<1>6. /\ o \in Bos /\ refcount[o] > 0
      /\ v \in Vars /\ v[1] = t /\ ref[v] = NoBo
  BY <1>1, <1>4 DEF FindersSound, CallersSound
<1> HIDE DEF v, o
<1>7. /\ refcount' \in [Bos -> 0 .. Cardinality(Vars)]
      /\ ref' \in [Vars -> Bos \cup {NoBo}]
      /\ refcount'[o] = refcount[o] + 1
      /\ \A p \in Bos \ {o} : refcount'[p] = refcount[p]
      /\ ref'[v] = o /\ \A w \in Vars \ {v} : ref'[w] = ref[w]
      /\ RefsCounted'
  BY <1>1, <1>6, ReferenceAdded
<1>8. /\ \A p \in Bos : refcount[p] \in Nat /\ refcount'[p] \in Nat
      /\ \A p \in Bos : refcount'[p] > 0 <=> refcount[p] > 0
      /\ \A p \in Bos : refcount'[p] = 0 <=> refcount[p] = 0
  BY <1>6, <1>7, BoundsAreNumbers DEF TypeOK
<1>9. \A u \in Threads \ {t}, p \in Bos : Holds(u, p)' <=> Holds(u, p)
  BY <1>6, <1>7, OthersHold
<1>10. TypeOK'
  BY <1>1, <1>7 DEF TypeOK, CallType, NoCall, Labels
<1>11. HandlesDistinct'
  BY <1>1 DEF HandlesDistinct
<1>12. BosSound'
  BY <1>1, <1>8 DEF BosSound
<1>13. TableSound'
  BY <1>1, <1>8 DEF TableSound, TypeOK
<1>14. TableLockHeld'
  BY <1>1, <1>2, <1>3, <1>4 DEF TableLockHeld
<1>15. CpuLocksHeld'
  BY <1>1, <1>2, <1>3, <1>4 DEF CpuLocksHeld
<1>16. CallersSound'
  BY <1>1, <1>2, <1>3, <1>4, <1>5, <1>7, <1>6 DEF CallersSound
<1>17. AllocatorsSound'
  BY <1>1, <1>2, <1>3, <1>4 DEF AllocatorsSound
<1>18. AllocatorsApart'
  BY <1>1, <1>2, <1>3, <1>4 DEF AllocatorsApart
<1>19. ImportersSound'
  BY <1>1, <1>2, <1>3, <1>4 DEF ImportersSound
<1>20. FreersSound'
  BY <1>1, <1>2, <1>3, <1>4, <1>5 DEF FreersSound, Freeing
<1>21. NobodyForgotten'
  BY <1>1, <1>2, <1>3, <1>4, <1>8 DEF NobodyForgotten
<1>22. FindersSound'
  BY <1>1, <1>2, <1>3, <1>4, <1>5 DEF FindersSound, Finding
<1>23. MappersSound'
  BY <1>1, <1>2, <1>3, <1>4, <1>9 DEF MappersSound
<1>24. PointersSound'
  BY <1>1, <1>2, <1>3, <1>4 DEF PointersSound
<1>25. KeepersSound'
  BY <1>1, <1>8 DEF KeepersSound, TypeOK
<1>26. HandlesOwned'
  BY <1>1, <1>2, <1>3, <1>4 DEF HandlesOwned
<1>27. MappingsAccounted'
  BY <1>1, <1>8, MappingsStay
<1> QED
  BY <1>7, <1>10, <1>11, <1>12, <1>13, <1>14, <1>15, <1>16, <1>17, <1>18, <1>19, <1>20,
     <1>21, <1>22, <1>23, <1>24, <1>25, <1>26, <1>27

(* The search is over. *)
LEMMA FindReturnPreserves ==
  ASSUME BoInvariant, NEW t \in Threads, FindReturn(t)
  PROVE  BoInvariant'
<1> USE BoManagerAssumption DEF BoInvariant
<1>1. /\ pc[t] \in {"found", "find"} /\ pc' = [pc EXCEPT ![t] = "idle"]
      /\ call' = [call EXCEPT ![t] = NoCall]
      /\ tableLock' = NoThread
      /\ UNCHANGED <<handleOf, fds, mapping, table, refcount, handle, cpu_ptr, cpu_map_count, cpuLock, ref, cpu, origin, leaked>>
  BY DEF FindReturn, Goto, Return, Unlock, kernelVars, boVars, mapVars
<1>2. /\ pc'[t] = "idle"
      /\ \A u \in Threads \ {t} : pc'[u] = pc[u] /\ call'[u] = call[u]
  BY <1>1 DEF TypeOK, NoCall
<1>3. \A u \in Threads \ {t} :
         /\ Allocating(u)' <=> Allocating(u)
         /\ Importing(u)' <=> Importing(u)
         /\ Freeing(u)' <=> Freeing(u)
         /\ Finding(u)' <=> Finding(u)
         /\ Mapping(u)' <=> Mapping(u)
  BY <1>2, OthersStay
<1>4. /\ ~Allocating(t)' /\ ~Importing(t)' /\ ~Freeing(t)' /\ ~Finding(t)' /\ ~Mapping(t)'
      /\ ~Allocating(t) /\ ~Importing(t) /\ ~Freeing(t) /\ ~Mapping(t)
  BY <1>1, <1>2 DEF Allocating, Importing, Freeing, Finding, Mapping
<1>5. /\ tableLock = t
      /\ \A u \in Threads \ {t} : ~Importing(u) /\ ~Freeing(u) /\ ~Finding(u) /\ pc[u] # "found"
  BY <1>1, <1>4, BoManagerAssumption DEF TableLockHeld, Finding
<1>6. TypeOK'
  BY <1>1 DEF TypeOK, CallType, NoCall, Labels
<1>7. MappingsAccounted'
  BY <1>1, MappingsStay
<1>8. RefsCounted' /\ KeepersSound'
  BY <1>1 DEF RefsCounted, KeepersSound
<1>9. HandlesDistinct' /\ BosSound' /\ TableSound'
  BY <1>1 DEF HandlesDistinct, BosSound, TableSound
<1>10. TableLockHeld'
  BY <1>1, <1>2, <1>3, <1>4, <1>5 DEF TableLockHeld
<1>11. CpuLocksHeld'
  BY <1>1, <1>2, <1>3, <1>4 DEF CpuLocksHeld
<1>12. CallersSound'
  BY <1>1, <1>2, <1>3, <1>4 DEF CallersSound
<1>13. AllocatorsSound'
  BY <1>1, <1>2, <1>3, <1>4 DEF AllocatorsSound
<1>14. AllocatorsApart'
  BY <1>1, <1>2, <1>3, <1>4 DEF AllocatorsApart
<1>15. ImportersSound'
  BY <1>1, <1>2, <1>3, <1>4 DEF ImportersSound
<1>16. FreersSound'
  BY <1>1, <1>2, <1>3, <1>4 DEF FreersSound
<1>17. NobodyForgotten'
  BY <1>1, <1>2, <1>3, <1>4 DEF NobodyForgotten
<1>18. FindersSound'
  BY <1>1, <1>2, <1>3, <1>4 DEF FindersSound
<1>19. \A u \in Threads, p \in Bos : Holds(u, p)' <=> Holds(u, p)
  BY <1>1 DEF Holds
<1>20. MappersSound'
  BY <1>1, <1>2, <1>3, <1>4, <1>19 DEF MappersSound
<1>21. PointersSound'
  BY <1>1, <1>2, <1>3, <1>4 DEF PointersSound
<1>22. HandlesOwned'
  BY <1>1, <1>2, <1>3, <1>4 DEF HandlesOwned
<1> QED
  BY <1>6, <1>7, <1>8, <1>9, <1>10, <1>11, <1>12, <1>13, <1>14, <1>15, <1>16, <1>17,
     <1>18, <1>20, <1>21, <1>22

-----------------------------------------------------------------------------
(* The invariant. *)

LEMMA InvariantInit == Init => BoInvariant
<1> SUFFICES ASSUME Init PROVE BoInvariant
  OBVIOUS
<1> USE BoManagerAssumption
<1>1. /\ \A b \in Buffers : handleOf[b] = NoHandle
      /\ \A a \in Bases : mapping[a] = NoBuffer
      /\ \A h \in Handles : table[h] = NoBo
      /\ tableLock = NoThread
      /\ \A o \in Bos : /\ refcount[o] = 0 /\ handle[o] = NoHandle
                        /\ cpu_ptr[o] = NULL /\ cpu_map_count[o] = 0 /\ cpuLock[o] = NoThread
      /\ \A v \in Vars : ref[v] = NoBo
      /\ \A t \in Threads : cpu[t] = NoBo /\ pc[t] = "idle" /\ call[t] = NoCall
  BY DEF Init
<1>2. \A t \in Threads :
         ~Allocating(t) /\ ~Importing(t) /\ ~Freeing(t) /\ ~Finding(t) /\ ~Mapping(t)
  BY <1>1 DEF Allocating, Importing, Freeing, Finding, Mapping
<1>3. NoCall \in CallType
  BY DEF NoCall, CallType
<1>4. TypeOK
  BY <1>3, BoundsAreNumbers DEF Init, TypeOK, Labels
<1>5. HandlesDistinct /\ BosSound /\ TableSound
  BY <1>1 DEF HandlesDistinct, BosSound, TableSound
<1>6. TableLockHeld /\ CpuLocksHeld /\ CallersSound
  BY <1>1, <1>2 DEF TableLockHeld, CpuLocksHeld, CallersSound
<1>7. AllocatorsSound /\ AllocatorsApart /\ ImportersSound
  BY <1>1, <1>2 DEF AllocatorsSound, AllocatorsApart, ImportersSound
<1>8. FreersSound /\ NobodyForgotten /\ FindersSound
  BY <1>1, <1>2 DEF FreersSound, NobodyForgotten, FindersSound
<1>9. MappersSound /\ PointersSound /\ KeepersSound /\ HandlesOwned
  BY <1>1, <1>2 DEF MappersSound, PointersSound, KeepersSound, HandlesOwned
<1>10. RefsCounted
  <2>1. \A o \in Bos : Count(Vars, ref, o) = 0
    BY <1>1, BoundsAreNumbers, CountType
  <2> QED
    BY <1>1, <2>1 DEF RefsCounted, Count
<1>11. MappingsAccounted
  BY <1>1 DEF MappingsAccounted
<1> QED
  BY <1>4, <1>5, <1>6, <1>7, <1>8, <1>9, <1>10, <1>11 DEF BoInvariant

(* A call that starts, one that goes on, and the close of a dma-buf fd.    *)
LEMMA InvariantNext == BoInvariant /\ [Next]_vars => BoInvariant'
<1> SUFFICES ASSUME BoInvariant, [Next]_vars PROVE BoInvariant'
  OBVIOUS
<1>1. CASE CloseFd
  BY <1>1, CloseFdPreserves
<1>2. ASSUME NEW t \in Threads, Begin(t) PROVE BoInvariant'
  <2>1. ASSUME NEW v \in Vars, AllocOpen(t, v) PROVE BoInvariant'
    BY <2>1, AllocOpenPreserves
  <2>2. ASSUME NEW v \in Vars, Export(t, v) PROVE BoInvariant'
    BY <2>2, ExportPreserves
  <2>3. ASSUME NEW v \in Vars, NEW b \in Buffers, ImportOpen(t, v, b) PROVE BoInvariant'
    BY <2>3, ImportOpenPreserves
  <2>4. ASSUME NEW v \in Vars, NEW w \in Vars, IncRef(t, v, w) PROVE BoInvariant'
    BY <2>4, IncRefPreserves
  <2>5. ASSUME NEW v \in Vars, FreeShared(t, v) PROVE BoInvariant'
    BY <2>5, FreeSharedPreserves
  <2>6. ASSUME NEW v \in Vars, FreeLast(t, v) PROVE BoInvariant'
    BY <2>6, FreeLastPreserves
  <2>7. ASSUME NEW o \in Bos, MapAgain(t, o) PROVE BoInvariant'
    BY <2>7, MapAgainPreserves
  <2>8. ASSUME NEW o \in Bos, MapFirst(t, o) PROVE BoInvariant'
    BY <2>8, MapFirstPreserves
  <2>9. ASSUME NEW o \in Bos, UnmapShared(t, o) PROVE BoInvariant'
    BY <2>9, UnmapSharedPreserves
  <2>10. ASSUME NEW o \in Bos, UnmapLast(t, o) PROVE BoInvariant'
    BY <2>10, UnmapLastPreserves
  <2>11. ASSUME NEW v \in Vars, NEW a \in Pointers, FindStart(t, v, a) PROVE BoInvariant'
    BY <2>11, FindStartPreserves
  <2> QED
    BY <1>2, <2>1, <2>2, <2>3, <2>4, <2>5, <2>6, <2>7, <2>8, <2>9, <2>10, <2>11 DEF Begin
<1>3. ASSUME NEW t \in Threads, Proceed(t) PROVE BoInvariant'
  <2>1. CASE AllocCreate(t) \/ AllocNoMemory(t) \/ AllocClose(t)
    BY <2>1, AllocCreatePreserves, AllocNoMemoryPreserves, AllocClosePreserves
  <2>2. CASE ImportQueryFails(t) \/ ImportExisting(t) \/ ImportNew(t)
    BY <2>2, ImportQueryFailsPreserves, ImportExistingPreserves, ImportNewPreserves
  <2>3. CASE ImportCreate(t) \/ ImportNoMemory(t)
    BY <2>3, ImportCreatePreserves, ImportNoMemoryPreserves
  <2>4. CASE FreeUnmap(t) \/ FreeClose(t)
    BY <2>4, FreeUnmapPreserves, FreeClosePreserves
  <2>5. CASE MapKernel(t) \/ MapFails(t) \/ UnmapClear(t)
    BY <2>5, MapKernelPreserves, MapFailsPreserves, UnmapClearPreserves
  <2>6. CASE FindLook(t) \/ FindAbove(t) \/ FindReturn(t)
    BY <2>6, FindLookPreserves, FindAbovePreserves, FindReturnPreserves
  <2>7. CASE FindBelow(t)
    BY <2>7, FindHitsPreserves, FindMissesPreserves
  <2> QED
    BY <1>3, <2>1, <2>2, <2>3, <2>4, <2>5, <2>6, <2>7 DEF Proceed
<1>4. CASE UNCHANGED vars
  <2>1. /\ UNCHANGED <<handleOf, fds, mapping, table, tableLock, refcount, handle, cpu_ptr>>
        /\ UNCHANGED <<cpu_map_count, cpuLock, ref, cpu, pc, call, origin, leaked>>
    BY <1>4 DEF vars, kernelVars, mapVars, boVars
  <2>2. TypeOK' /\ HandlesDistinct' /\ BosSound' /\ TableSound'
    BY <2>1 DEF BoInvariant, TypeOK, HandlesDistinct, BosSound, TableSound
  <2>3. TableLockHeld' /\ CpuLocksHeld' /\ CallersSound'
    BY <2>1 DEF BoInvariant, TableLockHeld, CpuLocksHeld, CallersSound,
                Importing, Freeing, Finding, Mapping
  <2>4. AllocatorsSound' /\ AllocatorsApart' /\ ImportersSound'
    BY <2>1 DEF BoInvariant, AllocatorsSound, AllocatorsApart, ImportersSound,
                Allocating, Importing
  <2>5. FreersSound' /\ NobodyForgotten' /\ FindersSound'
    BY <2>1 DEF BoInvariant, FreersSound, NobodyForgotten, FindersSound, Freeing
  <2>6. MappersSound'
    BY <2>1 DEF BoInvariant, MappersSound, Mapping, Holds
  <2>7. PointersSound' /\ KeepersSound' /\ HandlesOwned'
    BY <2>1 DEF BoInvariant, PointersSound, KeepersSound, HandlesOwned,
                Allocating, Importing, Freeing
  <2>8. RefsCounted' /\ MappingsAccounted'
    BY <2>1, MappingsStay DEF BoInvariant, RefsCounted
  <2> QED
    BY <2>2, <2>3, <2>4, <2>5, <2>6, <2>7, <2>8 DEF BoInvariant
<1> QED
  BY <1>1, <1>2, <1>3, <1>4 DEF Next

LEMMA InvariantHolds == Spec => []BoInvariant
<1> QED
  BY InvariantInit, InvariantNext, PTL DEF Spec

-----------------------------------------------------------------------------
(* The theorems. *)

(* The counters stay between 0 and the number of references and of threads *)
(* there can be, and every link of the table, of a bo and of a call stays  *)
(* in the range of what it links to.                                       *)
THEOREM BoTypeCorrect == Spec => []TypeOK
<1>1. BoInvariant => TypeOK
  BY DEF BoInvariant
<1> QED
  BY <1>1, InvariantHolds, PTL

(* amdgpu_bo_import under bo_table_mutex, amdgpu_bo_alloc and              *)
(* amdgpu_bo_free keep one amdgpu_bo per kernel buffer.                    *)
THEOREM OneBo == Spec => []OneBoPerBuffer
<1>1. BoInvariant => OneBoPerBuffer
  <2> SUFFICES ASSUME BoInvariant, NEW o \in Bos, NEW p \in Bos,
                      refcount[o] > 0, refcount[p] > 0, origin[o] = origin[p]
               PROVE  o = p
    BY DEF OneBoPerBuffer
  <2>1. handle[o] # NoHandle /\ handle[p] # NoHandle
    BY DEF BoInvariant, BosSound
  <2>2. handle[o] = handle[p]
    BY <2>1 DEF BoInvariant, BosSound
  <2> QED
    BY <2>1, <2>2, BosDistinct DEF BoInvariant
<1> QED
  BY <1>1, InvariantHolds, PTL

(* No free, of another reference or of an older bo of the buffer, takes    *)
(* the handle or the table's entry from a bo somebody refers to.           *)
THEOREM StaysOpen == Spec => []BuffersStayOpen
<1>1. BoInvariant => BuffersStayOpen
  <2> SUFFICES ASSUME BoInvariant, NEW v \in Vars, ref[v] # NoBo
               PROVE  /\ handleOf[origin[ref[v]]] = handle[ref[v]]
                      /\ table[handle[ref[v]]] = ref[v]
    BY DEF BuffersStayOpen
  <2>1. ref[v] \in Bos /\ refcount[ref[v]] > 0
    BY NamedCounted DEF BoInvariant
  <2> QED
    BY <2>1 DEF BoInvariant, BosSound
<1> QED
  BY <1>1, InvariantHolds, PTL

(* refcount is the number of references, at every moment. *)
THEOREM RefsExact == Spec => []RefsCounted
<1>1. BoInvariant => RefsCounted
  BY DEF BoInvariant
<1> QED
  BY <1>1, InvariantHolds, PTL

(* An open handle belongs to a bo, to a call at work, or to an import that *)
(* failed in the query of the buffer.                                      *)
THEOREM HandlesNotLost == Spec => []HandlesAccounted
<1>1. BoInvariant => HandlesAccounted
  <2> SUFFICES ASSUME BoInvariant, NEW b \in Buffers, handleOf[b] # NoHandle,
                      table[handleOf[b]] = NoBo, handleOf[b] \notin leaked
               PROVE  \/ \E t \in Threads : pc[t] # "idle" /\ call[t].handle = handleOf[b]
                      \/ \E t \in Threads :
                            call[t].bo # NoBo /\ handle[call[t].bo] = handleOf[b]
    BY DEF HandlesAccounted
  <2>1. CASE \E t \in Threads :
                (Allocating(t) \/ Importing(t)) /\ call[t].handle = handleOf[b]
    BY <2>1 DEF Allocating, Importing
  <2>2. CASE \E t \in Threads : Freeing(t) /\ handle[call[t].bo] = handleOf[b]
    <3>1. PICK t \in Threads : Freeing(t) /\ handle[call[t].bo] = handleOf[b]
      BY <2>2
    <3>2. call[t].bo # NoBo
      BY <3>1, BoManagerAssumption DEF BoInvariant, FreersSound
    <3> QED
      BY <3>1, <3>2
  <2> QED
    BY <2>1, <2>2 DEF BoInvariant, HandlesOwned
<1> QED
  BY <1>1, InvariantHolds, PTL

(* amdgpu_bo_cpu_map, amdgpu_bo_cpu_unmap and amdgpu_bo_free agree with    *)
(* the address space of the process about what is mapped, and with the     *)
(* clients about how often.                                                *)
THEOREM MappingsNotLost == Spec => []MappingsAccounted
<1>1. BoInvariant => MappingsAccounted
  BY DEF BoInvariant
<1> QED
  BY <1>1, InvariantHolds, PTL

=============================================================================
