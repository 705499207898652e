----------------------------- MODULE BoManager -----------------------------
(***************************************************************************)
(* The buffer objects of one device (amdgpu_bo.c over handle_table.c):     *)
(* threads that allocate, import, export, map, look up and free buffers    *)
(* share the table bo_handles, under bo_table_mutex, and each bo's CPU     *)
(* mapping, under its cpu_access_mutex.  The accelerant underneath (the    *)
(* kernel's GEM handles and dma-bufs) and the address space of the process *)
(* are external: handleOf, fds and mapping say what the code relies on.    *)
(*                                                                         *)
(* A client's thread calls only on a bo it holds a reference to, and       *)
(* unmaps only what it mapped.                                             *)
(***************************************************************************)
EXTENDS Integers, FiniteSets

CONSTANTS
    Threads,
    Slots,          \* the amdgpu_bo_handle variables of one thread
    Bos,            \* struct amdgpu_bo objects: memory to calloc them from
    Buffers,        \* kernel buffers
    Shared,         \* the buffers other processes keep a dma-buf fd of
    MaxHandle,      \* bound on the kernel's handle numbers
    Bases,          \* addresses at which the kernel maps a buffer
    BoSize,         \* alloc_size of every buffer, in units of address space
    Pointers,       \* addresses clients pass to amdgpu_find_bo_by_cpu_mapping
    NoThread,
    NoBo,
    NoBuffer

ASSUME BoManagerAssumption ==
    /\ IsFiniteSet(Threads) /\ IsFiniteSet(Slots)
    /\ Shared \subseteq Buffers
    /\ MaxHandle \in Nat \ {0}
    /\ BoSize \in Nat \ {0}
    /\ Bases \subseteq Nat \ {0}
    /\ Pointers \subseteq Nat \ {0}
    /\ NoThread \notin Threads
    /\ NoBo \notin Bos
    /\ NoBuffer \notin Buffers

Handles == 1 .. MaxHandle

NoHandle == 0

NULL == 0

(* The handle variables of the program; v[1] is the thread that owns v. *)
Vars == Threads \X Slots

VARIABLES
    handleOf,       \* kernel: the handle this process has buffer b open under
    fds,            \* kernel: the buffers somebody holds a dma-buf fd of
    mapping,        \* kernel: the buffer mapped at an address
    table,          \* dev->bo_handles
    tableLock,      \* who holds dev->bo_table_mutex
    refcount,       \* of a bo ...
    handle,         \* ... NoHandle: the bo's memory is free
    cpu_ptr,
    cpu_map_count,
    cpuLock,        \* who holds the bo's cpu_access_mutex
    ref,            \* the client: the bo a handle variable names
    cpu,            \* the client: the bo a thread keeps mapped
    pc,             \* where the call of each thread is
    call,           \* its arguments and locals
    origin,         \* ghost: the buffer a bo was created for
    leaked          \* ghost: handles an import gave up without closing them

kernelVars == <<handleOf, fds, mapping>>
mapVars == <<cpu_ptr, cpu_map_count, cpuLock, cpu>>
boVars == <<refcount, handle, origin>>
vars == <<kernelVars, table, tableLock, boVars, mapVars, ref, pc, call, leaked>>

NoCall == [var |-> <<>>, buf |-> NoBuffer, handle |-> NoHandle, bo |-> NoBo, cpu |-> NULL]

Init ==
    /\ handleOf = [b \in Buffers |-> NoHandle]
    /\ fds = Shared
    /\ mapping = [a \in Bases |-> NoBuffer]
    /\ table = [h \in Handles |-> NoBo]
    /\ tableLock = NoThread
    /\ refcount = [o \in Bos |-> 0]
    /\ handle = [o \in Bos |-> NoHandle]
    /\ cpu_ptr = [o \in Bos |-> NULL]
    /\ cpu_map_count = [o \in Bos |-> 0]
    /\ cpuLock = [o \in Bos |-> NoThread]
    /\ ref = [v \in Vars |-> NoBo]
    /\ cpu = [t \in Threads |-> NoBo]
    /\ pc = [t \in Threads |-> "idle"]
    /\ call = [t \in Threads |-> NoCall]
    /\ origin = [o \in Bos |-> NoBuffer]
    /\ leaked = {}

-----------------------------------------------------------------------------
(* Helpers. *)

Goto(t, label) == pc' = [pc EXCEPT ![t] = label]

Return(t) ==
    /\ Goto(t, "idle")
    /\ call' = [call EXCEPT ![t] = NoCall]

(* A bug: nobody waits for the lock. *)
LockNow(t) == tableLock' = t

Lock(t) == tableLock = NoThread /\ tableLock' = t

Unlock == tableLock' = NoThread

(* A whole critical section in one step. *)
LockAndUnlock == tableLock = NoThread /\ UNCHANGED tableLock

(* v is a variable of t that names no bo. *)
FreeVar(t, v) == v[1] = t /\ ref[v] = NoBo

Holds(t, o) == \E s \in Slots : ref[t, s] = o

(* External: handle numbers the kernel may give out, and the two ways it   *)
(* opens and closes them.  A buffer has one handle in a process.           *)
FreshHandles == {h \in Handles : \A b \in Buffers : handleOf[b] # h}

HandlesFor(b) == IF handleOf[b] = NoHandle THEN FreshHandles ELSE {handleOf[b]}

CloseHandle(h) ==
    handleOf' = [b \in Buffers |-> IF handleOf[b] = h THEN NoHandle ELSE handleOf[b]]

(* amdgpu_bo_create: a new bo o for the open handle h, named by v. *)
Create(o, v, b, h) ==
    /\ handle[o] = NoHandle
    /\ table' = [table EXCEPT ![h] = o]
    /\ refcount' = [refcount EXCEPT ![o] = 1]
    /\ handle' = [handle EXCEPT ![o] = h]
    /\ origin' = [origin EXCEPT ![o] = b]
    /\ ref' = [ref EXCEPT ![v] = o]

(* Two bugs: an atomic_add is missing. *)
AddReferenceOnly(o, v) == ref' = [ref EXCEPT ![v] = o] /\ UNCHANGED refcount

DropReferenceOnly(v) == ref' = [ref EXCEPT ![v] = NoBo] /\ UNCHANGED refcount

(* One more reference to o, named by v; one less. *)
AddReference(o, v) ==
    /\ refcount' = [refcount EXCEPT ![o] = @ + 1]
    /\ ref' = [ref EXCEPT ![v] = o]

DropReference(v) ==
    /\ refcount' = [refcount EXCEPT ![ref[v]] = @ - 1]
    /\ ref' = [ref EXCEPT ![v] = NoBo]

-----------------------------------------------------------------------------
(* amdgpu_bo_alloc, and amdgpu_create_bo_from_user_mem, which differs in   *)
(* the kernel call only.                                                   *)

AllocOpen(t, v) ==
    /\ pc[t] = "idle"
    /\ FreeVar(t, v)
    /\ \E b \in Buffers \ fds, h \in FreshHandles :
          /\ handleOf[b] = NoHandle
          /\ handleOf' = [handleOf EXCEPT ![b] = h]
          /\ call' = [call EXCEPT ![t] = [NoCall EXCEPT !.var = v, !.buf = b, !.handle = h]]
    /\ Goto(t, "alloc_create")
    /\ UNCHANGED <<fds, mapping, table, tableLock, boVars, mapVars, ref, leaked>>

AllocCreate(t) ==
    /\ pc[t] = "alloc_create"
    /\ LockAndUnlock
    /\ \E o \in Bos : Create(o, call[t].var, call[t].buf, call[t].handle)
    /\ Return(t)
    /\ UNCHANGED <<kernelVars, mapVars, leaked>>

(* A bug: the handle is forgotten. *)
AllocNoMemoryLeaks(t) ==
    /\ pc[t] = "alloc_create"
    /\ LockAndUnlock
    /\ Return(t)
    /\ UNCHANGED <<kernelVars, table, boVars, mapVars, ref, leaked>>

AllocNoMemory(t) ==
    /\ pc[t] = "alloc_create"
    /\ LockAndUnlock
    /\ Goto(t, "alloc_close")
    /\ UNCHANGED <<kernelVars, table, boVars, mapVars, ref, call, leaked>>

AllocClose(t) ==
    /\ pc[t] = "alloc_close"
    /\ CloseHandle(call[t].handle)
    /\ Return(t)
    /\ UNCHANGED <<fds, mapping, table, tableLock, boVars, mapVars, ref, leaked>>

-----------------------------------------------------------------------------
(* amdgpu_bo_export for a dma-buf fd, and the close of that fd.  The other *)
(* handle types change no state.                                           *)

Export(t, v) ==
    /\ pc[t] = "idle"
    /\ v[1] = t /\ ref[v] # NoBo
    /\ \E b \in Buffers : handleOf[b] = handle[ref[v]] /\ fds' = fds \cup {b}
    /\ UNCHANGED <<handleOf, mapping, table, tableLock, boVars, mapVars, ref, pc, call, leaked>>

(* External: close(fd). *)
CloseFd ==
    /\ \E b \in fds \ Shared : fds' = fds \ {b}
    /\ UNCHANGED <<handleOf, mapping, table, tableLock, boVars, mapVars, ref, pc, call, leaked>>

-----------------------------------------------------------------------------
(* amdgpu_bo_import of a dma-buf fd; every other type is turned down       *)
(* (EPERM, EINVAL, ENOSYS: no bo ever gets a flink name).                  *)

ImportOpen(t, v, b) ==
    /\ pc[t] = "idle"
    /\ FreeVar(t, v)
    /\ b \in fds
    /\ Lock(t)
    /\ \E h \in HandlesFor(b) :
          /\ handleOf' = [handleOf EXCEPT ![b] = h]
          /\ call' = [call EXCEPT ![t] = [NoCall EXCEPT !.var = v, !.buf = b, !.handle = h]]
    /\ Goto(t, "import")
    /\ UNCHANGED <<fds, mapping, table, boVars, mapVars, ref, leaked>>

(* A bug: the error path skips the unlock. *)
ImportQueryFailsLocked(t) ==
    /\ pc[t] = "import"
    /\ Return(t)
    /\ UNCHANGED <<kernelVars, table, tableLock, boVars, mapVars, ref, leaked>>

(* AmdgpuBoQueryInfo fails: the handle stays open. *)
ImportQueryFails(t) ==
    LET h == call[t].handle IN
    /\ pc[t] = "import"
    /\ leaked' = IF table[h] = NoBo THEN leaked \cup {h} ELSE leaked
    /\ Unlock
    /\ Return(t)
    /\ UNCHANGED <<kernelVars, table, boVars, mapVars, ref>>

(* "The buffer already exists, just bump the refcount." *)
ImportExisting(t) ==
    LET o == table[call[t].handle] IN
    /\ pc[t] = "import"
    /\ o # NoBo
    /\ AddReference(o, call[t].var)
    /\ Unlock
    /\ Return(t)
    /\ UNCHANGED <<kernelVars, table, handle, origin, mapVars, leaked>>

ImportNew(t) ==
    /\ pc[t] = "import"
    /\ table[call[t].handle] = NoBo
    /\ Goto(t, "import_create")
    /\ UNCHANGED <<kernelVars, table, tableLock, boVars, mapVars, ref, call, leaked>>

ImportCreate(t) ==
    /\ pc[t] = "import_create"
    /\ \E o \in Bos : Create(o, call[t].var, call[t].buf, call[t].handle)
    /\ leaked' = leaked \ {call[t].handle}
    /\ Unlock
    /\ Return(t)
    /\ UNCHANGED <<kernelVars, mapVars>>

(* amdgpu_bo_create fails: the handle is closed. *)
ImportNoMemory(t) ==
    /\ pc[t] = "import_create"
    /\ CloseHandle(call[t].handle)
    /\ leaked' = leaked \ {call[t].handle}
    /\ Unlock
    /\ Return(t)
    /\ UNCHANGED <<fds, mapping, table, boVars, mapVars, ref>>

-----------------------------------------------------------------------------
(* amdgpu_bo_inc_ref, without a lock. *)
IncRef(t, v, w) ==
    /\ pc[t] = "idle"
    /\ v[1] = t /\ ref[v] # NoBo
    /\ FreeVar(t, w)
    /\ AddReference(ref[v], w)
    /\ UNCHANGED <<kernelVars, table, tableLock, handle, origin, mapVars, pc, call, leaked>>

(* amdgpu_bo_free. *)

FreeShared(t, v) ==
    /\ pc[t] = "idle"
    /\ v[1] = t /\ ref[v] # NoBo
    /\ refcount[ref[v]] > 1
    /\ LockAndUnlock
    /\ DropReference(v)
    /\ UNCHANGED <<kernelVars, table, handle, origin, mapVars, pc, call, leaked>>

(* The last reference; what clients still kept mapped is gone with it. *)
FreeLast(t, v) ==
    LET o == ref[v] IN
    /\ pc[t] = "idle"
    /\ v[1] = t /\ o # NoBo
    /\ refcount[o] = 1
    /\ Lock(t)
    /\ DropReference(v)
    /\ table' = [table EXCEPT ![handle[o]] = NoBo]
    /\ cpu' = [u \in Threads |-> IF cpu[u] = o THEN NoBo ELSE cpu[u]]
    /\ call' = [call EXCEPT ![t] = [NoCall EXCEPT !.bo = o]]
    /\ Goto(t, "free_unmap")
    /\ UNCHANGED <<kernelVars, handle, origin, cpu_ptr, cpu_map_count, cpuLock, leaked>>

(* A bug: a bo mapped several times is not unmapped. *)
MappedOnce(o) == cpu_map_count[o] = 1

Mapped(o) == cpu_map_count[o] > 0

(* cpu_map_count = 1 and amdgpu_bo_cpu_unmap, which waits for cpu_access_mutex. *)
FreeUnmap(t) ==
    LET o == call[t].bo IN
    /\ pc[t] = "free_unmap"
    /\ cpuLock[o] = NoThread
    /\ IF Mapped(o)
       THEN /\ mapping' = [mapping EXCEPT ![cpu_ptr[o]] = NoBuffer]
            /\ cpu_ptr' = [cpu_ptr EXCEPT ![o] = NULL]
            /\ cpu_map_count' = [cpu_map_count EXCEPT ![o] = 0]
       ELSE UNCHANGED <<mapping, cpu_ptr, cpu_map_count>>
    /\ Goto(t, "free_close")
    /\ UNCHANGED <<handleOf, fds, table, tableLock, boVars, cpuLock, cpu, ref, call, leaked>>

FreeClose(t) ==
    LET o == call[t].bo IN
    /\ pc[t] = "free_close"
    /\ CloseHandle(handle[o])
    /\ handle' = [handle EXCEPT ![o] = NoHandle]
    /\ origin' = [origin EXCEPT ![o] = NoBuffer]
    /\ Unlock
    /\ Return(t)
    /\ UNCHANGED <<fds, mapping, table, refcount, mapVars, ref, leaked>>

-----------------------------------------------------------------------------
(* amdgpu_bo_cpu_map.  Bound: a thread keeps one mapping at a time. *)

MapAgain(t, o) ==
    /\ pc[t] = "idle"
    /\ Holds(t, o) /\ cpu[t] = NoBo
    /\ cpuLock[o] = NoThread
    /\ cpu_ptr[o] # NULL
    /\ cpu_map_count' = [cpu_map_count EXCEPT ![o] = @ + 1]
    /\ cpu' = [cpu EXCEPT ![t] = o]
    /\ UNCHANGED <<kernelVars, table, tableLock, boVars, cpu_ptr, cpuLock, ref, pc, call, leaked>>

MapFirst(t, o) ==
    /\ pc[t] = "idle"
    /\ Holds(t, o) /\ cpu[t] = NoBo
    /\ cpuLock[o] = NoThread
    /\ cpu_ptr[o] = NULL
    /\ cpuLock' = [cpuLock EXCEPT ![o] = t]
    /\ call' = [call EXCEPT ![t] = [NoCall EXCEPT !.bo = o]]
    /\ Goto(t, "map")
    /\ UNCHANGED <<kernelVars, table, tableLock, boVars, cpu_ptr, cpu_map_count, cpu, ref, leaked>>

MapKernel(t) ==
    LET o == call[t].bo IN
    /\ pc[t] = "map"
    /\ \E a \in Bases, b \in Buffers :
          /\ mapping[a] = NoBuffer
          /\ handleOf[b] = handle[o]
          /\ mapping' = [mapping EXCEPT ![a] = b]
          /\ cpu_ptr' = [cpu_ptr EXCEPT ![o] = a]
    /\ cpu_map_count' = [cpu_map_count EXCEPT ![o] = 1]
    /\ cpu' = [cpu EXCEPT ![t] = o]
    /\ cpuLock' = [cpuLock EXCEPT ![o] = NoThread]
    /\ Return(t)
    /\ UNCHANGED <<handleOf, fds, table, tableLock, boVars, ref, leaked>>

MapFails(t) ==
    /\ pc[t] = "map"
    /\ cpuLock' = [cpuLock EXCEPT ![call[t].bo] = NoThread]
    /\ Return(t)
    /\ UNCHANGED <<kernelVars, table, tableLock, boVars, cpu_ptr, cpu_map_count, cpu, ref, leaked>>

(* amdgpu_bo_cpu_unmap. *)

UnmapShared(t, o) ==
    /\ pc[t] = "idle"
    /\ Holds(t, o) /\ cpu[t] = o
    /\ cpuLock[o] = NoThread
    /\ cpu_map_count[o] > 1
    /\ cpu_map_count' = [cpu_map_count EXCEPT ![o] = @ - 1]
    /\ cpu' = [cpu EXCEPT ![t] = NoBo]
    /\ UNCHANGED <<kernelVars, table, tableLock, boVars, cpu_ptr, cpuLock, ref, pc, call, leaked>>

(* munmap; cpu_ptr still says where the mapping was. *)
UnmapLast(t, o) ==
    /\ pc[t] = "idle"
    /\ Holds(t, o) /\ cpu[t] = o
    /\ cpuLock[o] = NoThread
    /\ cpu_map_count[o] = 1
    /\ cpuLock' = [cpuLock EXCEPT ![o] = t]
    /\ cpu_map_count' = [cpu_map_count EXCEPT ![o] = 0]
    /\ mapping' = [mapping EXCEPT ![cpu_ptr[o]] = NoBuffer]
    /\ cpu' = [cpu EXCEPT ![t] = NoBo]
    /\ call' = [call EXCEPT ![t] = [NoCall EXCEPT !.bo = o]]
    /\ Goto(t, "unmap")
    /\ UNCHANGED <<handleOf, fds, table, tableLock, boVars, cpu_ptr, ref, leaked>>

UnmapClear(t) ==
    /\ pc[t] = "unmap"
    /\ cpu_ptr' = [cpu_ptr EXCEPT ![call[t].bo] = NULL]
    /\ cpuLock' = [cpuLock EXCEPT ![call[t].bo] = NoThread]
    /\ Return(t)
    /\ UNCHANGED <<kernelVars, table, tableLock, boVars, cpu_map_count, cpu, ref, leaked>>

-----------------------------------------------------------------------------
(* amdgpu_find_bo_by_cpu_mapping, for a size no bo is too small for.  The  *)
(* loop holds bo_table_mutex, but cpu_ptr belongs to cpu_access_mutex: each *)
(* of its reads may see another value.                                     *)

FindStart(t, v, a) ==
    /\ pc[t] = "idle"
    /\ FreeVar(t, v)
    /\ Lock(t)
    /\ call' = [call EXCEPT ![t] = [NoCall EXCEPT !.var = v, !.cpu = a]]
    /\ Goto(t, "find")
    /\ UNCHANGED <<kernelVars, table, boVars, mapVars, ref, leaked>>

(* The keys i still to come that have a bo. *)
KeysAfter(h) == {i \in Handles : i > h /\ table[i] # NoBo}

FindLook(t) ==
    /\ pc[t] = "find"
    /\ \E i \in KeysAfter(call[t].handle) :
          /\ \A j \in KeysAfter(call[t].handle) : i <= j
          /\ call' = [call EXCEPT ![t].handle = i, ![t].bo = table[i]]
          /\ IF cpu_ptr[table[i]] = NULL THEN UNCHANGED pc ELSE Goto(t, "find_above")
    /\ UNCHANGED <<kernelVars, table, tableLock, boVars, mapVars, ref, leaked>>

FindAbove(t) ==
    /\ pc[t] = "find_above"
    /\ Goto(t, IF call[t].cpu >= cpu_ptr[call[t].bo] THEN "find_below" ELSE "find")
    /\ UNCHANGED <<kernelVars, table, tableLock, boVars, mapVars, ref, call, leaked>>

FindBelow(t) ==
    LET o == call[t].bo IN
    /\ pc[t] = "find_below"
    /\ IF call[t].cpu < cpu_ptr[o] + BoSize
       THEN AddReference(o, call[t].var) /\ Goto(t, "found")
       ELSE Goto(t, "find") /\ UNCHANGED <<refcount, ref>>
    /\ UNCHANGED <<kernelVars, table, tableLock, handle, origin, mapVars, call, leaked>>

(* The lock is released, on success and, with no key left, with ENXIO. *)
FindReturn(t) ==
    /\ \/ pc[t] = "found"
       \/ pc[t] = "find" /\ KeysAfter(call[t].handle) = {}
    /\ Unlock
    /\ Return(t)
    /\ UNCHANGED <<kernelVars, table, boVars, mapVars, ref, leaked>>

-----------------------------------------------------------------------------
(* A client starts a call, or makes one that is a single step. *)
Begin(t) ==
    \/ \E v \in Vars : AllocOpen(t, v)
    \/ \E v \in Vars : Export(t, v)
    \/ \E v \in Vars, b \in Buffers : ImportOpen(t, v, b)
    \/ \E v, w \in Vars : IncRef(t, v, w)
    \/ \E v \in Vars : FreeShared(t, v)
    \/ \E v \in Vars : FreeLast(t, v)
    \/ \E o \in Bos : MapAgain(t, o)
    \/ \E o \in Bos : MapFirst(t, o)
    \/ \E o \in Bos : UnmapShared(t, o)
    \/ \E o \in Bos : UnmapLast(t, o)
    \/ \E v \in Vars, a \in Pointers : FindStart(t, v, a)

(* A call goes on. *)
Proceed(t) ==
    \/ AllocCreate(t)
    \/ AllocNoMemory(t)
    \/ AllocClose(t)
    \/ ImportQueryFails(t)
    \/ ImportExisting(t)
    \/ ImportNew(t)
    \/ ImportCreate(t)
    \/ ImportNoMemory(t)
    \/ FreeUnmap(t)
    \/ FreeClose(t)
    \/ MapKernel(t)
    \/ MapFails(t)
    \/ UnmapClear(t)
    \/ FindLook(t)
    \/ FindAbove(t)
    \/ FindBelow(t)
    \/ FindReturn(t)

Next == CloseFd \/ \E t \in Threads : Begin(t) \/ Proceed(t)

Spec == Init /\ [][Next]_vars

(* A thread inside a call is scheduled. *)
FairSpec == Spec /\ \A t \in Threads : WF_vars(Proceed(t))
-----------------------------------------------------------------------------
CallType ==
    [var : Vars \cup {<<>>}, buf : Buffers \cup {NoBuffer}, handle : Handles \cup {NoHandle},
     bo : Bos \cup {NoBo}, cpu : Pointers \cup {NULL}]

Labels == {"idle", "alloc_create", "alloc_close", "import", "import_create", "free_unmap",
           "free_close", "map", "unmap", "find", "find_above", "find_below", "found"}

TypeOK ==
    /\ handleOf \in [Buffers -> Handles \cup {NoHandle}]
    /\ fds \in SUBSET Buffers
    /\ mapping \in [Bases -> Buffers \cup {NoBuffer}]
    /\ table \in [Handles -> Bos \cup {NoBo}]
    /\ tableLock \in Threads \cup {NoThread}
    /\ refcount \in [Bos -> 0 .. Cardinality(Vars)]
    /\ handle \in [Bos -> Handles \cup {NoHandle}]
    /\ cpu_ptr \in [Bos -> Bases \cup {NULL}]
    /\ cpu_map_count \in [Bos -> 0 .. Cardinality(Threads)]
    /\ cpuLock \in [Bos -> Threads \cup {NoThread}]
    /\ ref \in [Vars -> Bos \cup {NoBo}]
    /\ cpu \in [Threads -> Bos \cup {NoBo}]
    /\ pc \in [Threads -> Labels]
    /\ call \in [Threads -> CallType]
    /\ origin \in [Bos -> Buffers \cup {NoBuffer}]
    /\ leaked \in SUBSET Handles

(* "We must maintain a list of pairs <handle, bo>, so that we always       *)
(* return the same amdgpu_bo instance for the same handle": two bos in use *)
(* are never the same kernel buffer, whoever allocated, imported and freed *)
(* it in between.                                                          *)
OneBoPerBuffer ==
    \A o, p \in Bos : o # p /\ refcount[o] > 0 /\ refcount[p] > 0 => origin[o] # origin[p]

(* As long as a variable names a bo, the bo's handle is open on the buffer *)
(* it was created for and the table finds the bo by it: no free of another *)
(* reference, or of an older bo of the buffer, closes it.                  *)
BuffersStayOpen ==
    \A v \in Vars : ref[v] # NoBo =>
       /\ handleOf[origin[ref[v]]] = handle[ref[v]]
       /\ table[handle[ref[v]]] = ref[v]

(* A bo's refcount is the number of references its clients have, at every  *)
(* moment, the ones amdgpu_find_bo_by_cpu_mapping and the lock-free        *)
(* amdgpu_bo_inc_ref add among them.                                       *)
RefsCounted ==
    \A o \in Bos : refcount[o] = Cardinality({v \in Vars : ref[v] = o})

(* A handle the process has open belongs to a bo or to a call still at     *)
(* work, except those of imports that failed in AmdgpuBoQueryInfo, which   *)
(* amdgpu_bo_import does not close.                                        *)
HandlesAccounted ==
    \A b \in Buffers : handleOf[b] # NoHandle =>
       \/ table[handleOf[b]] # NoBo
       \/ handleOf[b] \in leaked
       \/ \E t \in Threads : pc[t] # "idle" /\ call[t].handle = handleOf[b]
       \/ \E t \in Threads : call[t].bo # NoBo /\ handle[call[t].bo] = handleOf[b]

(* What is mapped in the process is what bos count as mapped, each at the  *)
(* address its clients were given; a client's mapping lasts until it is    *)
(* unmapped or the bo's last reference is gone; and none outlives the bo.  *)
MappingsAccounted ==
    /\ \A a \in Bases : mapping[a] # NoBuffer =>
          \E o \in Bos : cpu_ptr[o] = a /\ origin[o] = mapping[a] /\ cpu_map_count[o] > 0
    /\ \A o \in Bos : cpu_map_count[o] > 0 =>
          cpu_ptr[o] # NULL /\ mapping[cpu_ptr[o]] = origin[o]
    /\ \A o \in Bos : refcount[o] > 0 =>
          cpu_map_count[o] = Cardinality({t \in Threads : cpu[t] = o})

(* amdgpu_find_bo_by_cpu_mapping, "Validate if the user memory comes from  *)
(* BO", with buf_handle the "Buffer handle for the userptr memory": when a *)
(* thread asks about an address in a mapping it holds itself, the answer   *)
(* is the bo it mapped there.                                              *)
FindNamesOwner ==
    \A t \in Threads :
       LET own == cpu[t] IN
       /\ pc[t] = "found"
       /\ own # NoBo
       /\ call[t].cpu \in cpu_ptr[own] .. cpu_ptr[own] + BoSize - 1
       => call[t].bo = own

(* Whoever takes one of the two mutexes lets it go: no path returns with   *)
(* bo_table_mutex held, and amdgpu_bo_free, which takes cpu_access_mutex   *)
(* inside bo_table_mutex, never waits for ever.                            *)
LocksReleased ==
    \A t \in Threads :
       /\ tableLock = t ~> tableLock # t
       /\ \A o \in Bos : cpuLock[o] = t ~> cpuLock[o] # t
=============================================================================
