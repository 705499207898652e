----------------------------- MODULE StubBackend -----------------------------
(***************************************************************************)
(* The DRM calls of libdrm (libdrm_common.c) over the stub driver          *)
(* (stub/libdrmStub.cpp), which keeps buffers in the process               *)
(* (stub/memory.cpp) and descriptors in the table of FdMapper.             *)
(*                                                                         *)
(* A call of a client is an ioctl, drmIoctl hands it to drmIoctlStub, and  *)
(* that function runs it on the calling thread.  The tables of memory.cpp  *)
(* and the counters that number buffers, contexts, submissions and         *)
(* syncobjs have no mutex: Serial says that clients never make two calls   *)
(* that number something at once.  Calls that leave these tables alone     *)
(* (waits, resets, signals, transfers, queries) are in DrmCalls.           *)
(***************************************************************************)
EXTENDS FdMapper, FiniteSets, FiniteSetsExt

CONSTANTS
    Kinds,        \* what is numbered: subset of {"gem", "syncobj", "ctx", "cs"}
    MaxNumber,    \* bound: the highest number of each kind
    MapAddresses, \* GPU addresses, in pages
    MapSizes,     \* sizes of GPU mappings
    NoBuffer,     \* no buffer
    Capabilities, \* capabilities other than the two syncobj ones, asked for
    Serial        \* clients number one thing at a time

ASSUME StubBackendAssumption ==
    /\ Kinds \subseteq {"gem", "syncobj", "ctx", "cs"}
    /\ MaxNumber \in [Kinds -> Handles] /\ Handles \subseteq Nat
    /\ \A k \in Kinds : 1 .. MaxNumber[k] \subseteq Handles
    /\ MapAddresses \subseteq Nat /\ IsFiniteSet(MapAddresses)
    /\ MapSizes \subseteq Nat \ {0} /\ IsFiniteSet(MapSizes)
    /\ Capabilities \subseteq Handles /\ Serial \in BOOLEAN

VARIABLES
    next,         \* gLastGpuBufferHandleTable and the static counters
    gGpuBufferHandleTable,
    gGpuBufferMappingTable,
    call,         \* the number a thread has read and is about to use
    owned,        \* numbers the clients hold
    placed,       \* what the clients have mapped
    capFds        \* descriptors that a capability query left open

memVars == <<next, gGpuBufferHandleTable, gGpuBufferMappingTable, call, owned, placed, capFds>>

stubVars == <<fdVars, memVars>>

(* A GpuBuffer, named by the call that created it. *)
Buffers == [handle : Handles, by : Threads]

NoCall == [kind |-> "none", number |-> 0]
CapCall == [kind |-> "cap", number |-> 0]

GpuMapping == [buffer : Buffers, size : MapSizes]

ASSUME NoBufferAssumption == NoBuffer \notin Buffers \cup GpuMapping

StubInit ==
    /\ FdInit
    /\ next = [k \in Kinds |-> 1]
    /\ gGpuBufferHandleTable = [h \in Handles |-> NoBuffer]
    /\ gGpuBufferMappingTable = [a \in MapAddresses |-> NoBuffer]
    /\ call = [t \in Threads |-> NoCall]
    /\ owned = {}
    /\ placed = {}
    /\ capFds = {}

Free(t) == pc[t] = "idle" /\ call[t] = NoCall

Quiet == \A t \in Threads : call[t].kind \notin Kinds

ThisGpuBuffer(handle) == gGpuBufferHandleTable[handle]

(* A bug: lower_bound. *)
ThisMappedGpuBufferBefore(adr) ==
    LET below == {a \in MapAddresses : a < adr /\ gGpuBufferMappingTable[a] # NoBuffer}
        m == gGpuBufferMappingTable[Max(below)]
    IN  IF below # {} /\ adr < Max(below) + m.size THEN m.buffer ELSE NoBuffer

(* upper_bound and one step back: the last mapping that begins at or below *)
(* the address, when it reaches that far.  Below the first mapping the     *)
(* iterator leaves the table; that lookup is not made here.                *)
ThisMappedGpuBuffer(adr) ==
    LET below == {a \in MapAddresses : a <= adr /\ gGpuBufferMappingTable[a] # NoBuffer}
        m == gGpuBufferMappingTable[Max(below)]
    IN  IF adr < Max(below) + m.size THEN m.buffer ELSE NoBuffer

-----------------------------------------------------------------------------
(* The counter is read: gLastGpuBufferHandleTable++, newCtx++, handle++.   *)
(* The area of a buffer may not be allocated; then nothing is numbered.    *)
TakeNumber(t, kind) ==
    /\ Free(t) /\ (Serial => Quiet)
    /\ next[kind] <= MaxNumber[kind]
    /\ call' = [call EXCEPT ![t] = [kind |-> kind, number |-> next[kind]]]
    /\ UNCHANGED <<fdVars, next, gGpuBufferHandleTable, gGpuBufferMappingTable,
                   owned, placed, capFds>>

(* A bug: the counter stays.                                               *)
UseNumberAgain(t) ==
    LET kind == call[t].kind
        n == call[t].number
    IN  /\ kind \in Kinds
        /\ gGpuBufferHandleTable' =
              [h \in Handles |->
                 IF kind = "gem" /\ h = n /\ ThisGpuBuffer(h) = NoBuffer
                 THEN [handle |-> n, by |-> t] ELSE ThisGpuBuffer(h)]
        /\ owned' = owned \cup {[kind |-> kind, number |-> n, by |-> t]}
        /\ call' = [call EXCEPT ![t] = NoCall]
        /\ UNCHANGED <<fdVars, next, gGpuBufferMappingTable, placed, capFds>>

(* The counter is written back, a buffer is entered (emplace leaves an     *)
(* entry that is there), and the call returns the number.                  *)
UseNumber(t) ==
    LET kind == call[t].kind
        n == call[t].number
    IN  /\ kind \in Kinds
        /\ next' = [next EXCEPT ![kind] = n + 1]
        /\ gGpuBufferHandleTable' =
              [h \in Handles |->
                 IF kind = "gem" /\ h = n /\ ThisGpuBuffer(h) = NoBuffer
                 THEN [handle |-> n, by |-> t] ELSE ThisGpuBuffer(h)]
        /\ owned' = owned \cup {[kind |-> kind, number |-> n, by |-> t]}
        /\ call' = [call EXCEPT ![t] = NoCall]
        /\ UNCHANGED <<fdVars, gGpuBufferMappingTable, placed, capFds>>

(* A client gives up a number: GEM_CLOSE, SYNCOBJ_DESTROY, FREE_CTX.  Only *)
(* the first changes anything; mappings keep the buffer they hold.         *)
GiveUp(t, o) ==
    /\ Free(t) /\ o \in owned
    /\ owned' = owned \ {o}
    /\ gGpuBufferHandleTable' =
          [h \in Handles |-> IF o.kind = "gem" /\ h = o.number
                             THEN NoBuffer ELSE ThisGpuBuffer(h)]
    /\ UNCHANGED <<fdVars, next, gGpuBufferMappingTable, call, placed, capFds>>

Overlaps(a, n, p) == a < p.address + p.size /\ p.address < a + n

(* AMDGPU_VA_OP_MAP of an owned buffer.  A client that is Careful maps at  *)
(* addresses that are free; at an address in use emplace changes nothing   *)
(* and the call reports success.                                           *)
MapGpuBuffer(t, o, a, size) ==
    /\ Free(t) /\ o \in owned /\ o.kind = "gem"
    /\ Careful => \A p \in placed : ~Overlaps(a, size, p)
    /\ LET buffer == ThisGpuBuffer(o.number)
       IN  gGpuBufferMappingTable' =
              [b \in MapAddresses |->
                 IF b = a /\ buffer # NoBuffer /\ gGpuBufferMappingTable[b] = NoBuffer
                 THEN [buffer |-> buffer, size |-> size] ELSE gGpuBufferMappingTable[b]]
    /\ placed' = placed \cup
          {[address |-> a, size |-> size, buffer |-> [handle |-> o.number, by |-> o.by]]}
    /\ UNCHANGED <<fdVars, next, gGpuBufferHandleTable, call, owned, capFds>>

(* AMDGPU_VA_OP_UNMAP goes by the address alone. *)
UnmapGpuBuffer(t, p) ==
    /\ Free(t) /\ p \in placed
    /\ gGpuBufferMappingTable' = [gGpuBufferMappingTable EXCEPT ![p.address] = NoBuffer]
    /\ placed' = placed \ {p}
    /\ UNCHANGED <<fdVars, next, gGpuBufferHandleTable, call, owned, capFds>>

-----------------------------------------------------------------------------
(* The calls that end in the descriptor table. *)

(* drmPrimeHandleToFD, drmSyncobjHandleToFD, drmSyncobjExportSyncFile. *)
HandleToFD(t, o) ==
    /\ call[t] = NoCall /\ o \in owned /\ o.kind \in HandleType
    /\ OpenDevNull(t, [type |-> o.kind, handle |-> o.number])
    /\ UNCHANGED memVars

(* drmGetCap of a capability the stub does not know: the case falls        *)
(* through to PRIME_HANDLE_TO_FD, which takes the capability for a handle. *)
GetCap(t, cap) ==
    /\ call[t] = NoCall
    /\ OpenDevNull(t, [type |-> "gem", handle |-> cap])
    /\ call' = [call EXCEPT ![t] = CapCall]
    /\ UNCHANGED <<next, gGpuBufferHandleTable, gGpuBufferMappingTable, owned, placed, capFds>>

(* Both return: the export with a descriptor, the query with its number as *)
(* the value of the capability.                                            *)
DescriptorReturned(t) ==
    /\ drmFdMapHandle(t)
    /\ capFds' = IF call[t] = CapCall THEN capFds \cup ({arg[t].fd} \ {NoFd}) ELSE capFds
    /\ call' = [call EXCEPT ![t] = NoCall]
    /\ UNCHANGED <<next, gGpuBufferHandleTable, gGpuBufferMappingTable, owned, placed>>

(* drmPrimeFDToHandle, drmSyncobjFDToHandle, drmSyncobjImportSyncFile. *)
FDToHandle(t, fd, type) ==
    /\ call[t] = NoCall
    /\ drmFdUnmapHandle(t, type, fd)
    /\ UNCHANGED memVars

HandleReturned(t) == ImportReturns(t) /\ UNCHANGED memVars

CloseFd(t, fd) ==
    /\ call[t] = NoCall
    /\ drmFdClose(t, fd)
    /\ UNCHANGED memVars

FdClosed(t) == EraseClosed(t) /\ UNCHANGED memVars

-----------------------------------------------------------------------------
(* A client knows the descriptors it exported, not those of GetCap. *)
Known == Held \ capFds

StubNext ==
    \E t \in Threads :
        \/ \E kind \in Kinds : TakeNumber(t, kind)
        \/ UseNumber(t)
        \/ \E o \in owned : GiveUp(t, o)
        \/ \E o \in owned, a \in MapAddresses, size \in MapSizes : MapGpuBuffer(t, o, a, size)
        \/ \E p \in placed : UnmapGpuBuffer(t, p)
        \/ \E o \in owned : HandleToFD(t, o)
        \/ \E cap \in Capabilities : GetCap(t, cap)
        \/ DescriptorReturned(t)
        \/ \E fd \in Known, type \in HandleType : FDToHandle(t, fd, type)
        \/ HandleReturned(t)
        \/ \E fd \in Known : CloseFd(t, fd)
        \/ FdClosed(t)

StubSpec == StubInit /\ [][StubNext]_stubVars

-----------------------------------------------------------------------------
(* No number is given out twice, and a buffer handle a client holds leads  *)
(* to the buffer created for it until the client closes it: no call of     *)
(* another client, export, import or capability query takes it away.       *)
HandlesResolve ==
    /\ \A o, p \in owned : o.kind = p.kind /\ o.number = p.number => o = p
    /\ \A o \in owned :
          o.kind = "gem" => ThisGpuBuffer(o.number) = [handle |-> o.number, by |-> o.by]

(* Every GPU address leads to the buffer some client mapped over it, or to *)
(* none: the search for the mapping that reaches an address finds the      *)
(* right one after any sequence of maps, unmaps and closed handles.        *)
MapsResolve ==
    \A a \in Min(MapAddresses) .. Max(MapAddresses) + Max(MapSizes) :
       (\E p \in placed : p.address <= a) =>
          LET over == {p \in placed : Overlaps(a, 1, p)}
          IN  IF over = {} THEN ThisMappedGpuBuffer(a) = NoBuffer
              ELSE \A p \in over : ThisMappedGpuBuffer(a) = p.buffer
=============================================================================
