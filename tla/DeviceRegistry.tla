--------------------------- MODULE DeviceRegistry ---------------------------
(***************************************************************************)
(* The devices of the process (amdgpu_device.c): dev_list, under dev_mutex, *)
(* finds the device of an accelerant so that every client that initializes *)
(* it gets the same, counted, struct amdgpu_device; the client that drops  *)
(* the last reference unlinks and frees it.  The accelerant is external:   *)
(* the library holds counted references to it.                             *)
(***************************************************************************)
EXTENDS Integers, FiniteSets, SequencesExt

CONSTANTS
    Threads,
    Slots,      \* the amdgpu_device_handle variables of one thread
    Accs,       \* accelerants
    Devs,       \* struct amdgpu_device objects: memory to calloc them from
    Overlap,    \* may a thread initialize while another deinitializes?
    NoThread,
    NoAcc,
    NoDev

ASSUME DeviceRegistryAssumption ==
    /\ IsFiniteSet(Threads) /\ IsFiniteSet(Slots) /\ IsFiniteSet(Devs)
    /\ Overlap \in BOOLEAN
    /\ NoThread \notin Threads
    /\ NoAcc \notin Accs
    /\ NoDev \notin Devs

(* The handle variables of the program; v[1] is the thread that owns v. *)
Vars == Threads \X Slots

VARIABLES
    dev_mutex,  \* who holds it
    dev_list,   \* the list as a sequence, head first
    refcount,   \* of a device
    acc_base,   \* the accelerant of a device; NoAcc: the device's memory is free
    ref,        \* the client: the device a handle variable names
    accRefs,    \* external: how many references the library has to an accelerant
    pc,         \* where the call of each thread is
    call        \* its variable and its device

vars == <<dev_mutex, dev_list, refcount, acc_base, ref, accRefs, pc, call>>

NoCall == [var |-> <<>>, dev |-> NoDev]

Init ==
    /\ dev_mutex = NoThread
    /\ dev_list = <<>>
    /\ refcount = [d \in Devs |-> 0]
    /\ acc_base = [d \in Devs |-> NoAcc]
    /\ ref = [v \in Vars |-> NoDev]
    /\ accRefs = [a \in Accs |-> 0]
    /\ pc = [t \in Threads |-> "idle"]
    /\ call = [t \in Threads |-> NoCall]

-----------------------------------------------------------------------------
(* A failed assertion ends the process. *)
Running == \A t \in Threads : pc[t] # "aborted"

At(t, label) == pc[t] = label /\ Running

Goto(t, label) == pc' = [pc EXCEPT ![t] = label]

Return(t) ==
    /\ Goto(t, "idle")
    /\ call' = [call EXCEPT ![t] = NoCall]

(* A bug: nobody waits for the lock. *)
LockNow(t) == dev_mutex' = t

Lock(t) == dev_mutex = NoThread /\ dev_mutex' = t

Unlock == dev_mutex' = NoThread

Initializing(t) == pc[t] \in {"init_assert", "init_add", "init_probe"}

Deinitializing(t) == pc[t] \in {"free_unlink", "free_release"}

(* What clients are assumed to keep apart, when they are. *)
MayInitialize == Overlap \/ ~\E t \in Threads : Deinitializing(t)

MayDeinitialize == Overlap \/ ~\E t \in Threads : Initializing(t)

(* dev_list = dev with dev->next the old list. *)
Linked(d) == <<d>> \o dev_list

(* The walk of free_internal stops at dev, or at the last entry.  (On an   *)
(* empty list it reads through NULL.)                                      *)
StopsAt(d) ==
    IF d \in ToSet(dev_list)
    THEN CHOOSE i \in DOMAIN dev_list : dev_list[i] = d /\ \A j \in 1 .. i - 1 : dev_list[j] # d
    ELSE Len(dev_list)

(* *node = ( *node)->next *)
Unlinked(d) == RemoveAt(dev_list, StopsAt(d))

-----------------------------------------------------------------------------
(* amdgpu_device_initialize_haiku. *)

InitFound(t, v, a) ==
    /\ At(t, "idle") /\ v[1] = t /\ ref[v] = NoDev
    /\ MayInitialize
    /\ Lock(t)
    /\ \E i \in DOMAIN dev_list :
          /\ acc_base[dev_list[i]] = a
          /\ \A j \in 1 .. i - 1 : acc_base[dev_list[j]] # a
          /\ call' = [call EXCEPT ![t] = [var |-> v, dev |-> dev_list[i]]]
    /\ Goto(t, "init_assert")
    /\ UNCHANGED <<dev_list, refcount, acc_base, ref, accRefs>>

(* update_references: assert(atomic_get(src) > 0), *)
InitAssert(t) ==
    /\ At(t, "init_assert")
    /\ Goto(t, IF refcount[call[t].dev] > 0 THEN "init_add" ELSE "aborted")
    /\ UNCHANGED <<dev_mutex, dev_list, refcount, acc_base, ref, accRefs, call>>

(* A bug: the reference is not counted. *)
InitAddNothing(t) ==
    /\ At(t, "init_add")
    /\ ref' = [ref EXCEPT ![call[t].var] = call[t].dev]
    /\ Unlock
    /\ Return(t)
    /\ UNCHANGED <<dev_list, refcount, acc_base, accRefs>>

(* and then atomic_add(src, 1). *)
InitAdd(t) ==
    /\ At(t, "init_add")
    /\ refcount' = [refcount EXCEPT ![call[t].dev] = @ + 1]
    /\ ref' = [ref EXCEPT ![call[t].var] = call[t].dev]
    /\ Unlock
    /\ Return(t)
    /\ UNCHANGED <<dev_list, acc_base, accRefs>>

(* No device of the accelerant: one is made.  (Without memory the call     *)
(* returns ENOMEM and nothing changes.)                                    *)
InitNew(t, v, a) ==
    /\ At(t, "idle") /\ v[1] = t /\ ref[v] = NoDev
    /\ MayInitialize
    /\ Lock(t)
    /\ \A i \in DOMAIN dev_list : acc_base[dev_list[i]] # a
    /\ \E d \in Devs :
          /\ acc_base[d] = NoAcc
          /\ acc_base' = [acc_base EXCEPT ![d] = a]
          /\ refcount' = [refcount EXCEPT ![d] = 1]
          /\ call' = [call EXCEPT ![t] = [var |-> v, dev |-> d]]
    /\ accRefs' = [accRefs EXCEPT ![a] = @ + 1]
    /\ Goto(t, "init_probe")
    /\ UNCHANGED <<dev_list, ref>>

(* A bug: the cleanup forgets the accelerant. *)
InitCleanupOnly(t) ==
    /\ At(t, "init_probe")
    /\ acc_base' = [acc_base EXCEPT ![call[t].dev] = NoAcc]
    /\ Unlock
    /\ Return(t)
    /\ UNCHANGED <<dev_list, refcount, ref, accRefs>>

(* An interface is missing, the version is wrong, or a query fails. *)
InitCleanup(t) ==
    LET d == call[t].dev IN
    /\ At(t, "init_probe")
    /\ accRefs' = [accRefs EXCEPT ![acc_base[d]] = @ - 1]
    /\ acc_base' = [acc_base EXCEPT ![d] = NoAcc]
    /\ Unlock
    /\ Return(t)
    /\ UNCHANGED <<dev_list, refcount, ref>>

InitPublish(t) ==
    LET d == call[t].dev IN
    /\ At(t, "init_probe")
    /\ dev_list' = Linked(d)
    /\ ref' = [ref EXCEPT ![call[t].var] = d]
    /\ Unlock
    /\ Return(t)
    /\ UNCHANGED <<refcount, acc_base, accRefs>>

-----------------------------------------------------------------------------
(* amdgpu_device_deinitialize. *)

(* A bug: the value after the subtraction is compared with 1. *)
WasLastOffByOne(d) == refcount[d] = 2

WasLast(d) == refcount[d] = 1

(* update_references(&dev->refcount, NULL), without the lock. *)
Deinit(t, v) ==
    LET d == ref[v] IN
    /\ At(t, "idle") /\ v[1] = t /\ d # NoDev
    /\ MayDeinitialize
    /\ refcount' = [refcount EXCEPT ![d] = @ - 1]
    /\ ref' = [ref EXCEPT ![v] = NoDev]
    /\ IF WasLast(d)
       THEN /\ Goto(t, "free_unlink")
            /\ call' = [call EXCEPT ![t].dev = d]
       ELSE UNCHANGED <<pc, call>>
    /\ UNCHANGED <<dev_mutex, dev_list, acc_base, accRefs>>

(* A bug: the lock is not given back. *)
FreeUnlinkLocked(t) ==
    /\ At(t, "free_unlink")
    /\ Lock(t)
    /\ dev_list' = Unlinked(call[t].dev)
    /\ Goto(t, "free_release")
    /\ UNCHANGED <<refcount, acc_base, ref, accRefs, call>>

FreeUnlink(t) ==
    /\ At(t, "free_unlink")
    /\ dev_mutex = NoThread
    /\ dev_list' = Unlinked(call[t].dev)
    /\ Goto(t, "free_release")
    /\ UNCHANGED <<dev_mutex, refcount, acc_base, ref, accRefs, call>>

(* The accelerant, the managers, the tables and the device itself. *)
FreeRelease(t) ==
    LET d == call[t].dev IN
    /\ At(t, "free_release")
    /\ accRefs' = [accRefs EXCEPT ![acc_base[d]] = @ - 1]
    /\ acc_base' = [acc_base EXCEPT ![d] = NoAcc]
    /\ Return(t)
    /\ UNCHANGED <<dev_mutex, dev_list, refcount, ref>>

-----------------------------------------------------------------------------
Begin(t) ==
    \/ \E v \in Vars, a \in Accs : InitFound(t, v, a)
    \/ \E v \in Vars, a \in Accs : InitNew(t, v, a)
    \/ \E v \in Vars : Deinit(t, v)

Proceed(t) ==
    \/ InitAssert(t)
    \/ InitAdd(t)
    \/ InitCleanup(t)
    \/ InitPublish(t)
    \/ FreeUnlink(t)
    \/ FreeRelease(t)

Next == \E t \in Threads : Begin(t) \/ Proceed(t)

Spec == Init /\ [][Next]_vars

(* A thread inside a call is scheduled. *)
FairSpec == Spec /\ \A t \in Threads : WF_vars(Proceed(t))

-----------------------------------------------------------------------------
Labels == {"idle", "init_assert", "init_add", "init_probe", "free_unlink", "free_release",
           "aborted"}

TypeOK ==
    /\ dev_mutex \in Threads \cup {NoThread}
    /\ dev_list \in Seq(Devs)
    /\ refcount \in [Devs -> 0 .. Cardinality(Vars)]
    /\ acc_base \in [Devs -> Accs \cup {NoAcc}]
    /\ ref \in [Vars -> Devs \cup {NoDev}]
    /\ accRefs \in [Accs -> 0 .. Cardinality(Devs)]
    /\ pc \in [Threads -> Labels]
    /\ call \in [Threads -> [var : Vars \cup {<<>>}, dev : Devs \cup {NoDev}]]

(* A handle a client got from amdgpu_device_initialize_haiku and has not   *)
(* given back names a device that is in the list and that nobody frees,    *)
(* however many other clients come and go: what "dst is freed if its       *)
(* reference counter is 0" is to guarantee.                                *)
HandlesAlive ==
    \A v \in Vars : ref[v] # NoDev =>
       /\ acc_base[ref[v]] # NoAcc
       /\ ref[v] \in ToSet(dev_list)
       /\ \A t \in Threads : Deinitializing(t) => call[t].dev # ref[v]

(* Two clients of one accelerant share one device: their VA ranges and     *)
(* buffer tables are the same.                                             *)
OneDevicePerAccelerant ==
    \A v, w \in Vars :
       ref[v] # NoDev /\ ref[w] # NoDev /\ acc_base[ref[v]] = acc_base[ref[w]]
          => ref[v] = ref[w]

(* A device's refcount is the number of handles its clients have. *)
RefsCounted ==
    \A d \in Devs : d \in ToSet(dev_list) =>
       refcount[d] = Cardinality({v \in Vars : ref[v] = d})

(* The library has as many references to an accelerant as it has devices   *)
(* of it, whichever step of an initialization failed.                      *)
AccelerantsBalanced ==
    \A a \in Accs : accRefs[a] = Cardinality({d \in Devs : acc_base[d] = a})

(* The accelerant of a device nobody refers to any more is let go.         *)
DevicesReleased ==
    \A d \in Devs :
       acc_base[d] # NoAcc /\ (\A v \in Vars : ref[v] # d)
          ~> acc_base[d] = NoAcc \/ (\E v \in Vars : ref[v] = d)
=============================================================================
