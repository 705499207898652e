----------------------------- MODULE CsContext -----------------------------
(***************************************************************************)
(* The command submission contexts of a device and the semaphores between  *)
(* their rings (amdgpu_cs.c).  A signal records in a semaphore the last    *)
(* submission of a ring; a wait links the semaphore into the wait list of  *)
(* another ring; the next submission to that ring takes every semaphore    *)
(* off the list and passes its fence to the kernel as a dependency.        *)
(*                                                                         *)
(* A context's sequence_mutex guards its wait lists and sequence numbers.  *)
(* A semaphore has no mutex: a signal writes it under the mutex of one     *)
(* context, a submission resets it under the mutex of another.  The kernel *)
(* is external: it numbers the submissions of each ring.                   *)
(*                                                                         *)
(* Clients wait at most once for a signal, destroy a semaphore only when   *)
(* no call was given it, and free a context only when no call was.         *)
(***************************************************************************)
EXTENDS Integers, FiniteSets

CONSTANTS
    Threads,
    Ctxs,       \* struct amdgpu_context objects
    NumRings,   \* the rings of a context, over all ip types and instances
    Used,       \* the rings <<context, ring>> clients use
    Sems,       \* struct amdgpu_semaphore objects
    MaxSeq,     \* bound on the submissions to one ring of a context
    Often,      \* the rings with a second submission: a bound for the others
    Careful,    \* see MayCall and Tidy
    NoThread,
    NoCtx,
    NoNode

ASSUME CsContextAssumption ==
    /\ IsFiniteSet(Sems)
    /\ NumRings \in Nat \ {0}
    /\ Used \subseteq Ctxs \X (1 .. NumRings) /\ Often \subseteq Used
    /\ MaxSeq \in Nat
    /\ Careful \in BOOLEAN
    /\ NoThread \notin Threads
    /\ NoCtx \notin Ctxs
    /\ NoNode \notin Sems \cup (Ctxs \X (1 .. NumRings))
    /\ Sems \cap (Ctxs \X (1 .. NumRings)) = {}

Rings == 1 .. NumRings

(* The list_head of each wait list, context->sem_list[...]. *)
Heads == Ctxs \X Rings

Nodes == Heads \cup Sems

VARIABLES
    live,           \* the contexts clients may use
    sequence_mutex, \* who holds it, per context
    last_seq,       \* per context and ring
    next,           \* the links of the wait lists
    prev,
    refcount,       \* of a semaphore; 0: its memory is free
    signal_fence,
    handle,         \* the client: semaphores it has not destroyed
    kernelSeq,      \* external: the last submission to each ring
    pc,             \* where the call of each thread is
    call,           \* its arguments and locals
    signalled,      \* ghost: what the last signal of a semaphore recorded
    waiting         \* ghost: the wait list a semaphore was put on

semVars == <<refcount, signal_fence, handle, signalled>>
listVars == <<next, prev, waiting>>
seqVars == <<last_seq, kernelSeq>>
vars == <<live, sequence_mutex, seqVars, listVars, semVars, pc, call>>

NoFence == [context |-> NoCtx, ring |-> 0, fence |-> 0]

NoCall == [context |-> NoCtx, ring |-> 0, sem |-> NoNode, tmp |-> NoNode,
           dependencies |-> {}, seq_no |-> 0, expected |-> {}]

Init ==
    /\ live = {}
    /\ sequence_mutex = [c \in Ctxs |-> NoThread]
    /\ last_seq = [h \in Heads |-> 0]
    /\ kernelSeq = [h \in Heads |-> 0]
    /\ next = [n \in Nodes |-> NoNode]
    /\ prev = [n \in Nodes |-> NoNode]
    /\ waiting = [s \in Sems |-> NoNode]
    /\ refcount = [s \in Sems |-> 0]
    /\ signal_fence = [s \in Sems |-> NoFence]
    /\ signalled = [s \in Sems |-> NoFence]
    /\ handle = {}
    /\ pc = [t \in Threads |-> "idle"]
    /\ call = [t \in Threads |-> NoCall]

-----------------------------------------------------------------------------
(* A failed assertion, or a read through a wild pointer, ends the process. *)
Running == \A t \in Threads : pc[t] # "aborted"

At(t, label) == pc[t] = label /\ Running

Goto(t, label) == pc' = [pc EXCEPT ![t] = label]

Return(t) ==
    /\ Goto(t, "idle")
    /\ call' = [call EXCEPT ![t] = NoCall]

Abort(t) ==
    /\ Goto(t, "aborted")
    /\ UNCHANGED call

(* A bug: nobody waits for the lock. *)
LockNow(t, c) == sequence_mutex' = [sequence_mutex EXCEPT ![c] = t]

Lock(t, c) ==
    /\ sequence_mutex[c] = NoThread
    /\ sequence_mutex' = [sequence_mutex EXCEPT ![c] = t]

Unlock(c) == sequence_mutex' = [sequence_mutex EXCEPT ![c] = NoThread]

(* A critical section that is a single step. *)
LockAndUnlock(c) == sequence_mutex[c] = NoThread /\ UNCHANGED sequence_mutex

Using(s) == {t \in Threads : call[t].sem = s}

Signalling(t) == pc[t] \in {"signal", "signal_set", "wait"}

FreeingCtx(t) == pc[t] \in {"ctx_free", "ctx_reset", "ctx_next"}

(* What a careful client keeps apart: a signal or a wait of a semaphore    *)
(* from any other call at work on it.                                      *)
MayCall(s) == Careful => Using(s) = {}

(* A context goes only when no submission elsewhere is to wait, or is      *)
(* being made to wait, for one of its fences, and when no semaphore on its *)
(* own lists was destroyed.                                                *)
Tidy(c) ==
    Careful =>
       /\ \A s \in Sems :
             /\ signal_fence[s].context = c /\ (s \in handle \/ waiting[s] # NoNode)
                   => waiting[s] \in {c} \X Rings
             /\ waiting[s] \in {c} \X Rings => s \in handle
       /\ \A t \in Threads : \A f \in call[t].dependencies : f.context # c

-----------------------------------------------------------------------------
(* util_double_list.h *)

(* A bug: the new entry is linked to itself. *)
ListAddLate(s, h) ==
    /\ next' = [next EXCEPT ![h] = s, ![s] = s]
    /\ prev' = [prev EXCEPT ![s] = h, ![next[h]] = s]

ListAdd(s, h) ==
    /\ next' = [next EXCEPT ![s] = next[h], ![h] = s]
    /\ prev' = [prev EXCEPT ![s] = h, ![next[h]] = s]

ListDel(s) ==
    /\ next' = [next EXCEPT ![prev[s]] = next[s]]
    /\ prev' = [prev EXCEPT ![next[s]] = prev[s]]

-----------------------------------------------------------------------------
(* amdgpu_cs_create_semaphore and amdgpu_cs_destroy_semaphore. *)

CreateSemaphore(t, s) ==
    /\ At(t, "idle")
    /\ refcount[s] = 0
    /\ refcount' = [refcount EXCEPT ![s] = 1]
    /\ signal_fence' = [signal_fence EXCEPT ![s] = NoFence]
    /\ next' = [next EXCEPT ![s] = NoNode]
    /\ prev' = [prev EXCEPT ![s] = NoNode]
    /\ handle' = handle \cup {s}
    /\ UNCHANGED <<live, sequence_mutex, seqVars, waiting, signalled, pc, call>>

(* A bug: the reference of the signal stays. *)
UnreferenceNothing(s) == s \in Sems /\ UNCHANGED <<refcount, next>>

(* amdgpu_cs_unreference_sem.  Freed memory may be overwritten. *)
Unreference(s) ==
    /\ refcount' = [refcount EXCEPT ![s] = @ - 1]
    /\ IF refcount[s] = 1
       THEN \E n \in {next[s], NoNode} : next' = [next EXCEPT ![s] = n]
       ELSE UNCHANGED next

DestroySemaphore(t, s) ==
    /\ At(t, "idle")
    /\ s \in handle
    /\ \A u \in Using(s) : ~Signalling(u)
    /\ Careful => \A u \in Threads :
          FreeingCtx(u) => call[u].sem # s /\ waiting[s] \notin {call[u].context} \X Rings
    /\ handle' = handle \ {s}
    /\ Unreference(s)
    /\ UNCHANGED <<live, sequence_mutex, seqVars, prev, waiting, signal_fence, signalled, pc, call>>

-----------------------------------------------------------------------------
(* amdgpu_cs_signal_semaphore. *)

(* "sem has been signaled" is looked at before the lock is taken. *)
SignalCheck(t, c, r, s) ==
    /\ At(t, "idle") /\ c \in live /\ <<c, r>> \in Used /\ s \in handle
    /\ MayCall(s)
    /\ signal_fence[s].context = NoCtx
    /\ call' = [call EXCEPT ![t] = [NoCall EXCEPT !.context = c, !.ring = r, !.sem = s]]
    /\ Goto(t, "signal")
    /\ UNCHANGED <<live, sequence_mutex, seqVars, listVars, semVars>>

SignalLock(t) ==
    LET c == call[t].context IN
    /\ At(t, "signal")
    /\ Lock(t, c)
    /\ signal_fence' = [signal_fence EXCEPT ![call[t].sem].context = c]
    /\ Goto(t, "signal_set")
    /\ UNCHANGED <<live, seqVars, listVars, refcount, handle, signalled, call>>

SignalSet(t) ==
    LET c == call[t].context
        s == call[t].sem
        f == [context |-> c, ring |-> call[t].ring, fence |-> last_seq[c, call[t].ring]]
    IN
    /\ At(t, "signal_set")
    /\ signal_fence' = [signal_fence EXCEPT ![s].ring = f.ring, ![s].fence = f.fence]
    /\ signalled' = [signalled EXCEPT ![s] = f]
    /\ refcount' = [refcount EXCEPT ![s] = @ + 1]
    /\ Unlock(c)
    /\ Return(t)
    /\ UNCHANGED <<live, seqVars, listVars, handle>>

-----------------------------------------------------------------------------
(* amdgpu_cs_wait_semaphore. *)

(* "must signal first" *)
WaitCheck(t, c, r, s) ==
    /\ At(t, "idle") /\ c \in live /\ <<c, r>> \in Used /\ s \in handle
    /\ MayCall(s)
    /\ waiting[s] = NoNode
    /\ \A u \in Using(s) : pc[u] # "wait"
    /\ signal_fence[s].context # NoCtx
    /\ call' = [call EXCEPT ![t] = [NoCall EXCEPT !.context = c, !.ring = r, !.sem = s]]
    /\ Goto(t, "wait")
    /\ UNCHANGED <<live, sequence_mutex, seqVars, listVars, semVars>>

WaitAdd(t) ==
    LET h == <<call[t].context, call[t].ring>>
        s == call[t].sem
    IN
    /\ At(t, "wait")
    /\ LockAndUnlock(call[t].context)
    /\ ListAdd(s, h)
    /\ waiting' = [waiting EXCEPT ![s] = h]
    /\ Return(t)
    /\ UNCHANGED <<live, seqVars, semVars>>

-----------------------------------------------------------------------------
(* amdgpu_cs_submit_one: the wait list becomes the dependencies. *)

SubmitLock(t, c, r) ==
    LET h == <<c, r>> IN
    /\ At(t, "idle") /\ c \in live /\ h \in Used
    /\ Lock(t, c)
    /\ call' = [call EXCEPT ![t] =
          [NoCall EXCEPT !.context = c, !.ring = r, !.sem = next[h],
                         !.expected = {signalled[s] : s \in {s \in Sems : waiting[s] = h}}]]
    /\ Goto(t, "submit")
    /\ UNCHANGED <<live, seqVars, listVars, semVars>>

Head(t) == <<call[t].context, call[t].ring>>

(* The dependency is copied, the semaphore unlinked, and its reset begun. *)
SubmitTake(t) ==
    LET s == call[t].sem IN
    /\ At(t, "submit") /\ s \in Sems
    /\ call' = [call EXCEPT ![t].dependencies = @ \cup {signal_fence[s]},
                            ![t].tmp = next[s]]
    /\ ListDel(s)
    /\ waiting' = [waiting EXCEPT ![s] = NoNode]
    /\ signal_fence' = [signal_fence EXCEPT ![s].context = NoCtx]
    /\ Goto(t, "submit_reset")
    /\ UNCHANGED <<live, sequence_mutex, seqVars, refcount, handle, signalled>>

(* The rest of amdgpu_cs_reset_sem, and the reference of the signal. *)
SubmitReset(t) ==
    LET s == call[t].sem IN
    /\ At(t, "submit_reset")
    /\ signal_fence' = [signal_fence EXCEPT ![s].ring = 0, ![s].fence = 0]
    /\ signalled' = [signalled EXCEPT ![s] = NoFence]
    /\ Unreference(s)
    /\ call' = [call EXCEPT ![t].sem = call[t].tmp, ![t].tmp = NoNode]
    /\ Goto(t, "submit")
    /\ UNCHANGED <<live, sequence_mutex, seqVars, prev, waiting, handle>>

(* amdgpu_cs_submit_raw2 *)
SubmitKernel(t) ==
    LET h == Head(t) IN
    /\ At(t, "submit") /\ call[t].sem = h
    /\ kernelSeq[h] < MaxSeq /\ (kernelSeq[h] > 0 => h \in Often)
    /\ kernelSeq' = [kernelSeq EXCEPT ![h] = @ + 1]
    /\ call' = [call EXCEPT ![t].seq_no = kernelSeq[h] + 1]
    /\ Goto(t, "submitted")
    /\ UNCHANGED <<live, sequence_mutex, last_seq, listVars, semVars>>

(* The kernel refuses: the dependencies are gone all the same. *)
SubmitFails(t) ==
    /\ At(t, "submit") /\ call[t].sem = Head(t)
    /\ Unlock(call[t].context)
    /\ Return(t)
    /\ UNCHANGED <<live, seqVars, listVars, semVars>>

(* A bug: what a signal will record is not brought up to date. *)
SubmitReturnOnly(t) ==
    /\ At(t, "submitted")
    /\ Unlock(call[t].context)
    /\ Return(t)
    /\ UNCHANGED <<live, seqVars, listVars, semVars>>

SubmitReturn(t) ==
    /\ At(t, "submitted")
    /\ last_seq' = [last_seq EXCEPT ![Head(t)] = call[t].seq_no]
    /\ Unlock(call[t].context)
    /\ Return(t)
    /\ UNCHANGED <<live, kernelSeq, listVars, semVars>>

-----------------------------------------------------------------------------
(* amdgpu_cs_ctx_create2 and amdgpu_cs_ctx_free. *)

(* A failure of calloc or of the kernel leaves nothing behind. *)
CtxCreate(t, c) ==
    /\ At(t, "idle")
    /\ c \notin live
    /\ \A u \in Threads : call[u].context # c
    /\ live' = live \cup {c}
    /\ last_seq' = [h \in Heads |-> IF h[1] = c THEN 0 ELSE last_seq[h]]
    /\ kernelSeq' = [h \in Heads |-> IF h[1] = c THEN 0 ELSE kernelSeq[h]]
    /\ next' = [n \in Nodes |-> IF n \in {c} \X Rings THEN n ELSE next[n]]
    /\ prev' = [n \in Nodes |-> IF n \in {c} \X Rings THEN n ELSE prev[n]]
    /\ UNCHANGED <<sequence_mutex, waiting, semVars, pc, call>>

(* The kernel's context goes whatever it answers. *)
CtxFree(t, c) ==
    /\ At(t, "idle") /\ c \in live
    /\ \A u \in Threads : call[u].context # c
    /\ Tidy(c)
    /\ live' = live \ {c}
    /\ call' = [call EXCEPT ![t] =
          [NoCall EXCEPT !.context = c, !.ring = 1, !.sem = next[c, 1]]]
    /\ Goto(t, "ctx_free")
    /\ UNCHANGED <<sequence_mutex, seqVars, listVars, semVars>>

CtxFreeTake(t) ==
    LET s == call[t].sem IN
    /\ At(t, "ctx_free") /\ s \in Sems
    /\ ListDel(s)
    /\ waiting' = [waiting EXCEPT ![s] = NoNode]
    /\ signal_fence' = [signal_fence EXCEPT ![s].context = NoCtx]
    /\ Goto(t, "ctx_reset")
    /\ UNCHANGED <<live, sequence_mutex, seqVars, refcount, handle, signalled, call>>

(* update_references asserts that there is a reference. *)
CtxFreeReset(t) ==
    LET s == call[t].sem IN
    /\ At(t, "ctx_reset")
    /\ signal_fence' = [signal_fence EXCEPT ![s].ring = 0, ![s].fence = 0]
    /\ signalled' = [signalled EXCEPT ![s] = NoFence]
    /\ IF refcount[s] > 0
       THEN Unreference(s) /\ Goto(t, "ctx_next")
       ELSE UNCHANGED <<refcount, next>> /\ Goto(t, "aborted")
    /\ UNCHANGED <<live, sequence_mutex, seqVars, prev, waiting, handle, call>>

(* The loop reads its next entry from the one it may just have freed. *)
CtxFreeNext(t) ==
    LET n == next[call[t].sem] IN
    /\ At(t, "ctx_next")
    /\ IF n \in Sems \cup {Head(t)}
       THEN Goto(t, "ctx_free") /\ call' = [call EXCEPT ![t].sem = n]
       ELSE Abort(t)
    /\ UNCHANGED <<live, sequence_mutex, seqVars, listVars, semVars>>

CtxFreeRing(t) ==
    LET r == call[t].ring + 1 IN
    /\ At(t, "ctx_free") /\ call[t].sem = Head(t)
    /\ r \in Rings
    /\ call' = [call EXCEPT ![t].ring = r, ![t].sem = next[call[t].context, r]]
    /\ UNCHANGED <<live, sequence_mutex, seqVars, listVars, semVars, pc>>

CtxFreeReturn(t) ==
    /\ At(t, "ctx_free") /\ call[t].sem = Head(t)
    /\ call[t].ring = NumRings
    /\ Return(t)
    /\ UNCHANGED <<live, sequence_mutex, seqVars, listVars, semVars>>

-----------------------------------------------------------------------------
Begin(t) ==
    \/ \E s \in Sems : CreateSemaphore(t, s)
    \/ \E s \in Sems : DestroySemaphore(t, s)
    \/ \E c \in Ctxs, r \in Rings, s \in Sems : SignalCheck(t, c, r, s)
    \/ \E c \in Ctxs, r \in Rings, s \in Sems : WaitCheck(t, c, r, s)
    \/ \E c \in Ctxs, r \in Rings : SubmitLock(t, c, r)
    \/ \E c \in Ctxs : CtxCreate(t, c)
    \/ \E c \in Ctxs : CtxFree(t, c)

Proceed(t) ==
    \/ SignalLock(t)
    \/ SignalSet(t)
    \/ WaitAdd(t)
    \/ SubmitTake(t)
    \/ SubmitReset(t)
    \/ SubmitKernel(t)
    \/ SubmitFails(t)
    \/ SubmitReturn(t)
    \/ CtxFreeTake(t)
    \/ CtxFreeReset(t)
    \/ CtxFreeNext(t)
    \/ CtxFreeRing(t)
    \/ CtxFreeReturn(t)

Next == \E t \in Threads : Begin(t) \/ Proceed(t)

Spec == Init /\ [][Next]_vars

-----------------------------------------------------------------------------
Labels == {"idle", "signal", "signal_set", "wait", "submit", "submit_reset", "submitted",
           "ctx_free", "ctx_reset", "ctx_next", "aborted"}

FenceType == [context : Ctxs \cup {NoCtx}, ring : 0 .. NumRings, fence : 0 .. MaxSeq]

TypeOK ==
    /\ live \subseteq Ctxs
    /\ sequence_mutex \in [Ctxs -> Threads \cup {NoThread}]
    /\ last_seq \in [Heads -> 0 .. MaxSeq]
    /\ kernelSeq \in [Heads -> 0 .. MaxSeq]
    /\ next \in [Nodes -> Nodes \cup {NoNode}]
    /\ prev \in [Nodes -> Nodes \cup {NoNode}]
    /\ waiting \in [Sems -> Heads \cup {NoNode}]
    /\ refcount \in [Sems -> 0 .. 2]
    /\ signal_fence \in [Sems -> FenceType]
    /\ signalled \in [Sems -> FenceType]
    /\ handle \subseteq Sems
    /\ pc \in [Threads -> Labels]
    /\ call \in [Threads ->
          [context : Ctxs \cup {NoCtx}, ring : 0 .. NumRings, sem : Nodes \cup {NoNode},
           tmp : Nodes \cup {NoNode}, dependencies : SUBSET FenceType,
           seq_no : 0 .. MaxSeq, expected : SUBSET FenceType]]

(* Where i + 1 links lead from the head of a list, or where they leave the *)
(* semaphores.                                                             *)
Walk(h) ==
    LET at[i \in 0 .. Cardinality(Sems)] ==
           IF i = 0 THEN next[h]
           ELSE IF at[i - 1] \in Sems THEN next[at[i - 1]] ELSE at[i - 1]
    IN at

Listed(h) == {Walk(h)[i] : i \in 0 .. Cardinality(Sems)} \cap Sems

(* The wait list of a ring of a context in use is a ring of links, the     *)
(* same in both directions, through the semaphores put on it and no other; *)
(* each is allocated and signalled, whether or not it was destroyed since. *)
WaitListsSound ==
    \A h \in live \X Rings :
       LET list == {s \in Sems : waiting[s] = h} IN
       /\ Walk(h)[Cardinality(Sems)] = h
       /\ Listed(h) = list
       /\ \A n \in list \cup {h} : prev[next[n]] = n
       /\ \A s \in list : refcount[s] > 0 /\ signal_fence[s].context # NoCtx

(* A semaphore no call is at work on has one reference for the client and  *)
(* one for the signal, so that it lives until it is both destroyed and     *)
(* consumed, in whichever order.                                           *)
SemaphoresCounted ==
    \A s \in Sems : Using(s) = {} =>
       refcount[s] = Cardinality({x \in {"client", "signal"} :
                         IF x = "client" THEN s \in handle
                         ELSE signal_fence[s].context # NoCtx})

(* What a submission passes to the kernel is what the signals of the       *)
(* semaphores waiting on its ring recorded, all of it and unchanged, each  *)
(* the fence of a submission that was made to a context still in use.      *)
DependenciesComplete ==
    \A t \in Threads : pc[t] = "submit" /\ call[t].sem = Head(t) =>
       /\ call[t].dependencies = call[t].expected
       /\ \A f \in call[t].dependencies :
             f.context \in live /\ f.fence <= kernelSeq[f.context, f.ring]

(* "Mutex for accessing fences and to maintain command submissions in good *)
(* sequence": when nobody holds it, the sequence number a signal would     *)
(* record is that of the ring's last submission, in whatever order the     *)
(* submissions of several threads were numbered.                           *)
SequenceCurrent ==
    \A h \in live \X Rings :
       sequence_mutex[h[1]] = NoThread => last_seq[h] = kernelSeq[h]

(* A semaphore that is signalled is not signalled again before a           *)
(* submission has taken it: "sem has been signaled" is an error.           *)
SignalRefused ==
    [][\A t \in Threads :
          pc[t] = "signal" /\ pc'[t] = "signal_set" =>
             signal_fence[call[t].sem].context = NoCtx]_vars

-----------------------------------------------------------------------------
(* A submission, or the end of its context, is emptying the list s is on:  *)
(* as clients see it, s is off that list already.                          *)
TakenBy(t, s) ==
    \/ pc[t] \in {"submit", "submit_reset"} /\ waiting[s] = Head(t)
    \/ FreeingCtx(t) /\ waiting[s] \in {call[t].context} \X Rings

Taken(s) == waiting[s] # NoNode /\ \E t \in Threads : TakenBy(t, s)

(* s is signalled, the fence is all written, and no submission has it yet. *)
Carries(s) ==
    /\ signal_fence[s].context # NoCtx
    /\ \A t \in Using(s) : pc[t] # "signal_set"
    /\ ~Taken(s)

FencesCarried == [s \in Sems |-> IF Carries(s) THEN signal_fence[s] ELSE NoFence]

RingsWaiting == [s \in Sems |-> IF Taken(s) THEN NoNode ELSE waiting[s]]

(* What a submission is to wait for and, once the kernel has it, what the  *)
(* kernel was given.                                                       *)
Work(t) ==
    IF pc[t] \in {"submit", "submit_reset"}
    THEN [ring |-> Head(t), dependencies |-> call[t].expected, number |-> 0]
    ELSE IF pc[t] = "submitted"
    THEN [ring |-> Head(t), dependencies |-> call[t].dependencies, number |-> call[t].seq_no]
    ELSE [ring |-> NoNode, dependencies |-> {}, number |-> 0]

WorkOfThreads == [t \in Threads |-> Work(t)]

SemaphoresOf == INSTANCE Semaphores WITH
    NoRing <- NoNode,
    open <- live,
    owned <- handle,
    fence <- FencesCarried,
    ring <- RingsWaiting,
    submitted <- kernelSeq,
    work <- WorkOfThreads

(* Links, counts and mutexes together do what semaphores promise: every    *)
(* step of a call is a step of theirs, or changes nothing that clients or  *)
(* the kernel see.                                                         *)
ImplementsSemaphores == SemaphoresOf!SemaphoresSpec
=============================================================================
