-------------------------- MODULE CsContextProofs ---------------------------
(***************************************************************************)
(* Theorems about CsContext, for any number of threads, contexts, rings    *)
(* and semaphores: sequence numbers that are current whenever the mutex is *)
(* free; and, for careful clients, wait lists that are whole, reference    *)
(* counts that are exact, and submissions that pass on every dependency;   *)
(* and that the calls implement the module Semaphores.                     *)
(*                                                                         *)
(* The wait lists are described without walking them: what a list's nodes  *)
(* link to is on the list too, both ways (LinksSound), and the nodes can   *)
(* be numbered along the links (Ordered), so no part of a list is cut off  *)
(* from its head.                                                          *)
(***************************************************************************)
EXTENDS CsContext, Counting

Submitting(t) == pc[t] \in {"submit", "submit_reset", "submitted"}

(* Between the two halves of a reset: the signal's reference is still there. *)
Resetting(t) == pc[t] \in {"submit_reset", "ctx_reset"}

Settling(t, s) == pc[t] = "signal_set" /\ call[t].sem = s

(* The nodes of the list of h. *)
On(h) == {h} \cup {s \in Sems : waiting[s] = h}

(* The lists of contexts in use or being freed. *)
Active(c) == c \in live \/ \E t \in Threads : FreeingCtx(t) /\ call[t].context = c

(* No signal of s is being recorded. *)
Settled(s) == \A t \in Threads : ~Settling(t, s)

BeingReset(s) == \E t \in Threads : Resetting(t) /\ call[t].sem = s

(* The signal's reference to s. *)
Charged(s) == (signal_fence[s].context # NoCtx /\ Settled(s)) \/ BeingReset(s)

(* The list of h is yet to be emptied by amdgpu_cs_ctx_free. *)
Emptying(h) ==
    \E t \in Threads : FreeingCtx(t) /\ call[t].context = h[1] /\ call[t].ring <= h[2]

(* What a submission to the ring of h has yet to take. *)
Awaited(h) == {signalled[s] : s \in {s \in Sems : waiting[s] = h}}

-----------------------------------------------------------------------------
(* The mutexes and the sequence numbers, for clients of any kind. *)

Holding(t) == pc[t] \in {"signal_set", "submit", "submit_reset", "submitted"}

(* At work on the semaphore call[t].sem, not only on its way to it. *)
Working(t) ==
    pc[t] \in {"signal", "signal_set", "wait", "submit_reset", "ctx_reset", "ctx_next"}

CallType ==
    [context : Ctxs \cup {NoCtx}, ring : 0 .. NumRings, sem : Nodes \cup {NoNode},
     tmp : Nodes \cup {NoNode}, dependencies : SUBSET FenceType,
     seq_no : 0 .. MaxSeq, expected : SUBSET FenceType]

(* TypeOK, but for the bounds of the reference counts: clients that are not *)
(* careful break them.                                                     *)
LooseType ==
    /\ live \subseteq Ctxs
    /\ sequence_mutex \in [Ctxs -> Threads \cup {NoThread}]
    /\ last_seq \in [Heads -> 0 .. MaxSeq]
    /\ kernelSeq \in [Heads -> 0 .. MaxSeq]
    /\ next \in [Nodes -> Nodes \cup {NoNode}]
    /\ prev \in [Nodes -> Nodes \cup {NoNode}]
    /\ waiting \in [Sems -> Heads \cup {NoNode}]
    /\ refcount \in [Sems -> Int]
    /\ signal_fence \in [Sems -> FenceType]
    /\ signalled \in [Sems -> FenceType]
    /\ handle \subseteq Sems
    /\ pc \in [Threads -> Labels]
    /\ call \in [Threads -> CallType]

ArgumentsSound ==
    \A t \in Threads :
       /\ pc[t] = "idle" => call[t] = NoCall
       /\ pc[t] # "idle" => call[t].context \in Ctxs /\ call[t].ring \in Rings
       /\ Working(t) => call[t].sem \in Sems

(* Whoever holds a mutex is between its lock and its unlock. *)
MutexHeld ==
    \A t \in Threads, c \in Ctxs :
       sequence_mutex[c] = t <=> Holding(t) /\ call[t].context = c

(* The kernel is ahead only while a submission is on its way back. *)
SequenceSound ==
    /\ \A h \in Heads :
          (\A t \in Threads : pc[t] = "submitted" => Head(t) # h) => last_seq[h] = kernelSeq[h]
    /\ \A t \in Threads : pc[t] = "submitted" => call[t].seq_no = kernelSeq[Head(t)]

SeqInvariant == LooseType /\ ArgumentsSound /\ MutexHeld /\ SequenceSound

(* A step that takes no lock, returns none and numbers no submission. *)
LEMMA QuietStep ==
  ASSUME SeqInvariant, LooseType', NEW t \in Threads,
         \A u \in Threads \ {t} : pc'[u] = pc[u] /\ call'[u] = call[u],
         UNCHANGED <<sequence_mutex, last_seq, kernelSeq>>,
         Holding(t)' <=> Holding(t),
         Holding(t) => call'[t].context = call[t].context,
         pc[t] # "submitted", pc'[t] # "submitted",
         pc'[t] = "idle" => call'[t] = NoCall,
         pc'[t] # "idle" => call'[t].context \in Ctxs /\ call'[t].ring \in Rings,
         Working(t)' => call'[t].sem \in Sems
  PROVE  SeqInvariant'
<1> USE DEF SeqInvariant
<1>1. ArgumentsSound'
  BY DEF ArgumentsSound, Working
<1>2. MutexHeld'
  BY DEF MutexHeld, Holding
<1>3. SequenceSound'
  BY DEF SequenceSound, Head
<1> QED
  BY <1>1, <1>2, <1>3

(* A step outside every call. *)
LEMMA StandingStep ==
  ASSUME SeqInvariant, LooseType',
         UNCHANGED <<sequence_mutex, last_seq, kernelSeq, pc, call>>
  PROVE  SeqInvariant'
  BY DEF SeqInvariant, ArgumentsSound, Working, MutexHeld, Holding, SequenceSound, Head

(* The lists link nodes to nodes, whatever they are done to. *)
LEMMA ListTypes ==
  ASSUME LooseType, NEW s \in Sems
  PROVE  /\ ListDel(s) => /\ next' \in [Nodes -> Nodes \cup {NoNode}]
                          /\ prev' \in [Nodes -> Nodes \cup {NoNode}]
         /\ \A h \in Heads : ListAdd(s, h) => /\ next' \in [Nodes -> Nodes \cup {NoNode}]
                                              /\ prev' \in [Nodes -> Nodes \cup {NoNode}]
         /\ Unreference(s) => /\ next' \in [Nodes -> Nodes \cup {NoNode}]
                              /\ refcount' \in [Sems -> Int]
  BY DEF LooseType, ListDel, ListAdd, Unreference, Nodes

(* What is done to the record of a semaphore's fence. *)
SetFence(s, r, q) ==
    signal_fence' = [signal_fence EXCEPT ![s].ring = r, ![s].fence = q]

SetContext(s, c) ==
    signal_fence' = [signal_fence EXCEPT ![s].context = c]

(* What SubmitTake does to the call. *)
TakeDependency(t, s) ==
    call' = [call EXCEPT ![t].dependencies = @ \cup {signal_fence[s]}, ![t].tmp = next[s]]

(* A record of a semaphore's fence, its fields set one by one. *)
LEMMA FenceSet ==
  ASSUME LooseType, NEW s \in Sems, NEW r \in 0 .. NumRings, NEW q \in 0 .. MaxSeq,
         SetFence(s, r, q)
  PROVE  /\ signal_fence' \in [Sems -> FenceType]
         /\ signal_fence'[s] = [context |-> signal_fence[s].context, ring |-> r, fence |-> q]
         /\ \A p \in Sems \ {s} : signal_fence'[p] = signal_fence[p]
<1> DEFINE k == signal_fence[s]
           x == [k EXCEPT !.ring = r]
           y == [x EXCEPT !.fence = q]
<1>1. /\ signal_fence \in [Sems -> FenceType]
      /\ signal_fence' = [signal_fence EXCEPT ![s] = y]
  BY DEF LooseType, SetFence
<1>2. k \in FenceType
  BY <1>1
<1> HIDE DEF k
<1>3. x = [context |-> k.context, ring |-> r, fence |-> k.fence]
  BY <1>2 DEF FenceType
<1> HIDE DEF x
<1>4. y = [context |-> k.context, ring |-> r, fence |-> q]
  BY <1>3
<1> HIDE DEF y
<1>5. [context |-> k.context, ring |-> r, fence |-> q] \in FenceType
  BY <1>2 DEF FenceType
<1>6. /\ signal_fence' \in [Sems -> FenceType]
      /\ signal_fence'[s] = y
      /\ \A p \in Sems \ {s} : signal_fence'[p] = signal_fence[p]
  BY <1>1, <1>4, <1>5
<1> QED
  BY <1>4, <1>6 DEF k

(* Its context alone. *)
LEMMA FenceContext ==
  ASSUME LooseType, NEW s \in Sems, NEW c \in Ctxs \cup {NoCtx}, SetContext(s, c)
  PROVE  /\ signal_fence' \in [Sems -> FenceType]
         /\ signal_fence'[s] =
               [context |-> c, ring |-> signal_fence[s].ring, fence |-> signal_fence[s].fence]
         /\ \A p \in Sems \ {s} : signal_fence'[p] = signal_fence[p]
<1>1. /\ signal_fence \in [Sems -> FenceType]
      /\ signal_fence' = [signal_fence EXCEPT ![s] = [signal_fence[s] EXCEPT !.context = c]]
  BY DEF LooseType, SetContext
<1>2. signal_fence[s] \in FenceType
  BY <1>1
<1>3. [signal_fence[s] EXCEPT !.context = c] =
         [context |-> c, ring |-> signal_fence[s].ring, fence |-> signal_fence[s].fence]
  BY <1>2 DEF FenceType
<1>4. [context |-> c, ring |-> signal_fence[s].ring, fence |-> signal_fence[s].fence] \in FenceType
  BY <1>2 DEF FenceType
<1> QED
  BY <1>1, <1>3, <1>4

(* What a new call is. *)
Fresh(c, r, n) == [NoCall EXCEPT !.context = c, !.ring = r, !.sem = n]

FreshSubmission(c, r, n, X) ==
    [NoCall EXCEPT !.context = c, !.ring = r, !.sem = n, !.expected = X]

(* A new call, its fields set one by one. *)
LEMMA NewCall ==
  ASSUME NEW c \in Ctxs, NEW r \in Rings, NEW n \in Nodes \cup {NoNode}
  PROVE  /\ Fresh(c, r, n) = [context |-> c, ring |-> r, sem |-> n, tmp |-> NoNode,
                              dependencies |-> {}, seq_no |-> 0, expected |-> {}]
         /\ Fresh(c, r, n) \in CallType
<1> DEFINE x == [NoCall EXCEPT !.context = c]
           y == [x EXCEPT !.ring = r]
           z == [y EXCEPT !.sem = n]
<1>1. Fresh(c, r, n) = z
  BY Zenon DEF Fresh
<1>2. x = [context |-> c, ring |-> 0, sem |-> NoNode, tmp |-> NoNode,
           dependencies |-> {}, seq_no |-> 0, expected |-> {}]
  BY DEF NoCall
<1> HIDE DEF x
<1>3. y = [context |-> c, ring |-> r, sem |-> NoNode, tmp |-> NoNode,
           dependencies |-> {}, seq_no |-> 0, expected |-> {}]
  BY <1>2
<1> HIDE DEF y
<1>4. z = [context |-> c, ring |-> r, sem |-> n, tmp |-> NoNode,
           dependencies |-> {}, seq_no |-> 0, expected |-> {}]
  BY <1>3
<1> HIDE DEF z
<1>5. [context |-> c, ring |-> r, sem |-> n, tmp |-> NoNode,
       dependencies |-> {}, seq_no |-> 0, expected |-> {}] \in CallType
  BY CsContextAssumption DEF CallType, Rings
<1> QED
  BY <1>1, <1>4, <1>5

(* A new submission: what it is expected to pass on as well. *)
LEMMA NewSubmission ==
  ASSUME NEW c \in Ctxs, NEW r \in Rings, NEW n \in Nodes \cup {NoNode},
         NEW X \in SUBSET FenceType
  PROVE  /\ FreshSubmission(c, r, n, X) =
               [context |-> c, ring |-> r, sem |-> n, tmp |-> NoNode,
                dependencies |-> {}, seq_no |-> 0, expected |-> X]
         /\ FreshSubmission(c, r, n, X) \in CallType
<1> DEFINE x == Fresh(c, r, n)
           y == [x EXCEPT !.expected = X]
<1>1. FreshSubmission(c, r, n, X) = y
  BY DEF FreshSubmission, Fresh
<1> HIDE DEF x
<1>2. x = [context |-> c, ring |-> r, sem |-> n, tmp |-> NoNode,
           dependencies |-> {}, seq_no |-> 0, expected |-> {}]
  BY NewCall DEF x
<1>3. y = [context |-> c, ring |-> r, sem |-> n, tmp |-> NoNode,
           dependencies |-> {}, seq_no |-> 0, expected |-> X]
  BY <1>2
<1> HIDE DEF y
<1>4. [context |-> c, ring |-> r, sem |-> n, tmp |-> NoNode,
       dependencies |-> {}, seq_no |-> 0, expected |-> X] \in CallType
  BY CsContextAssumption DEF CallType, Rings
<1> QED
  BY <1>1, <1>3, <1>4

(* A call that has copied a dependency. *)
LEMMA CallTakes ==
  ASSUME LooseType, NEW t \in Threads, NEW s \in Sems, TakeDependency(t, s)
  PROVE  /\ call' \in [Threads -> CallType]
         /\ call'[t].context = call[t].context /\ call'[t].ring = call[t].ring
         /\ call'[t].sem = call[t].sem /\ call'[t].tmp = next[s]
         /\ call'[t].dependencies = call[t].dependencies \cup {signal_fence[s]}
         /\ call'[t].expected = call[t].expected
         /\ \A u \in Threads \ {t} : call'[u] = call[u]
<1> DEFINE k == call[t]
           D == k.dependencies \cup {signal_fence[s]}
           x == [k EXCEPT !.dependencies = D]
           y == [x EXCEPT !.tmp = next[s]]
<1>1. /\ call \in [Threads -> CallType]
      /\ call' = [call EXCEPT ![t] = y]
  BY DEF LooseType, TakeDependency
<1>2. k \in CallType /\ next[s] \in Nodes \cup {NoNode} /\ signal_fence[s] \in FenceType
  BY DEF LooseType, Nodes
<1> HIDE DEF k
<1>3. D \in SUBSET FenceType
  BY <1>2 DEF CallType
<1> HIDE DEF D
<1>4. /\ x \in CallType
      /\ x.context = k.context /\ x.ring = k.ring /\ x.sem = k.sem
      /\ x.dependencies = D /\ x.expected = k.expected
  BY <1>2, <1>3 DEF CallType
<1> HIDE DEF x
<1>5. /\ y \in CallType
      /\ y.context = k.context /\ y.ring = k.ring /\ y.sem = k.sem
      /\ y.dependencies = D /\ y.expected = k.expected /\ y.tmp = next[s]
  BY <1>2, <1>4 DEF CallType
<1> HIDE DEF y
<1>6. /\ call' \in [Threads -> CallType]
      /\ call'[t] = y
      /\ \A u \in Threads \ {t} : call'[u] = call[u]
  BY <1>1, <1>5
<1> QED
  BY <1>5, <1>6 DEF k, D

(* The values of the constants' own fences and calls. *)
LEMMA Empties ==
  /\ NoFence \in FenceType /\ NoCall \in CallType
  /\ NoCall.context = NoCtx /\ NoCall.sem = NoNode /\ NoCall.dependencies = {}
  /\ 1 \in Rings /\ NumRings \in Rings
  BY CsContextAssumption DEF NoFence, FenceType, NoCall, CallType, Rings

(* A semaphore is allocated. *)
LEMMA CreateSemaphoreSequence ==
  ASSUME SeqInvariant, NEW t \in Threads, NEW s \in Sems, CreateSemaphore(t, s)
  PROVE  SeqInvariant'
<1> USE CsContextAssumption DEF SeqInvariant
<1>1. /\ refcount' = [refcount EXCEPT ![s] = 1]
      /\ signal_fence' = [signal_fence EXCEPT ![s] = NoFence]
      /\ next' = [next EXCEPT ![s] = NoNode] /\ prev' = [prev EXCEPT ![s] = NoNode]
      /\ handle' = handle \cup {s}
      /\ UNCHANGED <<live, sequence_mutex, last_seq, kernelSeq, waiting, signalled, pc, call>>
  BY DEF CreateSemaphore, At, Goto, Return, Abort, seqVars, listVars, semVars
<1>8. LooseType'
  <2>1. refcount' \in [Sems -> Int]
    BY <1>1 DEF LooseType
  <2>2. signal_fence' \in [Sems -> FenceType]
    BY <1>1, Empties DEF LooseType
  <2>3. next' \in [Nodes -> Nodes \cup {NoNode}]
    BY <1>1 DEF LooseType
  <2>4. prev' \in [Nodes -> Nodes \cup {NoNode}]
    BY <1>1 DEF LooseType
  <2>5. handle' \subseteq Sems
    BY <1>1 DEF LooseType
  <2> QED
    BY <1>1, <2>1, <2>2, <2>3, <2>4, <2>5 DEF LooseType
<1> QED
  BY <1>1, <1>8, StandingStep

(* A semaphore is given up, and freed with its last reference. *)
LEMMA DestroySemaphoreSequence ==
  ASSUME SeqInvariant, NEW t \in Threads, NEW s \in Sems, DestroySemaphore(t, s)
  PROVE  SeqInvariant'
<1> USE CsContextAssumption DEF SeqInvariant
<1>1. /\ handle' = handle \ {s}
      /\ Unreference(s)
      /\ UNCHANGED <<live, sequence_mutex, last_seq, kernelSeq, prev, waiting, signal_fence,
                     signalled, pc, call>>
  BY DEF DestroySemaphore, At, Goto, Return, Abort, seqVars, listVars, semVars
<1>8. LooseType'
  <2>1. refcount' \in [Sems -> Int]
    BY <1>1, ListTypes
  <2>2. next' \in [Nodes -> Nodes \cup {NoNode}]
    BY <1>1, ListTypes
  <2>3. handle' \subseteq Sems
    BY <1>1 DEF LooseType
  <2> QED
    BY <1>1, <2>1, <2>2, <2>3 DEF LooseType
<1> QED
  BY <1>1, <1>8, StandingStep

(* The checks of a signal, before its lock. *)
LEMMA SignalCheckSequence ==
  ASSUME SeqInvariant, NEW t \in Threads, NEW c \in Ctxs, NEW r \in Rings, NEW s \in Sems,
         SignalCheck(t, c, r, s)
  PROVE  SeqInvariant'
<1> USE CsContextAssumption DEF SeqInvariant
<1>1. /\ pc[t] = "idle" /\ pc' = [pc EXCEPT ![t] = "signal"]
      /\ call' = [call EXCEPT ![t] = Fresh(c, r, s)]
      /\ UNCHANGED <<live, sequence_mutex, last_seq, kernelSeq, next, prev, waiting, refcount,
                     signal_fence, handle, signalled>>
  BY DEF SignalCheck, At, Goto, Return, Abort, Fresh, seqVars, listVars, semVars
<1>5. s \in Nodes
  BY DEF Nodes
<1>2. /\ pc'[t] = "signal" /\ call'[t].context = c /\ call'[t].ring = r /\ call'[t].sem = s
      /\ \A u \in Threads \ {t} : pc'[u] = pc[u] /\ call'[u] = call[u]
  BY <1>1, <1>5, NewCall DEF LooseType, Nodes
<1>8. LooseType'
  <2>1. pc' \in [Threads -> Labels]
    BY <1>1 DEF LooseType, Labels
  <2>2. call' \in [Threads -> CallType]
    BY <1>1, <1>5, NewCall DEF LooseType, Nodes
  <2> QED
    BY <1>1, <2>1, <2>2 DEF LooseType
<1> QED
  BY <1>1, <1>2, <1>5, <1>8, QuietStep DEF Holding, Working

(* The checks of a wait, before its lock. *)
LEMMA WaitCheckSequence ==
  ASSUME SeqInvariant, NEW t \in Threads, NEW c \in Ctxs, NEW r \in Rings, NEW s \in Sems,
         WaitCheck(t, c, r, s)
  PROVE  SeqInvariant'
<1> USE CsContextAssumption DEF SeqInvariant
<1>1. /\ pc[t] = "idle" /\ pc' = [pc EXCEPT ![t] = "wait"]
      /\ call' = [call EXCEPT ![t] = Fresh(c, r, s)]
      /\ UNCHANGED <<live, sequence_mutex, last_seq, kernelSeq, next, prev, waiting, refcount,
                     signal_fence, handle, signalled>>
  BY DEF WaitCheck, At, Goto, Return, Abort, Fresh, seqVars, listVars, semVars
<1>5. s \in Nodes
  BY DEF Nodes
<1>2. /\ pc'[t] = "wait" /\ call'[t].context = c /\ call'[t].ring = r /\ call'[t].sem = s
      /\ \A u \in Threads \ {t} : pc'[u] = pc[u] /\ call'[u] = call[u]
  BY <1>1, <1>5, NewCall DEF LooseType, Nodes
<1>8. LooseType'
  <2>1. pc' \in [Threads -> Labels]
    BY <1>1 DEF LooseType, Labels
  <2>2. call' \in [Threads -> CallType]
    BY <1>1, <1>5, NewCall DEF LooseType, Nodes
  <2> QED
    BY <1>1, <2>1, <2>2 DEF LooseType
<1> QED
  BY <1>1, <1>2, <1>5, <1>8, QuietStep DEF Holding, Working

(* A signal takes the mutex of its context. *)
LEMMA SignalLockSequence ==
  ASSUME SeqInvariant, NEW t \in Threads, SignalLock(t)
  PROVE  SeqInvariant'
<1> USE CsContextAssumption DEF SeqInvariant
<1> DEFINE c == call[t].context
<1>1. /\ pc[t] = "signal" /\ pc' = [pc EXCEPT ![t] = "signal_set"]
      /\ sequence_mutex[c] = NoThread /\ sequence_mutex' = [sequence_mutex EXCEPT ![c] = t]
      /\ UNCHANGED <<live, last_seq, kernelSeq, next, prev, waiting, refcount, handle,
                     signalled, call>>
  BY DEF SignalLock, At, Goto, Return, Abort, Lock, seqVars, listVars, semVars
<1>3. SetContext(call[t].sem, c)
  BY DEF SignalLock, At, Goto, Return, Abort, Lock, seqVars, listVars, semVars, SetContext
<1>2. /\ pc'[t] = "signal_set" /\ call'[t] = call[t]
      /\ \A u \in Threads \ {t} : pc'[u] = pc[u] /\ call'[u] = call[u]
  BY <1>1, <1>3 DEF LooseType, NoCall
<1>5. /\ call[t].sem \in Sems /\ call[t] \in CallType
      /\ call[t].context \in Ctxs /\ call[t].ring \in Rings
  BY <1>1 DEF LooseType, ArgumentsSound, Working
<1>7. sequence_mutex'[c] = t /\ \A d \in Ctxs \ {c} : sequence_mutex'[d] = sequence_mutex[d]
  BY <1>1, <1>5 DEF LooseType
<1>8. LooseType'
  <2>1. pc' \in [Threads -> Labels]
    BY <1>1 DEF LooseType, Labels
  <2>2. sequence_mutex' \in [Ctxs -> Threads \cup {NoThread}]
    BY <1>1, <1>5 DEF LooseType
  <2>3. signal_fence' \in [Sems -> FenceType]
    BY <1>3, <1>5, FenceContext DEF LooseType
  <2> QED
    BY <1>1, <2>1, <2>2, <2>3 DEF LooseType
<1>9. ArgumentsSound'
  BY <1>1, <1>2, <1>5 DEF ArgumentsSound, Working
<1>10. MutexHeld'
  BY <1>1, <1>2, <1>5, <1>7 DEF MutexHeld, Holding
<1>11. SequenceSound'
  BY <1>1, <1>2 DEF SequenceSound, Head
<1> QED
  BY <1>8, <1>9, <1>10, <1>11

(* A signal records the submission, takes a reference and unlocks. *)
LEMMA SignalSetSequence ==
  ASSUME SeqInvariant, NEW t \in Threads, SignalSet(t)
  PROVE  SeqInvariant'
<1> USE CsContextAssumption DEF SeqInvariant
<1> DEFINE c == call[t].context
           s == call[t].sem
           r == call[t].ring
           q == last_seq[c, r]
<1>1. /\ pc[t] = "signal_set" /\ pc' = [pc EXCEPT ![t] = "idle"]
      /\ call' = [call EXCEPT ![t] = NoCall]
      /\ sequence_mutex' = [sequence_mutex EXCEPT ![c] = NoThread]
      /\ signalled' = [signalled EXCEPT ![s] = [context |-> c, ring |-> r, fence |-> q]]
      /\ refcount' = [refcount EXCEPT ![s] = @ + 1]
      /\ UNCHANGED <<live, last_seq, kernelSeq, next, prev, waiting, handle>>
  BY DEF SignalSet, At, Goto, Return, Abort, Unlock, seqVars, listVars, semVars
<1>3. SetFence(s, r, q)
  BY DEF SignalSet, At, Goto, Return, Abort, Unlock, seqVars, listVars, semVars, SetFence
<1>2. /\ pc'[t] = "idle" /\ call'[t] = NoCall
      /\ \A u \in Threads \ {t} : pc'[u] = pc[u] /\ call'[u] = call[u]
  BY <1>1, <1>3 DEF LooseType, NoCall
<1>5. /\ call[t].sem \in Sems /\ call[t] \in CallType
      /\ call[t].context \in Ctxs /\ call[t].ring \in Rings
  BY <1>1 DEF LooseType, ArgumentsSound, Working
<1>6. /\ s \in Sems /\ c \in Ctxs /\ r \in 0 .. NumRings /\ q \in 0 .. MaxSeq
      /\ c = call[t].context
  <2>1. /\ call[t].ring \in 1 .. NumRings /\ call[t].ring \in 0 .. NumRings
      /\ <<call[t].context, call[t].ring>> \in Heads
    BY <1>5 DEF Heads, Rings
  <2>2. last_seq[<<call[t].context, call[t].ring>>] \in 0 .. MaxSeq
    BY <2>1 DEF LooseType
  <2> QED
    BY <1>5, <2>1, <2>2
<1> HIDE DEF c, s, r, q
<1>7. sequence_mutex'[c] = NoThread /\ \A d \in Ctxs \ {c} : sequence_mutex'[d] = sequence_mutex[d]
  BY <1>1, <1>6 DEF LooseType
<1>8. LooseType'
  <2>1. pc' \in [Threads -> Labels]
    BY <1>1 DEF LooseType, Labels
  <2>2. call' \in [Threads -> CallType]
    BY <1>1, Empties DEF LooseType
  <2>3. sequence_mutex' \in [Ctxs -> Threads \cup {NoThread}]
    BY <1>1, <1>6 DEF LooseType
  <2>4. signal_fence' \in [Sems -> FenceType]
    BY <1>3, <1>6, FenceSet
  <2>5. signalled' \in [Sems -> FenceType]
    <3>1. [context |-> c, ring |-> r, fence |-> q] \in FenceType
      BY <1>6 DEF FenceType
    <3> QED
      BY <1>1, <3>1 DEF LooseType
  <2>6. refcount' \in [Sems -> Int]
    BY <1>1, <1>6 DEF LooseType
  <2> QED
    BY <1>1, <2>1, <2>2, <2>3, <2>4, <2>5, <2>6 DEF LooseType
<1>9. ArgumentsSound'
  BY <1>1, <1>2, <1>6 DEF ArgumentsSound, Working
<1>10. MutexHeld'
  BY <1>1, <1>2, <1>6, <1>7 DEF MutexHeld, Holding
<1>11. SequenceSound'
  BY <1>1, <1>2 DEF SequenceSound, Head
<1> QED
  BY <1>8, <1>9, <1>10, <1>11

(* A semaphore is put on a wait list. *)
LEMMA WaitAddSequence ==
  ASSUME SeqInvariant, NEW t \in Threads, WaitAdd(t)
  PROVE  SeqInvariant'
<1> USE CsContextAssumption DEF SeqInvariant
<1>1. /\ pc[t] = "wait" /\ pc' = [pc EXCEPT ![t] = "idle"]
      /\ call' = [call EXCEPT ![t] = NoCall]
      /\ ListAdd(call[t].sem, <<call[t].context, call[t].ring>>)
      /\ waiting' = [waiting EXCEPT ![call[t].sem] = <<call[t].context, call[t].ring>>]
      /\ UNCHANGED <<live, sequence_mutex, last_seq, kernelSeq, refcount, signal_fence,
                     handle, signalled>>
  BY DEF WaitAdd, At, Goto, Return, Abort, LockAndUnlock, seqVars, listVars, semVars
<1>2. /\ pc'[t] = "idle" /\ call'[t] = NoCall
      /\ \A u \in Threads \ {t} : pc'[u] = pc[u] /\ call'[u] = call[u]
  BY <1>1 DEF LooseType, NoCall
<1>5. /\ call[t].sem \in Sems /\ call[t] \in CallType
      /\ call[t].context \in Ctxs /\ call[t].ring \in Rings
  BY <1>1 DEF LooseType, ArgumentsSound, Working
<1>6. <<call[t].context, call[t].ring>> \in Heads
  BY <1>5 DEF Heads
<1>8. LooseType'
  <2>1. pc' \in [Threads -> Labels]
    BY <1>1 DEF LooseType, Labels
  <2>2. call' \in [Threads -> CallType]
    BY <1>1, Empties DEF LooseType
  <2>3. next' \in [Nodes -> Nodes \cup {NoNode}]
    BY <1>1, <1>5, <1>6, ListTypes
  <2>4. prev' \in [Nodes -> Nodes \cup {NoNode}]
    BY <1>1, <1>5, <1>6, ListTypes
  <2>5. waiting' \in [Sems -> Heads \cup {NoNode}]
    BY <1>1, <1>6 DEF LooseType
  <2> QED
    BY <1>1, <2>1, <2>2, <2>3, <2>4, <2>5 DEF LooseType
<1> QED
  BY <1>1, <1>2, <1>5, <1>8, QuietStep DEF Holding, Working

(* A submission takes the mutex of its context. *)
LEMMA SubmitLockSequence ==
  ASSUME SeqInvariant, NEW t \in Threads, NEW c \in Ctxs, NEW r \in Rings, SubmitLock(t, c, r)
  PROVE  SeqInvariant'
<1> USE CsContextAssumption DEF SeqInvariant
<1> DEFINE X == {signalled[s] : s \in {s \in Sems : waiting[s] = <<c, r>>}}
<1>1. /\ pc[t] = "idle" /\ pc' = [pc EXCEPT ![t] = "submit"]
      /\ sequence_mutex[c] = NoThread /\ sequence_mutex' = [sequence_mutex EXCEPT ![c] = t]
      /\ call' = [call EXCEPT ![t] =
            FreshSubmission(c, r, next[<<c, r>>], X)]
      /\ UNCHANGED <<live, last_seq, kernelSeq, next, prev, waiting, refcount, signal_fence,
                     handle, signalled>>
  BY DEF SubmitLock, At, Goto, Return, Abort, Lock, FreshSubmission, seqVars, listVars, semVars
<1>5. <<c, r>> \in Heads /\ next[<<c, r>>] \in Nodes \cup {NoNode} /\ X \in SUBSET FenceType
  BY DEF LooseType, Heads, Nodes
<1> HIDE DEF X
<1>7. sequence_mutex'[c] = t /\ \A d \in Ctxs \ {c} : sequence_mutex'[d] = sequence_mutex[d]
  BY <1>1, <1>5 DEF LooseType
<1>2. /\ pc'[t] = "submit" /\ call'[t].context = c /\ call'[t].ring = r
      /\ \A u \in Threads \ {t} : pc'[u] = pc[u] /\ call'[u] = call[u]
  <2>1. FreshSubmission(c, r, next[<<c, r>>], X) =
           [context |-> c, ring |-> r, sem |-> next[<<c, r>>], tmp |-> NoNode,
            dependencies |-> {}, seq_no |-> 0, expected |-> X]
    BY <1>5, NewSubmission
  <2>2. /\ pc'[t] = "submit" /\ call'[t] = FreshSubmission(c, r, next[<<c, r>>], X)
        /\ \A u \in Threads \ {t} : pc'[u] = pc[u] /\ call'[u] = call[u]
    BY <1>1 DEF LooseType
  <2> QED
    BY <2>1, <2>2
<1>8. LooseType'
  <2>1. pc' \in [Threads -> Labels]
    BY <1>1 DEF LooseType, Labels
  <2>2. call' \in [Threads -> CallType]
    BY <1>1, <1>5, NewSubmission DEF LooseType
  <2>3. sequence_mutex' \in [Ctxs -> Threads \cup {NoThread}]
    BY <1>1 DEF LooseType
  <2> QED
    BY <1>1, <2>1, <2>2, <2>3 DEF LooseType
<1>9. ArgumentsSound'
  BY <1>1, <1>2, <1>5 DEF ArgumentsSound, Working
<1>10. MutexHeld'
  BY <1>1, <1>2, <1>5, <1>7 DEF MutexHeld, Holding
<1>11. SequenceSound'
  BY <1>1, <1>2 DEF SequenceSound, Head
<1> QED
  BY <1>8, <1>9, <1>10, <1>11

(* A submission takes the first semaphore off its list. *)
LEMMA SubmitTakeSequence ==
  ASSUME SeqInvariant, NEW t \in Threads, SubmitTake(t)
  PROVE  SeqInvariant'
<1> USE CsContextAssumption DEF SeqInvariant
<1> DEFINE s == call[t].sem
<1>1. /\ pc[t] = "submit" /\ pc' = [pc EXCEPT ![t] = "submit_reset"]
      /\ s \in Sems
      /\ ListDel(s)
      /\ waiting' = [waiting EXCEPT ![s] = NoNode]
      /\ UNCHANGED <<live, sequence_mutex, last_seq, kernelSeq, refcount, handle, signalled>>
  BY DEF SubmitTake, At, Goto, Return, Abort, seqVars, listVars, semVars
<1>3. TakeDependency(t, s)
  BY DEF SubmitTake, At, Goto, Return, Abort, seqVars, listVars, semVars, TakeDependency
<1>4. SetContext(s, NoCtx)
  BY DEF SubmitTake, At, Goto, Return, Abort, seqVars, listVars, semVars, SetContext
<1>2. /\ pc'[t] = "submit_reset" /\ call'[t].context = call[t].context
      /\ call'[t].ring = call[t].ring /\ call'[t].sem = call[t].sem
      /\ \A u \in Threads \ {t} : pc'[u] = pc[u] /\ call'[u] = call[u]
  <2>1. s \in Sems
    BY <1>1
  <2> QED
    BY <1>1, <1>3, <2>1, CallTakes DEF LooseType
<1>5. /\ call[t].sem \in Sems /\ call[t] \in CallType
      /\ call[t].context \in Ctxs /\ call[t].ring \in Rings
  BY <1>1 DEF LooseType, ArgumentsSound, Working
<1>8. LooseType'
  <2>1. pc' \in [Threads -> Labels]
    BY <1>1 DEF LooseType, Labels
  <2>2. call' \in [Threads -> CallType]
    BY <1>3, <1>5, CallTakes
  <2>3. next' \in [Nodes -> Nodes \cup {NoNode}]
    BY <1>1, <1>5, ListTypes
  <2>4. prev' \in [Nodes -> Nodes \cup {NoNode}]
    BY <1>1, <1>5, ListTypes
  <2>5. waiting' \in [Sems -> Heads \cup {NoNode}]
    BY <1>1, <1>5 DEF LooseType
  <2>6. signal_fence' \in [Sems -> FenceType]
    BY <1>4, <1>5, FenceContext DEF LooseType
  <2> QED
    BY <1>1, <2>1, <2>2, <2>3, <2>4, <2>5, <2>6 DEF LooseType
<1> QED
  BY <1>1, <1>2, <1>5, <1>8, QuietStep DEF Holding, Working

(* Its reset is finished, and the reference of the signal dropped. *)
LEMMA SubmitResetSequence ==
  ASSUME SeqInvariant, NEW t \in Threads, SubmitReset(t)
  PROVE  SeqInvariant'
<1> USE CsContextAssumption DEF SeqInvariant
<1> DEFINE s == call[t].sem
<1>1. /\ pc[t] = "submit_reset" /\ pc' = [pc EXCEPT ![t] = "submit"]
      /\ signalled' = [signalled EXCEPT ![s] = NoFence]
      /\ Unreference(s)
      /\ UNCHANGED <<live, sequence_mutex, last_seq, kernelSeq, prev, waiting, handle>>
  BY DEF SubmitReset, At, Goto, Return, Abort, seqVars, listVars, semVars
<1>3. call' = [call EXCEPT ![t].sem = call[t].tmp, ![t].tmp = NoNode]
  BY DEF SubmitReset, At, Goto, Return, Abort, seqVars, listVars, semVars
<1>4. SetFence(s, 0, 0)
  BY DEF SubmitReset, At, Goto, Return, Abort, seqVars, listVars, semVars, SetFence
<1>2. /\ pc'[t] = "submit" /\ call'[t].context = call[t].context /\ call'[t].ring = call[t].ring
      /\ \A u \in Threads \ {t} : pc'[u] = pc[u] /\ call'[u] = call[u]
  BY <1>1, <1>3, <1>4 DEF LooseType, NoCall
<1>5. /\ call[t].sem \in Sems /\ call[t] \in CallType
      /\ call[t].context \in Ctxs /\ call[t].ring \in Rings
  BY <1>1 DEF LooseType, ArgumentsSound, Working
<1>8. LooseType'
  <2>1. pc' \in [Threads -> Labels]
    BY <1>1 DEF LooseType, Labels
  <2>2. call' \in [Threads -> CallType]
    <3>1. call'[t] = [call[t] EXCEPT !.sem = call[t].tmp, !.tmp = NoNode]
      BY <1>3 DEF LooseType
    <3>2. call'[t] \in CallType
      BY <1>5, <3>1 DEF CallType
    <3>3. call' = [u \in Threads |-> call'[u]]
      BY <1>3 DEF LooseType
    <3> QED
      BY <1>2, <3>2, <3>3 DEF LooseType
  <2>3. next' \in [Nodes -> Nodes \cup {NoNode}]
    BY <1>1, <1>5, ListTypes
  <2>4. refcount' \in [Sems -> Int]
    BY <1>1, <1>5, ListTypes
  <2>5. signalled' \in [Sems -> FenceType]
    BY <1>1, Empties DEF LooseType
  <2>6. signal_fence' \in [Sems -> FenceType]
    <3>1. 0 \in 0 .. NumRings /\ 0 \in 0 .. MaxSeq
      OBVIOUS
    <3> QED
      BY <1>4, <1>5, <3>1, FenceSet
  <2> QED
    BY <1>1, <2>1, <2>2, <2>3, <2>4, <2>5, <2>6 DEF LooseType
<1> QED
  BY <1>1, <1>2, <1>5, <1>8, QuietStep DEF Holding, Working

(* The kernel takes the submission and numbers it. *)
LEMMA SubmitKernelSequence ==
  ASSUME SeqInvariant, NEW t \in Threads, SubmitKernel(t)
  PROVE  SeqInvariant'
<1> USE CsContextAssumption DEF SeqInvariant
<1> DEFINE h == Head(t)
<1>1. /\ pc[t] = "submit" /\ pc' = [pc EXCEPT ![t] = "submitted"]
      /\ kernelSeq[h] < MaxSeq /\ kernelSeq' = [kernelSeq EXCEPT ![h] = @ + 1]
      /\ UNCHANGED <<live, sequence_mutex, last_seq, next, prev, waiting, refcount,
                     signal_fence, handle, signalled>>
  BY DEF SubmitKernel, At, Goto, Return, Abort, seqVars, listVars, semVars
<1>3. call' = [call EXCEPT ![t].seq_no = kernelSeq[h] + 1]
  BY DEF SubmitKernel, At, Goto, Return, Abort, seqVars, listVars, semVars
<1>2. /\ pc'[t] = "submitted" /\ call'[t].context = call[t].context
      /\ call'[t].ring = call[t].ring /\ call'[t].seq_no = kernelSeq[h] + 1
      /\ \A u \in Threads \ {t} : pc'[u] = pc[u] /\ call'[u] = call[u]
  BY <1>1, <1>3 DEF LooseType, NoCall
<1>5. call[t] \in CallType /\ call[t].context \in Ctxs /\ call[t].ring \in Rings
  BY <1>1 DEF LooseType, ArgumentsSound
<1>6. /\ h \in Heads /\ kernelSeq[h] + 1 \in 0 .. MaxSeq
      /\ kernelSeq' \in [Heads -> 0 .. MaxSeq]
      /\ kernelSeq'[h] = kernelSeq[h] + 1
      /\ \A g \in Heads \ {h} : kernelSeq'[g] = kernelSeq[g]
  BY <1>1, <1>5 DEF LooseType, Head, Heads
<1>8. LooseType'
  <2>1. pc' \in [Threads -> Labels]
    BY <1>1 DEF LooseType, Labels
  <2>2. call' \in [Threads -> CallType]
    <3>1. call'[t] = [call[t] EXCEPT !.seq_no = kernelSeq[h] + 1]
      BY <1>3 DEF LooseType
    <3>2. call'[t] \in CallType
      BY <1>5, <3>1, <1>6 DEF CallType
    <3>3. call' = [u \in Threads |-> call'[u]]
      BY <1>3 DEF LooseType
    <3> QED
      BY <1>2, <3>2, <3>3 DEF LooseType
  <2>3. kernelSeq' \in [Heads -> 0 .. MaxSeq]
    BY <1>6
  <2> QED
    BY <1>1, <2>1, <2>2, <2>3 DEF LooseType
<1>9. ArgumentsSound'
  BY <1>1, <1>2, <1>5 DEF ArgumentsSound, Working
<1>10. MutexHeld'
  BY <1>1, <1>2, <1>5 DEF MutexHeld, Holding
<1>11. SequenceSound'
  <2>1. Head(t)' = h
    BY <1>2 DEF Head
  <2>2. \A u \in Threads \ {t} : Head(u)' = Head(u)
    BY <1>2 DEF Head
  <2>3. \A u \in Threads \ {t} : pc[u] = "submitted" => Head(u) # h /\ Head(u) \in Heads
    BY <1>1, <1>5 DEF MutexHeld, Holding, Head, ArgumentsSound, Heads
  <2>4. ASSUME NEW g \in Heads, \A u \in Threads : pc'[u] = "submitted" => Head(u)' # g
        PROVE  last_seq[g] = kernelSeq'[g]
    <3>1. g # h
      BY <1>2, <2>1, <2>4
    <3>2. \A u \in Threads : pc[u] = "submitted" => Head(u) # g
      BY <1>1, <1>2, <2>2, <2>4
    <3> QED
      BY <1>6, <3>1, <3>2 DEF SequenceSound
  <2>5. ASSUME NEW u \in Threads, pc'[u] = "submitted"
        PROVE  call'[u].seq_no = kernelSeq'[Head(u)']
    <3>1. CASE u = t
      BY <1>2, <1>6, <2>1, <3>1
    <3>2. CASE u # t
      BY <1>2, <1>6, <2>2, <2>3, <2>5, <3>2 DEF SequenceSound
    <3> QED
      BY <3>1, <3>2
  <2> QED
    BY <1>1, <2>4, <2>5 DEF SequenceSound
<1> QED
  BY <1>8, <1>9, <1>10, <1>11

(* The kernel refuses the submission. *)
LEMMA SubmitFailsSequence ==
  ASSUME SeqInvariant, NEW t \in Threads, SubmitFails(t)
  PROVE  SeqInvariant'
<1> USE CsContextAssumption DEF SeqInvariant
<1> DEFINE c == call[t].context
<1>1. /\ pc[t] = "submit" /\ pc' = [pc EXCEPT ![t] = "idle"]
      /\ call' = [call EXCEPT ![t] = NoCall]
      /\ sequence_mutex' = [sequence_mutex EXCEPT ![c] = NoThread]
      /\ UNCHANGED <<live, last_seq, kernelSeq, next, prev, waiting, refcount, signal_fence,
                     handle, signalled>>
  BY DEF SubmitFails, At, Goto, Return, Abort, Unlock, seqVars, listVars, semVars
<1>2. /\ pc'[t] = "idle" /\ call'[t] = NoCall
      /\ \A u \in Threads \ {t} : pc'[u] = pc[u] /\ call'[u] = call[u]
  BY <1>1 DEF LooseType, NoCall
<1>5. call[t] \in CallType /\ call[t].context \in Ctxs /\ call[t].ring \in Rings
  BY <1>1 DEF LooseType, ArgumentsSound
<1>7. sequence_mutex'[c] = NoThread /\ \A d \in Ctxs \ {c} : sequence_mutex'[d] = sequence_mutex[d]
  BY <1>1, <1>5 DEF LooseType
<1>8. LooseType'
  <2>1. pc' \in [Threads -> Labels]
    BY <1>1 DEF LooseType, Labels
  <2>2. call' \in [Threads -> CallType]
    BY <1>1, Empties DEF LooseType
  <2>3. sequence_mutex' \in [Ctxs -> Threads \cup {NoThread}]
    BY <1>1, <1>5 DEF LooseType
  <2> QED
    BY <1>1, <2>1, <2>2, <2>3 DEF LooseType
<1>9. ArgumentsSound'
  BY <1>1, <1>2, <1>5 DEF ArgumentsSound, Working
<1>10. MutexHeld'
  BY <1>1, <1>2, <1>5, <1>7 DEF MutexHeld, Holding
<1>11. SequenceSound'
  BY <1>1, <1>2 DEF SequenceSound, Head
<1> QED
  BY <1>8, <1>9, <1>10, <1>11

(* The sequence number is noted before the mutex is let go. *)
LEMMA SubmitReturnSequence ==
  ASSUME SeqInvariant, NEW t \in Threads, SubmitReturn(t)
  PROVE  SeqInvariant'
<1> USE CsContextAssumption DEF SeqInvariant
<1> DEFINE c == call[t].context
           h == Head(t)
<1>1. /\ pc[t] = "submitted" /\ pc' = [pc EXCEPT ![t] = "idle"]
      /\ call' = [call EXCEPT ![t] = NoCall]
      /\ sequence_mutex' = [sequence_mutex EXCEPT ![c] = NoThread]
      /\ last_seq' = [last_seq EXCEPT ![h] = call[t].seq_no]
      /\ UNCHANGED <<live, kernelSeq, next, prev, waiting, refcount, signal_fence, handle,
                     signalled>>
  BY DEF SubmitReturn, At, Goto, Return, Abort, Unlock, seqVars, listVars, semVars
<1>2. /\ pc'[t] = "idle" /\ call'[t] = NoCall
      /\ \A u \in Threads \ {t} : pc'[u] = pc[u] /\ call'[u] = call[u]
  BY <1>1 DEF LooseType, NoCall
<1>5. call[t] \in CallType /\ call[t].context \in Ctxs /\ call[t].ring \in Rings
  BY <1>1 DEF LooseType, ArgumentsSound
<1>6. /\ h \in Heads
      /\ last_seq' \in [Heads -> 0 .. MaxSeq]
      /\ last_seq'[h] = kernelSeq[h]
      /\ \A g \in Heads \ {h} : last_seq'[g] = last_seq[g]
  <2>1. h \in Heads /\ call[t].seq_no \in 0 .. MaxSeq
    BY <1>5 DEF Head, Heads, CallType
  <2> QED
    BY <1>1, <2>1 DEF LooseType, SequenceSound
<1>7. sequence_mutex'[c] = NoThread /\ \A d \in Ctxs \ {c} : sequence_mutex'[d] = sequence_mutex[d]
  BY <1>1, <1>5 DEF LooseType
<1>8. LooseType'
  <2>1. pc' \in [Threads -> Labels]
    BY <1>1 DEF LooseType, Labels
  <2>2. call' \in [Threads -> CallType]
    BY <1>1, Empties DEF LooseType
  <2>3. sequence_mutex' \in [Ctxs -> Threads \cup {NoThread}]
    BY <1>1, <1>5 DEF LooseType
  <2>4. last_seq' \in [Heads -> 0 .. MaxSeq]
    BY <1>6
  <2> QED
    BY <1>1, <2>1, <2>2, <2>3, <2>4 DEF LooseType
<1>9. ArgumentsSound'
  BY <1>1, <1>2, <1>5 DEF ArgumentsSound, Working
<1>10. MutexHeld'
  BY <1>1, <1>2, <1>5, <1>7 DEF MutexHeld, Holding
<1>11. SequenceSound'
  <2>1. \A u \in Threads \ {t} : Head(u)' = Head(u)
    BY <1>2 DEF Head
  <2>2. ASSUME NEW g \in Heads, \A u \in Threads : pc'[u] = "submitted" => Head(u)' # g
        PROVE  last_seq'[g] = kernelSeq[g]
    <3>1. CASE g = h
      BY <1>6, <3>1
    <3>2. CASE g # h
      BY <1>2, <1>6, <2>1, <2>2, <3>2 DEF SequenceSound
    <3> QED
      BY <3>1, <3>2
  <2> QED
    BY <1>1, <1>2, <2>1, <2>2 DEF SequenceSound
<1> QED
  BY <1>8, <1>9, <1>10, <1>11

(* A new context: nobody works with it, its numbers start again. *)
LEMMA CtxCreateSequence ==
  ASSUME SeqInvariant, NEW t \in Threads, NEW c \in Ctxs, CtxCreate(t, c)
  PROVE  SeqInvariant'
<1> USE CsContextAssumption DEF SeqInvariant
<1>1. /\ \A u \in Threads : call[u].context # c
      /\ live' = live \cup {c}
      /\ last_seq' = [h \in Heads |-> IF h[1] = c THEN 0 ELSE last_seq[h]]
      /\ kernelSeq' = [h \in Heads |-> IF h[1] = c THEN 0 ELSE kernelSeq[h]]
      /\ next' = [n \in Nodes |-> IF n \in {c} \X Rings THEN n ELSE next[n]]
      /\ prev' = [n \in Nodes |-> IF n \in {c} \X Rings THEN n ELSE prev[n]]
      /\ UNCHANGED <<sequence_mutex, waiting, refcount, signal_fence, handle, signalled, pc,
                     call>>
  BY DEF CtxCreate, At, Goto, Return, Abort, seqVars, listVars, semVars
<1>8. LooseType'
  <2>1. live' \subseteq Ctxs
    BY <1>1 DEF LooseType
  <2>2. last_seq' \in [Heads -> 0 .. MaxSeq]
    BY <1>1 DEF LooseType
  <2>3. kernelSeq' \in [Heads -> 0 .. MaxSeq]
    BY <1>1 DEF LooseType
  <2>4. next' \in [Nodes -> Nodes \cup {NoNode}]
    BY <1>1 DEF LooseType
  <2>5. prev' \in [Nodes -> Nodes \cup {NoNode}]
    BY <1>1 DEF LooseType
  <2> QED
    BY <1>1, <2>1, <2>2, <2>3, <2>4, <2>5 DEF LooseType
<1>9. ArgumentsSound'
  BY <1>1 DEF ArgumentsSound, Working
<1>10. MutexHeld'
  BY <1>1 DEF MutexHeld, Holding
<1>11. SequenceSound'
  <2>1. \A u \in Threads : Head(u)' = Head(u) /\ Head(u)[1] # c
    BY <1>1 DEF Head
  <2>2. \A h \in Heads :
           /\ h[1] = c => last_seq'[h] = 0 /\ kernelSeq'[h] = 0
           /\ h[1] # c => last_seq'[h] = last_seq[h] /\ kernelSeq'[h] = kernelSeq[h]
    BY <1>1
  <2>3. \A u \in Threads : pc[u] # "idle" => Head(u) \in Heads
    BY DEF ArgumentsSound, Head, Heads
  <2> QED
    BY <1>1, <2>1, <2>2, <2>3 DEF SequenceSound
<1> QED
  BY <1>8, <1>9, <1>10, <1>11

(* A context starts to be freed. *)
LEMMA CtxFreeSequence ==
  ASSUME SeqInvariant, NEW t \in Threads, NEW c \in Ctxs, CtxFree(t, c)
  PROVE  SeqInvariant'
<1> USE CsContextAssumption DEF SeqInvariant
<1>1. /\ pc[t] = "idle" /\ pc' = [pc EXCEPT ![t] = "ctx_free"]
      /\ live' = live \ {c}
      /\ call' = [call EXCEPT ![t] = Fresh(c, 1, next[<<c, 1>>])]
      /\ UNCHANGED <<sequence_mutex, last_seq, kernelSeq, next, prev, waiting, refcount,
                     signal_fence, handle, signalled>>
  BY DEF CtxFree, At, Goto, Return, Abort, Fresh, seqVars, listVars, semVars
<1>5. 1 \in Rings /\ next[<<c, 1>>] \in Nodes \cup {NoNode}
  BY Empties DEF LooseType, Heads, Nodes
<1>2. /\ pc'[t] = "ctx_free" /\ call'[t].context = c /\ call'[t].ring = 1
      /\ \A u \in Threads \ {t} : pc'[u] = pc[u] /\ call'[u] = call[u]
  BY <1>1, <1>5, NewCall DEF LooseType
<1>8. LooseType'
  <2>1. live' \subseteq Ctxs
    BY <1>1 DEF LooseType
  <2>2. pc' \in [Threads -> Labels]
    BY <1>1 DEF LooseType, Labels
  <2>3. call' \in [Threads -> CallType]
    BY <1>1, <1>5, NewCall DEF LooseType
  <2> QED
    BY <1>1, <2>1, <2>2, <2>3 DEF LooseType
<1> QED
  BY <1>1, <1>2, <1>5, <1>8, QuietStep DEF Holding, Working

(* A semaphore is taken off a list of the context. *)
LEMMA CtxFreeTakeSequence ==
  ASSUME SeqInvariant, NEW t \in Threads, CtxFreeTake(t)
  PROVE  SeqInvariant'
<1> USE CsContextAssumption DEF SeqInvariant
<1> DEFINE s == call[t].sem
<1>1. /\ pc[t] = "ctx_free" /\ pc' = [pc EXCEPT ![t] = "ctx_reset"]
      /\ s \in Sems
      /\ ListDel(s)
      /\ waiting' = [waiting EXCEPT ![s] = NoNode]
      /\ UNCHANGED <<live, sequence_mutex, last_seq, kernelSeq, refcount, handle, signalled,
                     call>>
  BY DEF CtxFreeTake, At, Goto, Return, Abort, seqVars, listVars, semVars
<1>3. SetContext(s, NoCtx)
  BY DEF CtxFreeTake, At, Goto, Return, Abort, seqVars, listVars, semVars, SetContext
<1>2. /\ pc'[t] = "ctx_reset" /\ call'[t] = call[t]
      /\ \A u \in Threads \ {t} : pc'[u] = pc[u] /\ call'[u] = call[u]
  BY <1>1, <1>3 DEF LooseType, NoCall
<1>5. /\ call[t].sem \in Sems /\ call[t] \in CallType
      /\ call[t].context \in Ctxs /\ call[t].ring \in Rings
  BY <1>1 DEF LooseType, ArgumentsSound, Working
<1>8. LooseType'
  <2>1. pc' \in [Threads -> Labels]
    BY <1>1 DEF LooseType, Labels
  <2>2. next' \in [Nodes -> Nodes \cup {NoNode}]
    BY <1>1, <1>5, ListTypes
  <2>3. prev' \in [Nodes -> Nodes \cup {NoNode}]
    BY <1>1, <1>5, ListTypes
  <2>4. waiting' \in [Sems -> Heads \cup {NoNode}]
    BY <1>1, <1>5 DEF LooseType
  <2>5. signal_fence' \in [Sems -> FenceType]
    BY <1>3, <1>5, FenceContext DEF LooseType
  <2> QED
    BY <1>1, <2>1, <2>2, <2>3, <2>4, <2>5 DEF LooseType
<1> QED
  BY <1>1, <1>2, <1>5, <1>8, QuietStep DEF Holding, Working

(* Its reset is finished, and its reference dropped, or the assertion fails. *)
LEMMA CtxFreeResetSequence ==
  ASSUME SeqInvariant, NEW t \in Threads, CtxFreeReset(t)
  PROVE  SeqInvariant'
<1> USE CsContextAssumption DEF SeqInvariant
<1> DEFINE s == call[t].sem
<1>1. /\ pc[t] = "ctx_reset"
      /\ \/ Unreference(s) /\ pc' = [pc EXCEPT ![t] = "ctx_next"]
         \/ UNCHANGED <<refcount, next>> /\ pc' = [pc EXCEPT ![t] = "aborted"]
      /\ signalled' = [signalled EXCEPT ![s] = NoFence]
      /\ UNCHANGED <<live, sequence_mutex, last_seq, kernelSeq, prev, waiting, handle, call>>
  BY DEF CtxFreeReset, At, Goto, Return, Abort, seqVars, listVars, semVars
<1>3. SetFence(s, 0, 0)
  BY DEF CtxFreeReset, At, Goto, Return, Abort, seqVars, listVars, semVars, SetFence
<1>2. /\ pc'[t] \in {"ctx_next", "aborted"} /\ call'[t] = call[t]
      /\ \A u \in Threads \ {t} : pc'[u] = pc[u] /\ call'[u] = call[u]
  BY <1>1, <1>3 DEF LooseType, NoCall
<1>5. /\ call[t].sem \in Sems /\ call[t] \in CallType
      /\ call[t].context \in Ctxs /\ call[t].ring \in Rings
  BY <1>1 DEF LooseType, ArgumentsSound, Working
<1>7. /\ next' \in [Nodes -> Nodes \cup {NoNode}]
      /\ refcount' \in [Sems -> Int]
  <2>1. CASE Unreference(s)
    BY <1>5, <2>1, ListTypes
  <2>2. CASE UNCHANGED <<refcount, next>>
    BY <2>2 DEF LooseType
  <2> QED
    BY <1>1, <2>1, <2>2
<1>8. LooseType'
  <2>1. pc' \in [Threads -> Labels]
    BY <1>1 DEF LooseType, Labels
  <2>2. next' \in [Nodes -> Nodes \cup {NoNode}]
    BY <1>7
  <2>3. refcount' \in [Sems -> Int]
    BY <1>7
  <2>4. signalled' \in [Sems -> FenceType]
    BY <1>1, Empties DEF LooseType
  <2>5. signal_fence' \in [Sems -> FenceType]
    <3>1. 0 \in 0 .. NumRings /\ 0 \in 0 .. MaxSeq
      OBVIOUS
    <3> QED
      BY <1>3, <1>5, <3>1, FenceSet
  <2> QED
    BY <1>1, <2>1, <2>2, <2>3, <2>4, <2>5 DEF LooseType
<1> QED
  BY <1>1, <1>2, <1>5, <1>8, QuietStep DEF Holding, Working

(* The loop goes on, or reads a wild pointer. *)
LEMMA CtxFreeNextSequence ==
  ASSUME SeqInvariant, NEW t \in Threads, CtxFreeNext(t)
  PROVE  SeqInvariant'
<1> USE CsContextAssumption DEF SeqInvariant
<1>1. /\ pc[t] = "ctx_next"
      /\ UNCHANGED <<live, sequence_mutex, last_seq, kernelSeq, next, prev, waiting, refcount,
                     signal_fence, handle, signalled>>
  BY DEF CtxFreeNext, At, Goto, Return, Abort, seqVars, listVars, semVars
<1>3. \/ /\ next[call[t].sem] \in Sems \cup {Head(t)}
         /\ pc' = [pc EXCEPT ![t] = "ctx_free"]
         /\ call' = [call EXCEPT ![t].sem = next[call[t].sem]]
      \/ pc' = [pc EXCEPT ![t] = "aborted"] /\ UNCHANGED call
  BY DEF CtxFreeNext, At, Goto, Return, Abort, seqVars, listVars, semVars
<1>2. /\ pc'[t] \in {"ctx_free", "aborted"} /\ call'[t].context = call[t].context
      /\ call'[t].ring = call[t].ring
      /\ \A u \in Threads \ {t} : pc'[u] = pc[u] /\ call'[u] = call[u]
  <2>1. CASE pc' = [pc EXCEPT ![t] = "aborted"] /\ UNCHANGED call
    BY <2>1 DEF LooseType
  <2>2. CASE /\ pc' = [pc EXCEPT ![t] = "ctx_free"]
             /\ call' = [call EXCEPT ![t].sem = next[call[t].sem]]
    BY <2>2 DEF LooseType
  <2> QED
    BY <1>3, <2>1, <2>2
<1>5. call[t] \in CallType /\ call[t].context \in Ctxs /\ call[t].ring \in Rings
  BY <1>1 DEF LooseType, ArgumentsSound
<1>8. LooseType'
  <2>1. pc' \in [Threads -> Labels]
    BY <1>3 DEF LooseType, Labels
  <2>2. call' \in [Threads -> CallType]
    <3>1. CASE UNCHANGED call
      BY <3>1 DEF LooseType
    <3>2. CASE /\ next[call[t].sem] \in Sems \cup {Head(t)}
               /\ call' = [call EXCEPT ![t].sem = next[call[t].sem]]
      <4>1. call'[t] = [call[t] EXCEPT !.sem = next[call[t].sem]]
        BY <3>2 DEF LooseType
      <4>2. next[call[t].sem] \in Nodes
        BY <1>5, <3>2 DEF Head, Heads, Nodes
      <4>3. call'[t] \in CallType
        BY <1>5, <4>1, <4>2 DEF CallType
      <4>4. call' = [u \in Threads |-> call'[u]]
        BY <3>2 DEF LooseType
      <4> QED
        BY <1>2, <4>3, <4>4 DEF LooseType
    <3> QED
      BY <1>3, <3>1, <3>2
  <2> QED
    BY <1>1, <2>1, <2>2 DEF LooseType
<1> QED
  BY <1>1, <1>2, <1>5, <1>8, QuietStep DEF Holding, Working

(* The next list of the context. *)
LEMMA CtxFreeRingSequence ==
  ASSUME SeqInvariant, NEW t \in Threads, CtxFreeRing(t)
  PROVE  SeqInvariant'
<1> USE CsContextAssumption DEF SeqInvariant
<1> DEFINE r == call[t].ring + 1
<1>1. /\ pc[t] = "ctx_free" /\ r \in Rings
      /\ UNCHANGED <<live, sequence_mutex, last_seq, kernelSeq, next, prev, waiting, refcount,
                     signal_fence, handle, signalled, pc>>
  BY DEF CtxFreeRing, At, Goto, Return, Abort, seqVars, listVars, semVars
<1>3. call' = [call EXCEPT ![t].ring = r, ![t].sem = next[<<call[t].context, r>>]]
  BY DEF CtxFreeRing, At, Goto, Return, Abort, seqVars, listVars, semVars
<1>2. /\ pc'[t] = "ctx_free" /\ call'[t].context = call[t].context /\ call'[t].ring = r
      /\ \A u \in Threads \ {t} : pc'[u] = pc[u] /\ call'[u] = call[u]
  BY <1>1, <1>3 DEF LooseType, NoCall
<1>5. call[t] \in CallType /\ call[t].context \in Ctxs /\ call[t].ring \in Rings
  BY <1>1 DEF LooseType, ArgumentsSound
<1>6. r \in 0 .. NumRings /\ next[<<call[t].context, r>>] \in Nodes \cup {NoNode}
  BY <1>1, <1>5 DEF LooseType, Heads, Nodes, Rings
<1>8. LooseType'
  <2>1. call' \in [Threads -> CallType]
    <3>1. call'[t] = [call[t] EXCEPT !.ring = r, !.sem = next[<<call[t].context, r>>]]
      BY <1>3 DEF LooseType
    <3>2. call'[t] \in CallType
      BY <1>5, <3>1, <1>6 DEF CallType
    <3>3. call' = [u \in Threads |-> call'[u]]
      BY <1>3 DEF LooseType
    <3> QED
      BY <1>2, <3>2, <3>3 DEF LooseType
  <2> QED
    BY <1>1, <2>1 DEF LooseType
<1> QED
  BY <1>1, <1>2, <1>5, <1>8, QuietStep DEF Holding, Working

(* The context is gone. *)
LEMMA CtxFreeReturnSequence ==
  ASSUME SeqInvariant, NEW t \in Threads, CtxFreeReturn(t)
  PROVE  SeqInvariant'
<1> USE CsContextAssumption DEF SeqInvariant
<1>1. /\ pc[t] = "ctx_free" /\ pc' = [pc EXCEPT ![t] = "idle"]
      /\ call' = [call EXCEPT ![t] = NoCall]
      /\ UNCHANGED <<live, sequence_mutex, last_seq, kernelSeq, next, prev, waiting, refcount,
                     signal_fence, handle, signalled>>
  BY DEF CtxFreeReturn, At, Goto, Return, Abort, seqVars, listVars, semVars
<1>2. /\ pc'[t] = "idle" /\ call'[t] = NoCall
      /\ \A u \in Threads \ {t} : pc'[u] = pc[u] /\ call'[u] = call[u]
  BY <1>1 DEF LooseType, NoCall
<1>5. call[t] \in CallType /\ call[t].context \in Ctxs /\ call[t].ring \in Rings
  BY <1>1 DEF LooseType, ArgumentsSound
<1>8. LooseType'
  <2>1. pc' \in [Threads -> Labels]
    BY <1>1 DEF LooseType, Labels
  <2>2. call' \in [Threads -> CallType]
    BY <1>1, Empties DEF LooseType
  <2> QED
    BY <1>1, <2>1, <2>2 DEF LooseType
<1> QED
  BY <1>1, <1>2, <1>5, <1>8, QuietStep DEF Holding, Working

(* Nobody has a lock before the first call. *)
LEMMA InitialSequence == Init => SeqInvariant
<1> SUFFICES ASSUME Init PROVE SeqInvariant
  OBVIOUS
<1> USE CsContextAssumption, Empties
<1>1. LooseType
  BY DEF Init, LooseType, Labels
<1>2. ArgumentsSound
  BY DEF Init, ArgumentsSound, Working
<1>3. MutexHeld
  BY DEF Init, MutexHeld, Holding
<1>4. SequenceSound
  BY DEF Init, SequenceSound
<1> QED
  BY <1>1, <1>2, <1>3, <1>4 DEF SeqInvariant

(* A step that changes nothing. *)
LEMMA StutterSequence ==
  ASSUME SeqInvariant, UNCHANGED vars
  PROVE  SeqInvariant'
<1>1. UNCHANGED <<live, sequence_mutex, last_seq, kernelSeq, next, prev, waiting,
                  refcount, signal_fence, handle, signalled, pc, call>>
  BY DEF vars, seqVars, listVars, semVars
<1>2. LooseType'
  BY <1>1 DEF SeqInvariant, LooseType
<1> QED
  BY <1>1, <1>2, StandingStep

(* Every step keeps the mutexes and the sequence numbers. *)
LEMMA StepSequence == SeqInvariant /\ [Next]_vars => SeqInvariant'
<1> SUFFICES ASSUME SeqInvariant, [Next]_vars PROVE SeqInvariant'
  OBVIOUS
<1>1. CASE UNCHANGED vars
  BY <1>1, StutterSequence
<1>2. ASSUME NEW t \in Threads, Begin(t)
      PROVE  SeqInvariant'
  <2>1. CASE \E s \in Sems : CreateSemaphore(t, s)
    BY <2>1, CreateSemaphoreSequence
  <2>2. CASE \E s \in Sems : DestroySemaphore(t, s)
    BY <2>2, DestroySemaphoreSequence
  <2>3. CASE \E c \in Ctxs, r \in Rings, s \in Sems : SignalCheck(t, c, r, s)
    BY <2>3, SignalCheckSequence
  <2>4. CASE \E c \in Ctxs, r \in Rings, s \in Sems : WaitCheck(t, c, r, s)
    BY <2>4, WaitCheckSequence
  <2>5. CASE \E c \in Ctxs, r \in Rings : SubmitLock(t, c, r)
    BY <2>5, SubmitLockSequence
  <2>6. CASE \E c \in Ctxs : CtxCreate(t, c)
    BY <2>6, CtxCreateSequence
  <2>7. CASE \E c \in Ctxs : CtxFree(t, c)
    BY <2>7, CtxFreeSequence
  <2> QED
    BY <1>2, <2>1, <2>2, <2>3, <2>4, <2>5, <2>6, <2>7 DEF Begin
<1>3. ASSUME NEW t \in Threads, Proceed(t)
      PROVE  SeqInvariant'
  BY <1>3, SignalLockSequence, SignalSetSequence, WaitAddSequence, SubmitTakeSequence,
     SubmitResetSequence, SubmitKernelSequence, SubmitFailsSequence, SubmitReturnSequence,
     CtxFreeTakeSequence, CtxFreeResetSequence, CtxFreeNextSequence, CtxFreeRingSequence,
     CtxFreeReturnSequence DEF Proceed
<1> QED
  BY <1>1, <1>2, <1>3 DEF Next

(* They hold in every reachable state. *)
LEMMA SequenceAlways == Spec => []SeqInvariant
  BY InitialSequence, StepSequence, PTL DEF Spec

(* When nobody holds a context's mutex, the sequence numbers a signal would *)
(* record are those of the rings' last submissions: amdgpu_cs_submit_one    *)
(* notes the number before it unlocks, whatever else clients do wrong.      *)
THEOREM SequenceNumbersCurrent == Spec => []SequenceCurrent
<1>1. SeqInvariant => SequenceCurrent
  <2> SUFFICES ASSUME SeqInvariant, NEW h \in live \X Rings, sequence_mutex[h[1]] = NoThread
               PROVE  last_seq[h] = kernelSeq[h]
    BY DEF SequenceCurrent
  <2>1. h \in Heads /\ h[1] \in Ctxs
    BY DEF SeqInvariant, LooseType, Heads
  <2>2. ASSUME NEW t \in Threads, pc[t] = "submitted"
        PROVE  Head(t) # h
    <3>1. call[t].context # h[1]
      BY <2>1, <2>2, CsContextAssumption DEF SeqInvariant, MutexHeld, Holding
    <3> QED
      BY <3>1 DEF Head
  <2> QED
    BY <2>1, <2>2 DEF SeqInvariant, SequenceSound
<1> QED
  BY <1>1, SequenceAlways, PTL

-----------------------------------------------------------------------------
(* What a call works on exists, and its context belongs to it. *)
CallsSound ==
    \A t \in Threads :
       /\ pc[t] # "aborted"
       /\ pc[t] = "idle" => call[t] = NoCall
       /\ Signalling(t) \/ Submitting(t) => call[t].context \in live /\ call[t].ring \in Rings
       /\ FreeingCtx(t) => call[t].context \in Ctxs \ live /\ call[t].ring \in Rings

ContextsApart ==
    \A t, u \in Threads : FreeingCtx(t) /\ call[u].context = call[t].context => t = u

SignallersSound ==
    \A t \in Threads :
       LET s == call[t].sem IN
       /\ Signalling(t) => s \in handle /\ waiting[s] = NoNode
       /\ pc[t] = "signal" => signal_fence[s].context = NoCtx
       /\ pc[t] = "signal_set" => signal_fence[s].context = call[t].context
       /\ pc[t] = "wait" => signal_fence[s].context # NoCtx

(* A submission is always at the first entry of its list. *)
SubmittersSound ==
    \A t \in Threads :
       LET s == call[t].sem IN
       /\ pc[t] = "submit" => s = next[Head(t)]
       /\ pc[t] = "submit_reset" =>
             /\ s \in Sems /\ waiting[s] = NoNode /\ signal_fence[s].context = NoCtx
             /\ call[t].tmp = next[Head(t)]
       /\ pc[t] = "submitted" => s = Head(t)

(* So is amdgpu_cs_ctx_free, which finds its next entry in the last one.   *)
CtxFreersSound ==
    \A t \in Threads :
       LET s == call[t].sem IN
       /\ pc[t] = "ctx_free" => s = next[Head(t)]
       /\ pc[t] \in {"ctx_reset", "ctx_next"} =>
             /\ s \in handle /\ waiting[s] = NoNode /\ signal_fence[s].context = NoCtx
             /\ next[s] = next[Head(t)]

(* No two calls work on one semaphore. *)
UsersApart ==
    \A t, u \in Threads :
       call[t].sem \in Sems /\ call[u].sem = call[t].sem => t = u

(* One reference for the client, one for the signal. *)
RefsHeld ==
    \A s \in Sems :
       refcount[s] = (IF s \in handle THEN 1 ELSE 0) + (IF Charged(s) THEN 1 ELSE 0)

SignalsSound ==
    \A s \in Sems :
       signal_fence[s].context # NoCtx /\ Settled(s) => signalled[s] = signal_fence[s]

(* A semaphore on a list is signalled; the list is in use, or a thread is  *)
(* yet to empty it.                                                        *)
WaitersSound ==
    \A s \in Sems : waiting[s] # NoNode =>
       /\ signal_fence[s].context # NoCtx
       /\ \/ waiting[s][1] \in live
          \/ s \in handle /\ Emptying(waiting[s])

(* What a submission can still get as a dependency is a submission made to *)
(* a context in use.                                                       *)
FencesSound ==
    \A s \in Sems :
       LET f == signal_fence[s] IN
       /\ f.context # NoCtx
       /\ s \in handle \/ waiting[s] # NoNode
       /\ waiting[s] # NoNode => waiting[s][1] \in live
       => /\ f.context \in live
          /\ Settled(s) => f.ring \in Rings /\ f.fence <= kernelSeq[f.context, f.ring]

LinksSound ==
    \A h \in Heads : Active(h[1]) =>
       \A n \in On(h) :
          /\ next[n] \in On(h) /\ prev[n] \in On(h)
          /\ prev[next[n]] = n /\ next[prev[n]] = n

Ordered ==
    \E pos \in [Sems -> Nat] :
       \A s \in Sems : waiting[s] # NoNode /\ next[s] \in Sems => pos[s] < pos[next[s]]

(* A submission has taken, or has yet to take, every dependency. *)
SubmissionsSound ==
    \A t \in Threads : pc[t] \in {"submit", "submit_reset"} =>
       call[t].expected = call[t].dependencies \cup Awaited(Head(t))

DependenciesSound ==
    \A t \in Threads : \A f \in call[t].dependencies :
       f.context \in live /\ f.ring \in Rings /\ f.fence <= kernelSeq[f.context, f.ring]

CsInvariant ==
    /\ SeqInvariant
    /\ CallsSound /\ ContextsApart
    /\ SignallersSound /\ SubmittersSound /\ CtxFreersSound /\ UsersApart
    /\ RefsHeld /\ SignalsSound /\ WaitersSound /\ FencesSound
    /\ LinksSound /\ Ordered
    /\ SubmissionsSound /\ DependenciesSound

-----------------------------------------------------------------------------
(* Facts about states of the invariant. *)

(* Semaphores and list heads are different nodes. *)
LEMMA NodesApart ==
  /\ \A s \in Sems : s \notin Heads /\ s # NoNode /\ s \in Nodes
  /\ \A h \in Heads : h \notin Sems /\ h # NoNode /\ h \in Nodes /\ h[1] \in Ctxs /\ h[2] \in Rings
                      /\ h = <<h[1], h[2]>>
  BY CsContextAssumption DEF Heads, Rings, Nodes

(* The ring a call works on. *)
LEMMA HeadOfCall ==
  ASSUME CsInvariant, NEW t \in Threads, pc[t] # "idle"
  PROVE  /\ Head(t) \in Heads /\ Head(t)[1] = call[t].context /\ Head(t)[2] = call[t].ring
         /\ call[t].context \in Ctxs /\ call[t].ring \in Rings /\ call[t].context # NoCtx
         /\ Submitting(t) \/ FreeingCtx(t) => Active(call[t].context)
<1>1. call[t].context \in Ctxs /\ call[t].ring \in Rings
  BY DEF CsInvariant, SeqInvariant, ArgumentsSound
<1> QED
  BY <1>1, CsContextAssumption DEF CsInvariant, CallsSound, Head, Heads, Active

(* What the head of a list links to. *)
LEMMA FirstEntry ==
  ASSUME LinksSound, NEW h \in Heads, Active(h[1])
  PROVE  /\ next[h] \in Sems \cup {h}
         /\ next[h] \in Sems => /\ waiting[next[h]] = h /\ prev[next[h]] = h
                                /\ next[next[h]] \in Sems \cup {h}
  BY NodesApart DEF LinksSound, On

(* A semaphore on a list is in nobody's hands, but that a call may be about *)
(* to take it off that very list.                                           *)
LEMMA WaitersUnused ==
  ASSUME CsInvariant, NEW u \in Threads, call[u].sem \in Sems, waiting[call[u].sem] # NoNode
  PROVE  pc[u] \in {"submit", "ctx_free"} /\ waiting[call[u].sem] = Head(u)
<1> USE DEF CsInvariant
<1>1. pc[u] \notin {"idle", "aborted", "signal", "signal_set", "wait", "submit_reset",
                    "ctx_reset", "ctx_next"}
  BY NodesApart, Empties
  DEF CallsSound, SignallersSound, SubmittersSound, CtxFreersSound, Signalling
<1>2. pc[u] # "submitted"
  BY <1>1, NodesApart, HeadOfCall DEF SubmittersSound
<1>3. pc[u] \in {"submit", "ctx_free"}
  BY <1>1, <1>2 DEF SeqInvariant, LooseType, Labels
<1>4. call[u].sem = next[Head(u)] /\ Head(u) \in Heads /\ Active(Head(u)[1])
  BY <1>3, HeadOfCall DEF SubmittersSound, CtxFreersSound, Submitting, FreeingCtx
<1> QED
  BY <1>3, <1>4, FirstEntry

(* A submission has the mutex of its context: no other is at its lists. *)
LEMMA SubmittersApart ==
  ASSUME CsInvariant, NEW t \in Threads, NEW u \in Threads,
         Submitting(t), Submitting(u), call[u].context = call[t].context
  PROVE  t = u
<1>1. call[t].context \in Ctxs
  BY DEF CsInvariant, SeqInvariant, ArgumentsSound, Submitting
<1> QED
  BY <1>1 DEF CsInvariant, SeqInvariant, MutexHeld, Holding, Submitting

(* A list whose head links to itself is empty: the first of its entries    *)
(* would be linked to from a node of the list, which is not an entry.      *)
LEMMA ListEmpty ==
  ASSUME LooseType, LinksSound, Ordered, NEW h \in Heads, Active(h[1]), next[h] = h
  PROVE  \A s \in Sems : waiting[s] # h
<1> SUFFICES ASSUME \E s \in Sems : waiting[s] = h PROVE FALSE
  OBVIOUS
<1> DEFINE W == {s \in Sems : waiting[s] = h}
<1>1. PICK pos \in [Sems -> Nat] :
         \A s \in Sems : waiting[s] # NoNode /\ next[s] \in Sems => pos[s] < pos[next[s]]
  BY DEF Ordered
<1> DEFINE P == {pos[s] : s \in W}
<1>2. P \subseteq Nat /\ P # {}
  BY <1>1
<1>3. \E m \in P : \A k \in P : m <= k
  <2> HIDE DEF P
  <2> QED
    BY <1>2, LeastNumber
<1>4. PICK s \in W : \A p \in W : pos[s] <= pos[p]
  BY <1>3
<1>5. prev[s] \in On(h) /\ next[prev[s]] = s /\ s # h
  BY <1>4, NodesApart DEF LinksSound, On
<1>6. prev[s] \in W
  BY <1>5 DEF On
<1>7. pos[prev[s]] < pos[s]
  BY <1>1, <1>4, <1>5, <1>6, NodesApart
<1> QED
  BY <1>1, <1>4, <1>6, <1>7

(* A step that leaves the links of the lists alone. *)
LEMMA LinksFrame ==
  ASSUME LinksSound, Ordered, UNCHANGED waiting,
         \A c \in Ctxs : Active(c)' => Active(c),
         \A h \in Heads : next'[h] = next[h] /\ prev'[h] = prev[h],
         \A s \in Sems : waiting[s] # NoNode => next'[s] = next[s] /\ prev'[s] = prev[s]
  PROVE  LinksSound' /\ Ordered'
<1>1. \A h \in Heads : On(h)' = On(h)
  BY DEF On
<1>2. LinksSound'
  <2> SUFFICES ASSUME NEW h \in Heads, Active(h[1])', NEW n \in On(h)
               PROVE  /\ next'[n] \in On(h) /\ prev'[n] \in On(h)
                      /\ prev'[next'[n]] = n /\ next'[prev'[n]] = n
    BY <1>1 DEF LinksSound
  <2>1. Active(h[1])
    BY NodesApart
  <2>2. \A m \in On(h) : next'[m] = next[m] /\ prev'[m] = prev[m]
    BY NodesApart DEF On
  <2> QED
    BY <2>1, <2>2 DEF LinksSound
<1>3. Ordered'
  <2>1. PICK pos \in [Sems -> Nat] :
           \A s \in Sems : waiting[s] # NoNode /\ next[s] \in Sems => pos[s] < pos[next[s]]
    BY DEF Ordered
  <2>2. \A s \in Sems : waiting'[s] # NoNode /\ next'[s] \in Sems => pos[s] < pos[next'[s]]
    BY <2>1
  <2> QED
    BY <2>2 DEF Ordered
<1> QED
  BY <1>2, <1>3

(* list_add: the new entry comes first. *)
LEMMA LinksAdded ==
  ASSUME LooseType, LinksSound, Ordered, NEW s \in Sems, NEW h \in Heads, Active(h[1]),
         \A p \in Sems : waiting[p] # NoNode => Active(waiting[p][1]),
         waiting[s] = NoNode, ListAdd(s, h), waiting' = [waiting EXCEPT ![s] = h],
         \A c \in Ctxs : Active(c)' => Active(c)
  PROVE  /\ LinksSound' /\ Ordered'
         /\ \A n \in Nodes \ {s, h} : next'[n] = next[n]
<1> DEFINE f == next[h]
<1>1. /\ next \in [Nodes -> Nodes \cup {NoNode}] /\ prev \in [Nodes -> Nodes \cup {NoNode}]
      /\ waiting \in [Sems -> Heads \cup {NoNode}]
  BY DEF LooseType
<1>2. /\ f \in On(h) /\ h \in On(h) /\ prev[f] = h /\ s \notin On(h) /\ s # h /\ s # f
      /\ h \in Nodes /\ f \in Nodes /\ s \in Nodes
  BY NodesApart DEF LinksSound, On
<1>3. /\ next'[s] = f /\ next'[h] = s /\ \A n \in Nodes \ {s, h} : next'[n] = next[n]
      /\ prev'[s] = h /\ prev'[f] = s /\ \A n \in Nodes \ {s, f} : prev'[n] = prev[n]
  BY <1>1, <1>2 DEF ListAdd
<1>4. /\ On(h)' = On(h) \cup {s}
      /\ \A g \in Heads \ {h} : On(g)' = On(g) /\ s \notin On(g) /\ h \notin On(g) /\ f \notin On(g)
  BY <1>1, <1>2, NodesApart DEF On
<1>5. \A g \in Heads : On(g) \subseteq Nodes
  BY NodesApart DEF On
<1> HIDE DEF f
<1>6. LinksSound'
  <2> SUFFICES ASSUME NEW g \in Heads, Active(g[1]), NEW n \in On(g)'
               PROVE  /\ next'[n] \in On(g)' /\ prev'[n] \in On(g)'
                      /\ prev'[next'[n]] = n /\ next'[prev'[n]] = n
    BY NodesApart DEF LinksSound
  <2>1. CASE g # h
    <3>1. next[n] \in On(g) /\ prev[n] \in On(g) /\ prev[next[n]] = n /\ next[prev[n]] = n
      BY <1>4, <2>1 DEF LinksSound
    <3>2. \A m \in On(g) : next'[m] = next[m] /\ prev'[m] = prev[m]
      BY <1>3, <1>4, <1>5, <2>1
    <3> QED
      BY <1>4, <2>1, <3>1, <3>2
  <2>2. CASE g = h
    <3>1. /\ next[h] = f
          /\ \A m \in On(h) : /\ next[m] \in On(h) /\ prev[m] \in On(h)
                              /\ prev[next[m]] = m /\ next[prev[m]] = m
      BY <2>2 DEF LinksSound, f
    <3>2. \A m \in On(h) : m # h => next'[m] = next[m] /\ next[m] # f
      BY <1>2, <1>3, <1>5, <3>1
    <3>3. \A m \in On(h) : m # f => prev'[m] = prev[m] /\ prev[m] # h
      BY <1>2, <1>3, <1>5, <3>1
    <3>4. CASE n = s
      BY <1>2, <1>3, <1>4, <2>2, <3>4
    <3>5. CASE n # s
      <4>1. n \in On(h)
        BY <1>4, <2>2, <3>5
      <4>2. next'[n] \in On(h) \cup {s} /\ prev'[next'[n]] = n
        BY <1>2, <1>3, <3>1, <3>2, <3>3, <4>1
      <4>3. prev'[n] \in On(h) \cup {s} /\ next'[prev'[n]] = n
        BY <1>2, <1>3, <3>1, <3>2, <3>3, <4>1
      <4> QED
        BY <1>4, <2>2, <4>2, <4>3
    <3> QED
      BY <3>4, <3>5
  <2> QED
    BY <2>1, <2>2
<1>7. Ordered'
  <2>1. PICK pos \in [Sems -> Nat] :
           \A p \in Sems : waiting[p] # NoNode /\ next[p] \in Sems => pos[p] < pos[next[p]]
    BY DEF Ordered
  <2> DEFINE pos2 == [p \in Sems |-> IF p = s THEN 0 ELSE pos[p] + 1]
  <2>2. pos2 \in [Sems -> Nat]
    BY <2>1
  <2>3. ASSUME NEW p \in Sems, waiting'[p] # NoNode, next'[p] \in Sems
        PROVE  pos2[p] < pos2[next'[p]]
    <3>1. CASE p = s
      BY <1>2, <1>3, <2>1, <2>3, <3>1
    <3>2. CASE p # s
      <4>1. waiting[p] # NoNode /\ p # h /\ next'[p] = next[p]
        BY <1>1, <1>3, <2>3, <3>2, NodesApart
      <4>2. waiting[p] \in Heads /\ Active(waiting[p][1]) /\ p \in On(waiting[p])
        BY <1>1, <4>1 DEF On
      <4>3. next[p] # s
        BY <4>2, NodesApart DEF LinksSound, On
      <4> QED
        BY <2>1, <2>3, <3>2, <4>1, <4>3
    <3> QED
      BY <3>1, <3>2
  <2> QED
    BY <2>2, <2>3 DEF Ordered
<1> QED
  BY <1>3, <1>6, <1>7

(* A waiter's list is in use or being emptied. *)
LEMMA WaitersActive ==
  ASSUME WaitersSound
  PROVE  \A s \in Sems : waiting[s] # NoNode => Active(waiting[s][1])
  BY DEF WaitersSound, Emptying, Active

(* list_del of the first entry of a list. *)
LEMMA LinksDeleted ==
  ASSUME LooseType, LinksSound, Ordered, NEW h \in Heads, Active(h[1]), NEW s \in Sems,
         next[h] = s, ListDel(s), waiting' = [waiting EXCEPT ![s] = NoNode],
         \A c \in Ctxs : Active(c)' => Active(c)
  PROVE  /\ LinksSound' /\ Ordered'
         /\ next'[h] = next[s] /\ \A n \in Nodes \ {h} : next'[n] = next[n]
<1> DEFINE f == next[s]
<1>1. /\ next \in [Nodes -> Nodes \cup {NoNode}] /\ prev \in [Nodes -> Nodes \cup {NoNode}]
      /\ waiting \in [Sems -> Heads \cup {NoNode}]
  BY DEF LooseType
<1>2. waiting[s] = h /\ prev[s] = h /\ s # h
  BY FirstEntry, NodesApart
<1>3. /\ s \in On(h) /\ h \in On(h) /\ f \in On(h) /\ prev[f] = s
      /\ h \in Nodes /\ f \in Nodes /\ s \in Nodes
  BY <1>2, NodesApart DEF LinksSound, On
<1>4. f # s
  BY <1>2, <1>3
<1> HIDE DEF f
<1>5. /\ next'[h] = f /\ \A n \in Nodes \ {h} : next'[n] = next[n]
      /\ prev'[f] = h /\ \A n \in Nodes \ {f} : prev'[n] = prev[n]
  BY <1>1, <1>2, <1>3 DEF ListDel, f
<1>6. /\ On(h)' = On(h) \ {s}
      /\ \A g \in Heads \ {h} : On(g)' = On(g) /\ h \notin On(g) /\ f \notin On(g)
  BY <1>1, <1>2, <1>3, NodesApart DEF On
<1>7. \A g \in Heads : On(g) \subseteq Nodes
  BY NodesApart DEF On
<1>8. LinksSound'
  <2> SUFFICES ASSUME NEW g \in Heads, Active(g[1]), NEW n \in On(g)'
               PROVE  /\ next'[n] \in On(g)' /\ prev'[n] \in On(g)'
                      /\ prev'[next'[n]] = n /\ next'[prev'[n]] = n
    BY NodesApart DEF LinksSound
  <2>1. CASE g # h
    <3>1. next[n] \in On(g) /\ prev[n] \in On(g) /\ prev[next[n]] = n /\ next[prev[n]] = n
      BY <1>6, <2>1 DEF LinksSound
    <3>2. \A m \in On(g) : next'[m] = next[m] /\ prev'[m] = prev[m]
      BY <1>5, <1>6, <1>7, <2>1
    <3> QED
      BY <1>6, <2>1, <3>1, <3>2
  <2>2. CASE g = h
    <3>1. /\ next[h] = s /\ next[s] = f /\ n \in On(h) /\ n # s
          /\ \A m \in On(h) : /\ next[m] \in On(h) /\ prev[m] \in On(h)
                              /\ prev[next[m]] = m /\ next[prev[m]] = m
      BY <1>6, <2>2 DEF LinksSound, f
    <3>2. next'[n] \in On(h) \ {s} /\ prev'[next'[n]] = n
      <4>1. CASE n = h
        BY <1>3, <1>4, <1>5, <4>1
      <4>2. CASE n # h
        <5>1. next'[n] = next[n] /\ next[n] # s /\ next[n] # f
          BY <1>2, <1>3, <1>5, <1>7, <3>1, <4>2
        <5> QED
          BY <1>5, <1>7, <3>1, <5>1
      <4> QED
        BY <4>1, <4>2
    <3>3. prev'[n] \in On(h) \ {s} /\ next'[prev'[n]] = n
      <4>1. CASE n = f
        BY <1>2, <1>3, <1>5, <4>1
      <4>2. CASE n # f
        <5>1. prev'[n] = prev[n] /\ prev[n] # s /\ prev[n] # h
          BY <1>3, <1>5, <1>7, <3>1, <4>2
        <5> QED
          BY <1>5, <1>7, <3>1, <5>1
      <4> QED
        BY <4>1, <4>2
    <3> QED
      BY <1>6, <2>2, <3>2, <3>3
  <2> QED
    BY <2>1, <2>2
<1>9. Ordered'
  <2>1. PICK pos \in [Sems -> Nat] :
           \A p \in Sems : waiting[p] # NoNode /\ next[p] \in Sems => pos[p] < pos[next[p]]
    BY DEF Ordered
  <2>2. \A p \in Sems : waiting'[p] # NoNode /\ next'[p] \in Sems => pos[p] < pos[next'[p]]
    BY <1>1, <1>5, <2>1, NodesApart
  <2> QED
    BY <2>2 DEF Ordered
<1> QED
  BY <1>5, <1>8, <1>9 DEF f

(* The next entry becomes the one at hand. *)
Advance(t) == call' = [call EXCEPT ![t].sem = call[t].tmp, ![t].tmp = NoNode]

(* What it does to the call. *)
LEMMA CallAdvances ==
  ASSUME LooseType, NEW t \in Threads, Advance(t)
  PROVE  /\ call'[t].context = call[t].context /\ call'[t].ring = call[t].ring
         /\ call'[t].sem = call[t].tmp
         /\ call'[t].dependencies = call[t].dependencies
         /\ call'[t].expected = call[t].expected
         /\ \A u \in Threads \ {t} : call'[u] = call[u]
<1> DEFINE k == call[t]
           x == [k EXCEPT !.sem = call[t].tmp]
           y == [x EXCEPT !.tmp = NoNode]
<1>1. /\ call \in [Threads -> CallType]
      /\ call' = [call EXCEPT ![t] = y]
  BY DEF LooseType, Advance
<1>2. k \in CallType
  BY <1>1
<1> HIDE DEF k
<1>3. x = [context |-> k.context, ring |-> k.ring, sem |-> call[t].tmp, tmp |-> k.tmp,
           dependencies |-> k.dependencies, seq_no |-> k.seq_no, expected |-> k.expected]
  BY <1>2 DEF CallType
<1> HIDE DEF x
<1>4. /\ y.context = k.context /\ y.ring = k.ring /\ y.sem = call[t].tmp
      /\ y.dependencies = k.dependencies /\ y.expected = k.expected
  BY <1>3
<1> HIDE DEF y
<1>5. call'[t] = y /\ \A u \in Threads \ {t} : call'[u] = call[u]
  BY <1>1
<1> QED
  BY <1>4, <1>5 DEF k

-----------------------------------------------------------------------------
(* The actions, for careful clients. *)

(* A new semaphore has one reference and is on no list. *)
LEMMA CreateSemaphoreKeeps ==
  ASSUME Careful = TRUE, CsInvariant, NEW t \in Threads, NEW s \in Sems, CreateSemaphore(t, s)
  PROVE  CsInvariant'
<1>0. /\ SeqInvariant' /\ LooseType'
      /\ SeqInvariant /\ LooseType /\ ArgumentsSound /\ MutexHeld /\ SequenceSound
      /\ CallsSound /\ ContextsApart /\ SignallersSound /\ SubmittersSound /\ CtxFreersSound
      /\ UsersApart /\ RefsHeld /\ SignalsSound /\ WaitersSound /\ FencesSound
      /\ LinksSound /\ Ordered /\ SubmissionsSound /\ DependenciesSound
  BY CreateSemaphoreSequence DEF CsInvariant, SeqInvariant
<1>1. /\ refcount[s] = 0 /\ refcount' = [refcount EXCEPT ![s] = 1]
      /\ signal_fence' = [signal_fence EXCEPT ![s] = NoFence]
      /\ next' = [next EXCEPT ![s] = NoNode] /\ prev' = [prev EXCEPT ![s] = NoNode]
      /\ handle' = handle \cup {s}
      /\ UNCHANGED <<live, sequence_mutex, last_seq, kernelSeq, waiting, signalled, pc, call>>
  BY DEF CreateSemaphore, At, Goto, Return, Abort, seqVars, listVars, semVars
<1>2. ~Charged(s) /\ s \notin handle /\ signal_fence[s].context = NoCtx /\ waiting[s] = NoNode
  BY <1>0, <1>1
  DEF RefsHeld, Charged, SignallersSound, Settled, Settling, Signalling, WaitersSound
<1>3. /\ refcount'[s] = 1 /\ signal_fence'[s].context = NoCtx
      /\ \A p \in Sems \ {s} : refcount'[p] = refcount[p] /\ signal_fence'[p] = signal_fence[p]
      /\ \A n \in Nodes \ {s} : next'[n] = next[n] /\ prev'[n] = prev[n]
  BY <1>0, <1>1 DEF LooseType, NoFence
<1>4. /\ \A u \in Threads : pc[u] # "idle" =>
            /\ Head(u) \in Heads /\ Head(u) \in Nodes /\ Head(u) \notin Sems
            /\ call[u].context \in Ctxs
      /\ \A p \in Sems : p \in Nodes /\ (waiting[p] # NoNode => waiting[p] \in Heads)
      /\ handle \subseteq Sems
  BY <1>0, HeadOfCall, NodesApart DEF LooseType
<1>5. /\ \A p \in Sems : /\ (Settled(p)' <=> Settled(p))
                       /\ (BeingReset(p)' <=> BeingReset(p))
                       /\ (Emptying(waiting[p])' <=> Emptying(waiting[p]))
      /\ \A u \in Threads : Awaited(Head(u))' = Awaited(Head(u))
      /\ \A u \in Threads : Head(u)' = Head(u)
  BY <1>1 DEF Settled, Settling, BeingReset, Resetting, Emptying, FreeingCtx, Awaited, Head
<1>6. \A p \in Sems : Charged(p)' <=> Charged(p)
  BY <1>2, <1>3, <1>5 DEF Charged
<1>7. CallsSound'
  BY <1>0, <1>1, <1>2, <1>3, <1>4, <1>5, <1>6 DEF CallsSound, Signalling, Submitting, FreeingCtx
<1>8. ContextsApart'
  BY <1>0, <1>1, <1>2, <1>3, <1>4, <1>5, <1>6 DEF ContextsApart, FreeingCtx
<1>9. SignallersSound'
  BY <1>0, <1>1, <1>2, <1>3, <1>4, <1>5, <1>6 DEF SignallersSound, Signalling
<1>10. SubmittersSound'
  BY <1>0, <1>1, <1>2, <1>3, <1>4, <1>5, <1>6 DEF SubmittersSound
<1>11. CtxFreersSound'
  BY <1>0, <1>1, <1>2, <1>3, <1>4, <1>5, <1>6 DEF CtxFreersSound
<1>12. UsersApart'
  BY <1>0, <1>1, <1>2, <1>3, <1>4, <1>5, <1>6 DEF UsersApart
<1>13. RefsHeld'
  BY <1>0, <1>1, <1>2, <1>3, <1>4, <1>5, <1>6 DEF RefsHeld
<1>14. SignalsSound'
  BY <1>0, <1>1, <1>2, <1>3, <1>4, <1>5, <1>6 DEF SignalsSound
<1>15. WaitersSound'
  BY <1>0, <1>1, <1>2, <1>3, <1>4, <1>5, <1>6 DEF WaitersSound
<1>16. FencesSound'
  <2> SUFFICES ASSUME NEW p \in Sems, signal_fence'[p].context # NoCtx,
                      p \in handle' \/ waiting'[p] # NoNode,
                      waiting'[p] # NoNode => waiting'[p][1] \in live'
               PROVE  /\ signal_fence'[p].context \in live'
                      /\ Settled(p)' =>
                            /\ signal_fence'[p].ring \in Rings
                            /\ signal_fence'[p].fence
                                 <= kernelSeq'[signal_fence'[p].context, signal_fence'[p].ring]
    BY DEF FencesSound
  <2>0. FencesSound
    BY <1>0
  <2>1. p # s /\ signal_fence'[p] = signal_fence[p] /\ (p \in handle \/ waiting[p] # NoNode)
    BY <1>1, <1>2, <1>3
  <2> QED
    <3>1. UNCHANGED <<live, waiting, kernelSeq>>
      BY <1>1
    <3> QED
      BY <2>0, <1>5, <2>1, <3>1 DEF FencesSound
<1>17. LinksSound' /\ Ordered'
  BY <1>0, <1>1, <1>2, LinksFrame, NodesApart DEF Active, FreeingCtx
<1>18. SubmissionsSound'
  BY <1>0, <1>1, <1>2, <1>3, <1>4, <1>5, <1>6 DEF SubmissionsSound
<1>19. DependenciesSound'
  BY <1>0, <1>1, <1>2, <1>3, <1>4, <1>5, <1>6 DEF DependenciesSound
<1> QED
  BY <1>0, <1>7, <1>8, <1>9, <1>10, <1>11, <1>12, <1>13, <1>14, <1>15, <1>16, <1>17, <1>18,
     <1>19
  DEF CsInvariant

(* A semaphore given up stays while it is signalled. *)
LEMMA DestroySemaphoreKeeps ==
  ASSUME Careful = TRUE, CsInvariant, NEW t \in Threads, NEW s \in Sems, DestroySemaphore(t, s)
  PROVE  CsInvariant'
<1>0. /\ SeqInvariant' /\ LooseType'
      /\ SeqInvariant /\ LooseType /\ ArgumentsSound /\ MutexHeld /\ SequenceSound
      /\ CallsSound /\ ContextsApart /\ SignallersSound /\ SubmittersSound /\ CtxFreersSound
      /\ UsersApart /\ RefsHeld /\ SignalsSound /\ WaitersSound /\ FencesSound
      /\ LinksSound /\ Ordered /\ SubmissionsSound /\ DependenciesSound
  BY DestroySemaphoreSequence DEF CsInvariant, SeqInvariant
<1>1. /\ s \in handle /\ handle' = handle \ {s}
      /\ \A u \in Threads : call[u].sem = s => ~Signalling(u)
      /\ \A u \in Threads : FreeingCtx(u) => call[u].sem # s /\ waiting[s] \notin {call[u].context} \X Rings
      /\ Unreference(s)
      /\ UNCHANGED <<live, sequence_mutex, last_seq, kernelSeq, prev, waiting, signal_fence,
                     signalled, pc, call>>
  BY DEF DestroySemaphore, At, Goto, Return, Abort, Using, seqVars, listVars, semVars
<1>2. /\ refcount' = [refcount EXCEPT ![s] = @ - 1]
      /\ refcount[s] # 1 => next' = next
      /\ \A n \in Nodes \ {s} : next'[n] = next[n]
  BY <1>0, <1>1 DEF LooseType, Unreference
<1>3. waiting[s] # NoNode => refcount[s] # 1
  BY <1>0, <1>1 DEF RefsHeld, Charged, Settled, Settling, Signalling, WaitersSound
<1>4. refcount'[s] = refcount[s] - 1 /\ \A p \in Sems \ {s} : refcount'[p] = refcount[p]
  BY <1>0, <1>2 DEF LooseType
<1>5. /\ \A u \in Threads : pc[u] # "idle" =>
            /\ Head(u) \in Heads /\ Head(u) \in Nodes /\ Head(u) \notin Sems
            /\ call[u].context \in Ctxs
      /\ \A p \in Sems : p \in Nodes /\ (waiting[p] # NoNode => waiting[p] \in Heads)
      /\ handle \subseteq Sems
  BY <1>0, HeadOfCall, NodesApart DEF LooseType
<1>6. /\ \A p \in Sems : /\ (Settled(p)' <=> Settled(p))
                       /\ (BeingReset(p)' <=> BeingReset(p))
                       /\ (Emptying(waiting[p])' <=> Emptying(waiting[p]))
      /\ \A u \in Threads : Awaited(Head(u))' = Awaited(Head(u))
      /\ \A u \in Threads : Head(u)' = Head(u)
  BY <1>1 DEF Settled, Settling, BeingReset, Resetting, Emptying, FreeingCtx, Awaited, Head
<1>7. waiting[s] # NoNode => waiting[s][1] \in live
  <2>1. ASSUME waiting[s] # NoNode PROVE ~Emptying(waiting[s])
    <3>1. waiting[s] \in Heads
      BY <1>0, <2>1 DEF LooseType
    <3> QED
      BY <1>1, <3>1, NodesApart DEF Emptying
  <2> QED
    BY <1>0, <2>1 DEF WaitersSound
<1>8. \A p \in Sems : Charged(p)' <=> Charged(p)
  BY <1>1, <1>6 DEF Charged
<1>9. CallsSound'
  BY <1>0, <1>1 DEF CallsSound, Signalling, Submitting, FreeingCtx
<1>10. ContextsApart'
  BY <1>0, <1>1 DEF ContextsApart, FreeingCtx
<1>11. SignallersSound'
  BY <1>0, <1>1 DEF SignallersSound, Signalling
<1>12. SubmittersSound'
  BY <1>0, <1>1, <1>2, <1>5, <1>6 DEF SubmittersSound
<1>13. CtxFreersSound'
  BY <1>0, <1>1, <1>2, <1>5, <1>6 DEF FreeingCtx, CtxFreersSound
<1>14. UsersApart'
  BY <1>0, <1>1 DEF UsersApart
<1>15. RefsHeld'
  BY <1>0, <1>1, <1>4, <1>8 DEF RefsHeld
<1>16. SignalsSound'
  BY <1>0, <1>1, <1>6 DEF SignalsSound
<1>17. WaitersSound'
  BY <1>0, <1>1, <1>6, <1>7 DEF WaitersSound
<1>18. FencesSound'
  <2> SUFFICES ASSUME NEW p \in Sems, signal_fence'[p].context # NoCtx,
                      p \in handle' \/ waiting'[p] # NoNode,
                      waiting'[p] # NoNode => waiting'[p][1] \in live'
               PROVE  /\ signal_fence'[p].context \in live'
                      /\ Settled(p)' =>
                            /\ signal_fence'[p].ring \in Rings
                            /\ signal_fence'[p].fence
                                 <= kernelSeq'[signal_fence'[p].context, signal_fence'[p].ring]
    BY DEF FencesSound
  <2>0. FencesSound
    BY <1>0
  <2> QED
    BY <2>0, <1>1, <1>2, <1>3, <1>4, <1>5, <1>6, <1>7, <1>8 DEF FencesSound
<1>19. LinksSound' /\ Ordered'
  BY <1>0, <1>1, <1>2, <1>3, LinksFrame, NodesApart DEF Active, FreeingCtx
<1>20. SubmissionsSound'
  BY <1>0, <1>1, <1>6 DEF SubmissionsSound
<1>21. DependenciesSound'
  BY <1>0, <1>1 DEF DependenciesSound
<1> QED
  BY <1>0, <1>9, <1>10, <1>11, <1>12, <1>13, <1>14, <1>15, <1>16, <1>17, <1>18, <1>19, <1>20,
     <1>21
  DEF CsInvariant

(* The semaphore is in nobody else's hands. *)
LEMMA SignalCheckKeeps ==
  ASSUME Careful = TRUE, CsInvariant, NEW t \in Threads, NEW c \in Ctxs, NEW r \in Rings,
         NEW s \in Sems, SignalCheck(t, c, r, s)
  PROVE  CsInvariant'
<1>0. /\ SeqInvariant' /\ LooseType'
      /\ SeqInvariant /\ LooseType /\ ArgumentsSound /\ MutexHeld /\ SequenceSound
      /\ CallsSound /\ ContextsApart /\ SignallersSound /\ SubmittersSound /\ CtxFreersSound
      /\ UsersApart /\ RefsHeld /\ SignalsSound /\ WaitersSound /\ FencesSound
      /\ LinksSound /\ Ordered /\ SubmissionsSound /\ DependenciesSound
  BY SignalCheckSequence DEF CsInvariant, SeqInvariant
<1>1. /\ pc[t] = "idle" /\ pc' = [pc EXCEPT ![t] = "signal"]
      /\ c \in live /\ s \in handle /\ signal_fence[s].context = NoCtx
      /\ \A u \in Threads : call[u].sem # s
      /\ call' = [call EXCEPT ![t] = Fresh(c, r, s)]
      /\ UNCHANGED <<live, sequence_mutex, last_seq, kernelSeq, next, prev, waiting, refcount,
                     signal_fence, handle, signalled>>
  BY DEF SignalCheck, MayCall, Using, Fresh, At, Goto, Return, Abort, seqVars, listVars, semVars
<1>2. s \in Nodes
  BY NodesApart
<1>3. call[t].context = NoCtx /\ call[t].dependencies = {}
  BY <1>0, <1>1, Empties DEF CallsSound
<1>4. /\ pc'[t] = "signal" /\ call'[t].context = c /\ call'[t].ring = r /\ call'[t].sem = s
      /\ call'[t].dependencies = {}
      /\ \A u \in Threads \ {t} : pc'[u] = pc[u] /\ call'[u] = call[u]
  BY <1>0, <1>1, <1>2, NewCall DEF LooseType
<1>5. \A u \in Threads \ {t} : Head(u)' = Head(u)
  BY <1>1, <1>4 DEF Head
<1>6. /\ \A p \in Sems : /\ (Settled(p)' <=> Settled(p))
                       /\ (BeingReset(p)' <=> BeingReset(p))
                       /\ (Emptying(waiting[p])' <=> Emptying(waiting[p]))
      /\ \A u \in Threads \ {t} : Awaited(Head(u))' = Awaited(Head(u))
  BY <1>1, <1>4, <1>5
  DEF Settled, Settling, BeingReset, Resetting, Emptying, FreeingCtx, Awaited
<1>7. /\ \A u \in Threads : pc[u] # "idle" =>
            /\ Head(u) \in Heads /\ Head(u) \in Nodes /\ Head(u) \notin Sems
            /\ call[u].context \in Ctxs
      /\ \A p \in Sems : p \in Nodes /\ (waiting[p] # NoNode => waiting[p] \in Heads)
      /\ handle \subseteq Sems
  BY <1>0, HeadOfCall, NodesApart DEF LooseType
<1>8. waiting[s] = NoNode
  BY <1>0, <1>1 DEF WaitersSound
<1>9. \A p \in Sems : Charged(p)' <=> Charged(p)
  BY <1>1, <1>6 DEF Charged
<1>10. CallsSound'
  BY <1>0, <1>1, <1>4 DEF CallsSound, Signalling, Submitting, FreeingCtx
<1>11. ContextsApart'
  BY <1>0, <1>1, <1>4 DEF CallsSound, ContextsApart, FreeingCtx
<1>12. SignallersSound'
  BY <1>0, <1>1, <1>4, <1>8 DEF SignallersSound, Signalling
<1>13. SubmittersSound'
  BY <1>0, <1>1, <1>5 DEF SubmittersSound
<1>14. CtxFreersSound'
  BY <1>0, <1>1, <1>5 DEF CtxFreersSound
<1>15. UsersApart'
  BY <1>0, <1>1, <1>4 DEF UsersApart
<1>16. RefsHeld'
  BY <1>0, <1>1, <1>9 DEF RefsHeld
<1>17. SignalsSound'
  BY <1>0, <1>1, <1>6 DEF SignalsSound
<1>18. WaitersSound'
  BY <1>0, <1>1, <1>6 DEF WaitersSound
<1>19. FencesSound'
  <2> SUFFICES ASSUME NEW p \in Sems, signal_fence'[p].context # NoCtx,
                      p \in handle' \/ waiting'[p] # NoNode,
                      waiting'[p] # NoNode => waiting'[p][1] \in live'
               PROVE  /\ signal_fence'[p].context \in live'
                      /\ Settled(p)' =>
                            /\ signal_fence'[p].ring \in Rings
                            /\ signal_fence'[p].fence
                                 <= kernelSeq'[signal_fence'[p].context, signal_fence'[p].ring]
    BY DEF FencesSound
  <2>0. FencesSound
    BY <1>0
  <2> QED
    BY <2>0, <1>1, <1>2, <1>3, <1>4, <1>5, <1>6, <1>7, <1>8, <1>9 DEF FencesSound
<1>20. LinksSound' /\ Ordered'
  BY <1>0, <1>1, LinksFrame DEF Active, FreeingCtx
<1>21. SubmissionsSound'
  BY <1>0, <1>1, <1>6 DEF SubmissionsSound
<1>22. DependenciesSound'
  BY <1>0, <1>1, <1>4 DEF DependenciesSound
<1> QED
  BY <1>0, <1>10, <1>11, <1>12, <1>13, <1>14, <1>15, <1>16, <1>17, <1>18, <1>19, <1>20, <1>21,
     <1>22
  DEF CsInvariant

(* The semaphore is in nobody else's hands. *)
LEMMA WaitCheckKeeps ==
  ASSUME Careful = TRUE, CsInvariant, NEW t \in Threads, NEW c \in Ctxs, NEW r \in Rings,
         NEW s \in Sems, WaitCheck(t, c, r, s)
  PROVE  CsInvariant'
<1>0. /\ SeqInvariant' /\ LooseType'
      /\ SeqInvariant /\ LooseType /\ ArgumentsSound /\ MutexHeld /\ SequenceSound
      /\ CallsSound /\ ContextsApart /\ SignallersSound /\ SubmittersSound /\ CtxFreersSound
      /\ UsersApart /\ RefsHeld /\ SignalsSound /\ WaitersSound /\ FencesSound
      /\ LinksSound /\ Ordered /\ SubmissionsSound /\ DependenciesSound
  BY WaitCheckSequence DEF CsInvariant, SeqInvariant
<1>1. /\ pc[t] = "idle" /\ pc' = [pc EXCEPT ![t] = "wait"]
      /\ c \in live /\ s \in handle /\ signal_fence[s].context # NoCtx /\ waiting[s] = NoNode
      /\ \A u \in Threads : call[u].sem # s
      /\ call' = [call EXCEPT ![t] = Fresh(c, r, s)]
      /\ UNCHANGED <<live, sequence_mutex, last_seq, kernelSeq, next, prev, waiting, refcount,
                     signal_fence, handle, signalled>>
  BY DEF WaitCheck, MayCall, Using, Fresh, At, Goto, Return, Abort, seqVars, listVars, semVars
<1>2. s \in Nodes
  BY NodesApart
<1>3. call[t].context = NoCtx /\ call[t].dependencies = {}
  BY <1>0, <1>1, Empties DEF CallsSound
<1>4. /\ pc'[t] = "wait" /\ call'[t].context = c /\ call'[t].ring = r /\ call'[t].sem = s
      /\ call'[t].dependencies = {}
      /\ \A u \in Threads \ {t} : pc'[u] = pc[u] /\ call'[u] = call[u]
  BY <1>0, <1>1, <1>2, NewCall DEF LooseType
<1>5. \A u \in Threads \ {t} : Head(u)' = Head(u)
  BY <1>1, <1>4 DEF Head
<1>6. /\ \A p \in Sems : /\ (Settled(p)' <=> Settled(p))
                       /\ (BeingReset(p)' <=> BeingReset(p))
                       /\ (Emptying(waiting[p])' <=> Emptying(waiting[p]))
      /\ \A u \in Threads \ {t} : Awaited(Head(u))' = Awaited(Head(u))
  BY <1>1, <1>4, <1>5
  DEF Settled, Settling, BeingReset, Resetting, Emptying, FreeingCtx, Awaited
<1>7. /\ \A u \in Threads : pc[u] # "idle" =>
            /\ Head(u) \in Heads /\ Head(u) \in Nodes /\ Head(u) \notin Sems
            /\ call[u].context \in Ctxs
      /\ \A p \in Sems : p \in Nodes /\ (waiting[p] # NoNode => waiting[p] \in Heads)
      /\ handle \subseteq Sems
  BY <1>0, HeadOfCall, NodesApart DEF LooseType
<1>8. waiting[s] = NoNode
  BY <1>0, <1>1 DEF WaitersSound
<1>9. \A p \in Sems : Charged(p)' <=> Charged(p)
  BY <1>1, <1>6 DEF Charged
<1>10. CallsSound'
  BY <1>0, <1>1, <1>4 DEF CallsSound, Signalling, Submitting, FreeingCtx
<1>11. ContextsApart'
  BY <1>0, <1>1, <1>4 DEF CallsSound, ContextsApart, FreeingCtx
<1>12. SignallersSound'
  BY <1>0, <1>1, <1>4 DEF SignallersSound, Signalling
<1>13. SubmittersSound'
  BY <1>0, <1>1, <1>5 DEF SubmittersSound
<1>14. CtxFreersSound'
  BY <1>0, <1>1, <1>5 DEF CtxFreersSound
<1>15. UsersApart'
  BY <1>0, <1>1, <1>4 DEF UsersApart
<1>16. RefsHeld'
  BY <1>0, <1>1, <1>9 DEF RefsHeld
<1>17. SignalsSound'
  BY <1>0, <1>1, <1>6 DEF SignalsSound
<1>18. WaitersSound'
  BY <1>0, <1>1, <1>6 DEF WaitersSound
<1>19. FencesSound'
  <2> SUFFICES ASSUME NEW p \in Sems, signal_fence'[p].context # NoCtx,
                      p \in handle' \/ waiting'[p] # NoNode,
                      waiting'[p] # NoNode => waiting'[p][1] \in live'
               PROVE  /\ signal_fence'[p].context \in live'
                      /\ Settled(p)' =>
                            /\ signal_fence'[p].ring \in Rings
                            /\ signal_fence'[p].fence
                                 <= kernelSeq'[signal_fence'[p].context, signal_fence'[p].ring]
    BY DEF FencesSound
  <2>0. FencesSound
    BY <1>0
  <2> QED
    BY <2>0, <1>1, <1>2, <1>3, <1>4, <1>5, <1>6, <1>7, <1>8, <1>9 DEF FencesSound
<1>20. LinksSound' /\ Ordered'
  BY <1>0, <1>1, LinksFrame DEF Active, FreeingCtx
<1>21. SubmissionsSound'
  BY <1>0, <1>1, <1>6 DEF SubmissionsSound
<1>22. DependenciesSound'
  BY <1>0, <1>1, <1>4 DEF DependenciesSound
<1> QED
  BY <1>0, <1>10, <1>11, <1>12, <1>13, <1>14, <1>15, <1>16, <1>17, <1>18, <1>19, <1>20, <1>21,
     <1>22
  DEF CsInvariant

(* The semaphore has a context, but its fence is yet to be recorded. *)
LEMMA SignalLockKeeps ==
  ASSUME Careful = TRUE, CsInvariant, NEW t \in Threads, SignalLock(t)
  PROVE  CsInvariant'
<1>0. /\ SeqInvariant' /\ LooseType'
      /\ SeqInvariant /\ LooseType /\ ArgumentsSound /\ MutexHeld /\ SequenceSound
      /\ CallsSound /\ ContextsApart /\ SignallersSound /\ SubmittersSound /\ CtxFreersSound
      /\ UsersApart /\ RefsHeld /\ SignalsSound /\ WaitersSound /\ FencesSound
      /\ LinksSound /\ Ordered /\ SubmissionsSound /\ DependenciesSound
  BY SignalLockSequence DEF CsInvariant, SeqInvariant
<1>1. /\ pc[t] = "signal" /\ pc' = [pc EXCEPT ![t] = "signal_set"]
      /\ UNCHANGED <<live, last_seq, kernelSeq, next, prev, waiting, refcount, handle,
                     signalled, call>>
  BY DEF SignalLock, At, Goto, Return, Abort, Lock, seqVars, listVars, semVars
<1>2. PICK s \in Sems, c \in Ctxs : s = call[t].sem /\ c = call[t].context
  BY <1>0, <1>1 DEF ArgumentsSound, Working
<1>3. SetContext(s, c)
  BY <1>2 DEF SignalLock, At, Goto, Return, Abort, Lock, seqVars, listVars, semVars, SetContext
<1>4. /\ c \in live /\ c # NoCtx /\ s \in handle /\ waiting[s] = NoNode
      /\ signal_fence[s].context = NoCtx
  BY <1>0, <1>1, <1>2, CsContextAssumption DEF CallsSound, SignallersSound, Signalling
<1>5. signal_fence'[s].context = c /\ \A p \in Sems \ {s} : signal_fence'[p] = signal_fence[p]
  <2>1. signal_fence'[s] =
           [context |-> c, ring |-> signal_fence[s].ring, fence |-> signal_fence[s].fence]
    BY <1>0, <1>2, <1>3, CsContextAssumption, FenceContext
  <2>2. \A p \in Sems \ {s} : signal_fence'[p] = signal_fence[p]
    BY <1>0, <1>2, <1>3, CsContextAssumption, FenceContext
  <2> QED
    BY <2>1, <2>2
<1>6. /\ pc'[t] = "signal_set"
      /\ \A u \in Threads \ {t} : pc'[u] = pc[u] /\ call'[u] = call[u]
      /\ call'[t] = call[t]
  BY <1>0, <1>1 DEF LooseType
<1>7. /\ \A u \in Threads : pc[u] # "idle" =>
            /\ Head(u) \in Heads /\ Head(u) \in Nodes /\ Head(u) \notin Sems
            /\ call[u].context \in Ctxs
      /\ \A p \in Sems : p \in Nodes /\ (waiting[p] # NoNode => waiting[p] \in Heads)
      /\ handle \subseteq Sems
  BY <1>0, HeadOfCall, NodesApart DEF LooseType
<1>8. \A u \in Threads \ {t} : call[u].sem # s
  BY <1>0, <1>2 DEF UsersApart
<1>9. ~Settled(s)' /\ ~BeingReset(s) /\ ~BeingReset(s)'
  BY <1>1, <1>2, <1>6, <1>8 DEF Settled, Settling, BeingReset, Resetting, Emptying, FreeingCtx
<1>10. \A p \in Sems \ {s} :
          /\ (Settled(p)' <=> Settled(p))
          /\ (BeingReset(p)' <=> BeingReset(p))
          /\ (Emptying(waiting[p])' <=> Emptying(waiting[p]))
  BY <1>1, <1>2, <1>6 DEF Settled, Settling, BeingReset, Resetting, Emptying, FreeingCtx
<1>11. /\ \A u \in Threads : Awaited(Head(u))' = Awaited(Head(u))
       /\ \A u \in Threads : Head(u)' = Head(u)
  BY <1>1 DEF Awaited, Head
<1>12. \A p \in Sems : Charged(p)' <=> Charged(p)
  BY <1>4, <1>5, <1>9, <1>10 DEF Charged
<1>13. CallsSound'
  BY <1>0, <1>1 DEF CallsSound, Signalling, Submitting, FreeingCtx
<1>14. ContextsApart'
  BY <1>0, <1>1 DEF ContextsApart, FreeingCtx
<1>15. SignallersSound'
  BY <1>0, <1>1, <1>2, <1>5, <1>6, <1>7, <1>8 DEF SignallersSound, Signalling
<1>16. SubmittersSound'
  BY <1>0, <1>1, <1>5, <1>8, <1>11 DEF SubmittersSound
<1>17. CtxFreersSound'
  BY <1>0, <1>1, <1>5, <1>7, <1>8, <1>11 DEF CtxFreersSound
<1>18. UsersApart'
  BY <1>0, <1>1 DEF UsersApart
<1>19. RefsHeld'
  BY <1>0, <1>1, <1>12 DEF RefsHeld
<1>20. SignalsSound'
  BY <1>0, <1>1, <1>5, <1>9, <1>10 DEF SignalsSound
<1>21. WaitersSound'
  BY <1>0, <1>1, <1>4, <1>5, <1>10 DEF WaitersSound
<1>22. FencesSound'
  <2> SUFFICES ASSUME NEW p \in Sems, signal_fence'[p].context # NoCtx,
                      p \in handle' \/ waiting'[p] # NoNode,
                      waiting'[p] # NoNode => waiting'[p][1] \in live'
               PROVE  /\ signal_fence'[p].context \in live'
                      /\ Settled(p)' =>
                            /\ signal_fence'[p].ring \in Rings
                            /\ signal_fence'[p].fence
                                 <= kernelSeq'[signal_fence'[p].context, signal_fence'[p].ring]
    BY DEF FencesSound
  <2>0. FencesSound
    BY <1>0
  <2> QED
    BY <2>0, <1>1, <1>2, <1>3, <1>4, <1>5, <1>6, <1>7, <1>8, <1>9, <1>10, <1>11, <1>12
    DEF FencesSound
<1>23. LinksSound' /\ Ordered'
  BY <1>0, <1>1, LinksFrame DEF Active, FreeingCtx
<1>24. SubmissionsSound'
  BY <1>0, <1>1, <1>11 DEF SubmissionsSound
<1>25. DependenciesSound'
  BY <1>0, <1>1 DEF DependenciesSound
<1> QED
  BY <1>0, <1>13, <1>14, <1>15, <1>16, <1>17, <1>18, <1>19, <1>20, <1>21, <1>22, <1>23, <1>24,
     <1>25
  DEF CsInvariant

(* The signal is recorded, and has its reference. *)
LEMMA SignalSetKeeps ==
  ASSUME Careful = TRUE, CsInvariant, NEW t \in Threads, SignalSet(t)
  PROVE  CsInvariant'
<1>0. /\ SeqInvariant' /\ LooseType'
      /\ SeqInvariant /\ LooseType /\ ArgumentsSound /\ MutexHeld /\ SequenceSound
      /\ CallsSound /\ ContextsApart /\ SignallersSound /\ SubmittersSound /\ CtxFreersSound
      /\ UsersApart /\ RefsHeld /\ SignalsSound /\ WaitersSound /\ FencesSound
      /\ LinksSound /\ Ordered /\ SubmissionsSound /\ DependenciesSound
  BY SignalSetSequence DEF CsInvariant, SeqInvariant
<1>1. /\ pc[t] = "signal_set" /\ pc' = [pc EXCEPT ![t] = "idle"]
      /\ call' = [call EXCEPT ![t] = NoCall]
      /\ UNCHANGED <<live, last_seq, kernelSeq, next, prev, waiting, handle>>
  BY DEF SignalSet, At, Goto, Return, Abort, Unlock, seqVars, listVars, semVars
<1>2. PICK s \in Sems, c \in Ctxs, r \in Rings :
             s = call[t].sem /\ c = call[t].context /\ r = call[t].ring
  BY <1>0, <1>1 DEF ArgumentsSound, Working
<1>3. PICK q \in 0 .. MaxSeq : q = last_seq[<<c, r>>] /\ q = kernelSeq[<<c, r>>]
  <2>1. <<c, r>> \in Heads /\ sequence_mutex[c] = t
    BY <1>0, <1>1, <1>2 DEF Heads, MutexHeld, Holding
  <2>2. \A u \in Threads : pc[u] = "submitted" => Head(u) # <<c, r>>
    BY <1>0, <1>1, <1>2, <2>1 DEF MutexHeld, Holding, Head
  <2> QED
    BY <1>0, <2>1, <2>2 DEF SequenceSound, LooseType
<1>4. SetFence(s, r, q)
  BY <1>2, <1>3
  DEF SignalSet, At, Goto, Return, Abort, Unlock, seqVars, listVars, semVars, SetFence
<1>5. /\ signalled' = [signalled EXCEPT ![s] = [context |-> c, ring |-> r, fence |-> q]]
      /\ refcount' = [refcount EXCEPT ![s] = @ + 1]
  BY <1>2, <1>3 DEF SignalSet, At, Goto, Return, Abort, Unlock, seqVars, listVars, semVars
<1>6. /\ c \in live /\ c # NoCtx /\ s \in handle /\ waiting[s] = NoNode
      /\ signal_fence[s].context = c /\ r \in 0 .. NumRings
  BY <1>0, <1>1, <1>2, CsContextAssumption DEF CallsSound, SignallersSound, Signalling, Rings
<1>7. /\ signal_fence'[s] = [context |-> c, ring |-> r, fence |-> q]
      /\ \A p \in Sems \ {s} : signal_fence'[p] = signal_fence[p]
  <2>1. signal_fence'[s] = [context |-> signal_fence[s].context, ring |-> r, fence |-> q]
    BY <1>0, <1>3, <1>4, <1>6, FenceSet
  <2>2. \A p \in Sems \ {s} : signal_fence'[p] = signal_fence[p]
    BY <1>0, <1>3, <1>4, <1>6, FenceSet
  <2> QED
    BY <1>6, <2>1, <2>2
<1>8. /\ signalled'[s] = [context |-> c, ring |-> r, fence |-> q] /\ refcount'[s] = refcount[s] + 1
      /\ \A p \in Sems \ {s} : signalled'[p] = signalled[p] /\ refcount'[p] = refcount[p]
  BY <1>0, <1>5 DEF LooseType
<1>9. /\ pc'[t] = "idle" /\ call'[t] = NoCall /\ NoCall.sem = NoNode /\ NoCall.context = NoCtx
      /\ NoCall.dependencies = {} /\ NoNode \notin Sems
      /\ \A u \in Threads \ {t} : pc'[u] = pc[u] /\ call'[u] = call[u]
  BY <1>0, <1>1, Empties, NodesApart DEF LooseType
<1>10. /\ \A u \in Threads : pc[u] # "idle" =>
             /\ Head(u) \in Heads /\ Head(u) \in Nodes /\ Head(u) \notin Sems
             /\ call[u].context \in Ctxs
       /\ \A p \in Sems : p \in Nodes /\ (waiting[p] # NoNode => waiting[p] \in Heads)
       /\ handle \subseteq Sems
  BY <1>0, HeadOfCall, NodesApart DEF LooseType
<1>11. \A u \in Threads \ {t} : call[u].sem # s
  BY <1>0, <1>2 DEF UsersApart
<1>12. Settled(s)' /\ ~Settled(s) /\ ~BeingReset(s) /\ ~BeingReset(s)'
  BY <1>1, <1>2, <1>9, <1>11 DEF Settled, Settling, BeingReset, Resetting, Emptying, FreeingCtx
<1>13. \A p \in Sems \ {s} :
          /\ (Settled(p)' <=> Settled(p))
          /\ (BeingReset(p)' <=> BeingReset(p))
          /\ (Emptying(waiting[p])' <=> Emptying(waiting[p]))
  BY <1>1, <1>2, <1>9 DEF Settled, Settling, BeingReset, Resetting, Emptying, FreeingCtx
<1>14. /\ \A u \in Threads \ {t} : pc[u] # "idle" => Awaited(Head(u))' = Awaited(Head(u))
       /\ \A u \in Threads \ {t} : Head(u)' = Head(u)
  <2> SUFFICES ASSUME NEW u \in Threads \ {t}
               PROVE  (pc[u] # "idle" => Awaited(Head(u))' = Awaited(Head(u))) /\ Head(u)' = Head(u)
    OBVIOUS
  <2>1. Head(u)' = Head(u)
    BY <1>9 DEF Head
  <2>2. ASSUME NEW h \in Heads
        PROVE  {signalled'[p] : p \in {p \in Sems : waiting'[p] = h}} = Awaited(h)
    BY <1>1, <1>6, <1>8, NodesApart DEF Awaited
  <2> QED
    BY <1>10, <2>1, <2>2 DEF Awaited
<1>15. /\ \A p \in Sems \ {s} : Charged(p)' <=> Charged(p)
       /\ Charged(s)' /\ ~Charged(s)
  BY <1>6, <1>7, <1>12, <1>13 DEF Charged
<1>16. CallsSound'
  BY <1>0, <1>1, <1>9 DEF CallsSound, Signalling, Submitting, FreeingCtx
<1>17. ContextsApart'
  BY <1>0, <1>9, CsContextAssumption DEF ContextsApart, FreeingCtx, CallsSound
<1>18. SignallersSound'
  BY <1>0, <1>1, <1>6, <1>7, <1>9, <1>10 DEF SignallersSound, Signalling
<1>19. SubmittersSound'
  BY <1>0, <1>1, <1>6, <1>7, <1>14 DEF SubmittersSound
<1>20. CtxFreersSound'
  BY <1>0, <1>1, <1>6, <1>7, <1>10, <1>14 DEF CtxFreersSound
<1>21. UsersApart'
  BY <1>0, <1>9 DEF UsersApart
<1>22. RefsHeld'
  BY <1>0, <1>1, <1>8, <1>15 DEF RefsHeld
<1>23. SignalsSound'
  BY <1>0, <1>7, <1>8, <1>13 DEF SignalsSound
<1>24. WaitersSound'
  BY <1>0, <1>1, <1>6, <1>7, <1>13 DEF WaitersSound
<1>25. FencesSound'
  <2> SUFFICES ASSUME NEW p \in Sems, signal_fence'[p].context # NoCtx,
                      p \in handle' \/ waiting'[p] # NoNode,
                      waiting'[p] # NoNode => waiting'[p][1] \in live'
               PROVE  /\ signal_fence'[p].context \in live'
                      /\ Settled(p)' =>
                            /\ signal_fence'[p].ring \in Rings
                            /\ signal_fence'[p].fence
                                 <= kernelSeq'[signal_fence'[p].context, signal_fence'[p].ring]
    BY DEF FencesSound
  <2>0. FencesSound
    BY <1>0
  <2>1. CASE p = s
    <3>1. /\ signal_fence'[p].context = c /\ signal_fence'[p].ring = r
          /\ signal_fence'[p].fence = q
      BY <1>7, <2>1
    <3>2. kernelSeq'[<<c, r>>] = q /\ q <= q
      BY <1>1, <1>3
    <3> QED
      BY <1>1, <1>2, <1>6, <3>1, <3>2
  <2>2. CASE p # s
    BY <2>0, <1>1, <1>7, <1>13, <2>2 DEF FencesSound
  <2> QED
    BY <2>1, <2>2
<1>26. LinksSound' /\ Ordered'
  BY <1>0, <1>1, LinksFrame DEF Active, FreeingCtx
<1>27. SubmissionsSound'
  BY <1>0, <1>1, <1>14 DEF SubmissionsSound
<1>28. DependenciesSound'
  BY <1>0, <1>1, <1>9 DEF DependenciesSound
<1> QED
  BY <1>0, <1>16, <1>17, <1>18, <1>19, <1>20, <1>21, <1>22, <1>23, <1>24, <1>25, <1>26, <1>27,
     <1>28
  DEF CsInvariant

(* The semaphore is on the list of a context in use, and of no submission. *)
LEMMA WaitAddKeeps ==
  ASSUME Careful = TRUE, CsInvariant, NEW t \in Threads, WaitAdd(t)
  PROVE  CsInvariant'
<1>0. /\ SeqInvariant' /\ LooseType'
      /\ SeqInvariant /\ LooseType /\ ArgumentsSound /\ MutexHeld /\ SequenceSound
      /\ CallsSound /\ ContextsApart /\ SignallersSound /\ SubmittersSound /\ CtxFreersSound
      /\ UsersApart /\ RefsHeld /\ SignalsSound /\ WaitersSound /\ FencesSound
      /\ LinksSound /\ Ordered /\ SubmissionsSound /\ DependenciesSound
  BY WaitAddSequence DEF CsInvariant, SeqInvariant
<1>1. /\ pc[t] = "wait" /\ pc' = [pc EXCEPT ![t] = "idle"]
      /\ call' = [call EXCEPT ![t] = NoCall]
      /\ UNCHANGED <<live, sequence_mutex, last_seq, kernelSeq, refcount, signal_fence,
                     handle, signalled>>
  BY DEF WaitAdd, At, Goto, Return, Abort, LockAndUnlock, seqVars, listVars, semVars
<1>2. PICK s \in Sems, c \in Ctxs, r \in Rings, h \in Heads :
             /\ s = call[t].sem /\ c = call[t].context /\ r = call[t].ring
             /\ h = <<c, r>> /\ h[1] = c
  <2>1. /\ call[t].sem \in Sems /\ call[t].context \in Ctxs /\ call[t].ring \in Rings
        /\ <<call[t].context, call[t].ring>> \in Heads
    BY <1>0, <1>1 DEF ArgumentsSound, Working, Heads
  <2> QED
    BY <2>1
<1>3. /\ sequence_mutex[c] = NoThread /\ ListAdd(s, h)
      /\ waiting' = [waiting EXCEPT ![s] = h]
  BY <1>2 DEF WaitAdd, At, Goto, Return, Abort, LockAndUnlock, seqVars, listVars, semVars
<1>4. /\ c \in live /\ s \in handle /\ waiting[s] = NoNode /\ signal_fence[s].context # NoCtx
      /\ Active(c)
  BY <1>0, <1>1, <1>2 DEF CallsSound, SignallersSound, Signalling, Active
<1>5. waiting'[s] = h /\ \A p \in Sems \ {s} : waiting'[p] = waiting[p]
  BY <1>0, <1>3 DEF LooseType
<1>6. /\ pc'[t] = "idle" /\ call'[t] = NoCall /\ NoCall.sem = NoNode /\ NoCall.context = NoCtx
      /\ NoCall.dependencies = {} /\ NoNode \notin Sems
      /\ \A u \in Threads \ {t} : pc'[u] = pc[u] /\ call'[u] = call[u]
  BY <1>0, <1>1, Empties, NodesApart DEF LooseType
<1>7. /\ \A u \in Threads : pc[u] # "idle" =>
            /\ Head(u) \in Heads /\ Head(u) \in Nodes /\ Head(u) \notin Sems
            /\ call[u].context \in Ctxs
      /\ \A p \in Sems : p \in Nodes /\ (waiting[p] # NoNode => waiting[p] \in Heads)
      /\ handle \subseteq Sems
  BY <1>0, HeadOfCall, NodesApart DEF LooseType
<1>8. \A u \in Threads \ {t} : call[u].sem # s
  BY <1>0, <1>2 DEF UsersApart
<1>9. /\ LinksSound' /\ Ordered'
      /\ \A n \in Nodes \ {s, h} : next'[n] = next[n]
  <2>1. \A d \in Ctxs : Active(d)' => Active(d)
    BY <1>1, <1>6 DEF Active, FreeingCtx
  <2> QED
    BY <1>0, <1>2, <1>3, <1>4, <2>1, WaitersActive, LinksAdded
<1>10. \A u \in Threads \ {t} :
          /\ Submitting(u) \/ FreeingCtx(u) => Head(u) # h /\ next'[Head(u)] = next[Head(u)]
          /\ pc[u] \in {"ctx_reset", "ctx_next"} => next'[call[u].sem] = next[call[u].sem]
  <2> SUFFICES ASSUME NEW u \in Threads \ {t}, Submitting(u) \/ FreeingCtx(u)
               PROVE  /\ Head(u) # h /\ next'[Head(u)] = next[Head(u)]
                      /\ pc[u] \in {"ctx_reset", "ctx_next"} =>
                            next'[call[u].sem] = next[call[u].sem]
    BY DEF FreeingCtx
  <2>1. Head(u) # h
    BY <1>0, <1>2, <1>3, <1>4, CsContextAssumption
    DEF MutexHeld, Holding, CallsSound, Submitting, FreeingCtx, Head
  <2>2. next'[Head(u)] = next[Head(u)]
    BY <1>2, <1>7, <1>9, <2>1 DEF Submitting, FreeingCtx
  <2>3. pc[u] \in {"ctx_reset", "ctx_next"} => call[u].sem \in Nodes \ {s, h}
    BY <1>0, <1>7, <1>8, NodesApart DEF CtxFreersSound
  <2> QED
    BY <1>9, <2>1, <2>2, <2>3
<1>11. /\ \A p \in Sems : Settled(p)' <=> Settled(p)
       /\ \A p \in Sems : BeingReset(p)' <=> BeingReset(p)
       /\ \A p \in Sems \ {s} : Emptying(waiting[p])' <=> Emptying(waiting[p])
  BY <1>1, <1>5, <1>6 DEF Settled, Settling, BeingReset, Resetting, Emptying, FreeingCtx
<1>12. \A u \in Threads \ {t} :
          /\ Head(u)' = Head(u)
          /\ Submitting(u) => Awaited(Head(u))' = Awaited(Head(u))
  <2> SUFFICES ASSUME NEW u \in Threads \ {t}
               PROVE  /\ Head(u)' = Head(u)
                      /\ Submitting(u) => Awaited(Head(u))' = Awaited(Head(u))
    OBVIOUS
  <2>1. Head(u)' = Head(u)
    BY <1>6 DEF Head
  <2>2. ASSUME NEW g \in Heads \ {h}
        PROVE  {signalled[p] : p \in {p \in Sems : waiting'[p] = g}} = Awaited(g)
    BY <1>4, <1>5, NodesApart DEF Awaited
  <2>3. ASSUME Submitting(u)
        PROVE  Awaited(Head(u))' = Awaited(Head(u))
    <3>1. PICK g \in Heads \ {h} : g = Head(u)
      BY <1>7, <1>10, <2>3 DEF Submitting
    <3>2. Head(u)' = g
      BY <2>1, <3>1
    <3>3. {signalled[p] : p \in {p \in Sems : waiting'[p] = g}} = Awaited(g)
      BY <2>2
    <3>4. UNCHANGED signalled
      BY <1>1
    <3> QED
      BY <3>1, <3>2, <3>3, <3>4 DEF Awaited
  <2> QED
    BY <2>1, <2>3
<1>13. \A p \in Sems : Charged(p)' <=> Charged(p)
  BY <1>1, <1>11 DEF Charged
<1>14. CallsSound'
  BY <1>0, <1>1, <1>6 DEF CallsSound, Signalling, Submitting, FreeingCtx
<1>15. ContextsApart'
  BY <1>0, <1>6, CsContextAssumption DEF ContextsApart, FreeingCtx, CallsSound
<1>16. SignallersSound'
  BY <1>0, <1>1, <1>5, <1>6, <1>7, <1>8 DEF SignallersSound, Signalling
<1>17. SubmittersSound'
  BY <1>0, <1>1, <1>5, <1>6, <1>8, <1>10, <1>12 DEF SubmittersSound, Submitting
<1>18. CtxFreersSound'
  BY <1>0, <1>1, <1>5, <1>6, <1>7, <1>8, <1>10, <1>12 DEF CtxFreersSound, FreeingCtx
<1>19. UsersApart'
  BY <1>0, <1>6 DEF UsersApart
<1>20. RefsHeld'
  BY <1>0, <1>1, <1>13 DEF RefsHeld
<1>21. SignalsSound'
  BY <1>0, <1>1, <1>11 DEF SignalsSound
<1>22. WaitersSound'
  BY <1>0, <1>1, <1>2, <1>3, <1>4, <1>11 DEF WaitersSound
<1>23. FencesSound'
  <2> SUFFICES ASSUME NEW p \in Sems, signal_fence'[p].context # NoCtx,
                      p \in handle' \/ waiting'[p] # NoNode,
                      waiting'[p] # NoNode => waiting'[p][1] \in live'
               PROVE  /\ signal_fence'[p].context \in live'
                      /\ Settled(p)' =>
                            /\ signal_fence'[p].ring \in Rings
                            /\ signal_fence'[p].fence
                                 <= kernelSeq'[signal_fence'[p].context, signal_fence'[p].ring]
    BY DEF FencesSound
  <2>0. FencesSound
    BY <1>0
  <2>1. (p \in handle \/ waiting[p] # NoNode) /\ (waiting[p] # NoNode => waiting[p][1] \in live)
    BY <1>1, <1>4, <1>5
  <2> QED
    BY <2>0, <1>1, <1>11, <2>1 DEF FencesSound
<1>24. LinksSound' /\ Ordered'
  BY <1>9
<1>25. SubmissionsSound'
  BY <1>0, <1>1, <1>6, <1>12 DEF SubmissionsSound, Submitting
<1>26. DependenciesSound'
  BY <1>0, <1>1, <1>6 DEF DependenciesSound
<1> QED
  BY <1>0, <1>14, <1>15, <1>16, <1>17, <1>18, <1>19, <1>20, <1>21, <1>22, <1>23, <1>24, <1>25,
     <1>26
  DEF CsInvariant

(* A submission starts at the first entry of its list, which is in nobody's hands. *)
LEMMA SubmitLockKeeps ==
  ASSUME Careful = TRUE, CsInvariant, NEW t \in Threads, NEW c \in Ctxs, NEW r \in Rings,
         SubmitLock(t, c, r)
  PROVE  CsInvariant'
<1>0. /\ SeqInvariant' /\ LooseType'
      /\ SeqInvariant /\ LooseType /\ ArgumentsSound /\ MutexHeld /\ SequenceSound
      /\ CallsSound /\ ContextsApart /\ SignallersSound /\ SubmittersSound /\ CtxFreersSound
      /\ UsersApart /\ RefsHeld /\ SignalsSound /\ WaitersSound /\ FencesSound
      /\ LinksSound /\ Ordered /\ SubmissionsSound /\ DependenciesSound
  BY SubmitLockSequence DEF CsInvariant, SeqInvariant
<1>1. /\ pc[t] = "idle" /\ pc' = [pc EXCEPT ![t] = "submit"]
      /\ c \in live /\ sequence_mutex[c] = NoThread
      /\ UNCHANGED <<live, last_seq, kernelSeq, next, prev, waiting, refcount, signal_fence,
                     handle, signalled>>
  BY DEF SubmitLock, At, Goto, Return, Abort, Lock, seqVars, listVars, semVars
<1>2. PICK h \in Heads : h = <<c, r>> /\ h[1] = c /\ next[h] \in Nodes \cup {NoNode}
  <2>1. <<c, r>> \in Heads /\ next[<<c, r>>] \in Nodes \cup {NoNode}
    BY <1>0, NodesApart DEF Heads, LooseType, Nodes
  <2> QED
    BY <2>1
<1>3. PICK X \in SUBSET FenceType : X = Awaited(h)
  BY <1>0 DEF LooseType, Awaited
<1>4. call' = [call EXCEPT ![t] = FreshSubmission(c, r, next[h], X)]
  BY <1>2, <1>3
  DEF SubmitLock, At, Goto, Return, Abort, Lock, seqVars, listVars, semVars, FreshSubmission,
      Awaited
<1>5. /\ call'[t].context = c /\ call'[t].ring = r /\ call'[t].sem = next[h]
      /\ call'[t].dependencies = {} /\ call'[t].expected = X /\ pc'[t] = "submit"
      /\ \A u \in Threads \ {t} : pc'[u] = pc[u] /\ call'[u] = call[u]
  <2>1. FreshSubmission(c, r, next[h], X) =
           [context |-> c, ring |-> r, sem |-> next[h], tmp |-> NoNode,
            dependencies |-> {}, seq_no |-> 0, expected |-> X]
    BY <1>2, NewSubmission
  <2> QED
    BY <1>0, <1>1, <1>4, <2>1 DEF LooseType
<1>6. /\ \A u \in Threads : pc[u] # "idle" =>
            /\ Head(u) \in Heads /\ Head(u) \in Nodes /\ Head(u) \notin Sems
            /\ call[u].context \in Ctxs
      /\ \A p \in Sems : p \in Nodes /\ (waiting[p] # NoNode => waiting[p] \in Heads)
      /\ handle \subseteq Sems
  BY <1>0, HeadOfCall, NodesApart DEF LooseType
<1>7. \A u \in Threads \ {t} : call[u].sem # next[h] \/ next[h] \notin Sems
  <2> SUFFICES ASSUME NEW u \in Threads \ {t}, call[u].sem = next[h], next[h] \in Sems
               PROVE  FALSE
    OBVIOUS
  <2>1. waiting[next[h]] = h /\ h # NoNode
    BY <1>0, <1>1, <1>2, FirstEntry, NodesApart DEF Active
  <2>2. pc[u] \in {"submit", "ctx_free"} /\ Head(u) = h
    BY <2>1, WaitersUnused
  <2>3. call[u].context = c
    BY <1>2, <2>2 DEF Head
  <2> QED
    BY <1>0, <1>1, <2>2, <2>3, CsContextAssumption
    DEF MutexHeld, Holding, CallsSound, FreeingCtx
<1>8. call[t].sem \notin Sems /\ call[t].context = NoCtx /\ call[t].dependencies = {}
  BY <1>0, <1>1, Empties, NodesApart DEF CallsSound
<1>9. Head(t)' = h /\ \A u \in Threads \ {t} : Head(u)' = Head(u)
  BY <1>2, <1>5 DEF Head
<1>10. /\ \A p \in Sems : /\ (Settled(p)' <=> Settled(p))
                        /\ (BeingReset(p)' <=> BeingReset(p))
                        /\ (Emptying(waiting[p])' <=> Emptying(waiting[p]))
       /\ \A u \in Threads \ {t} : Awaited(Head(u))' = Awaited(Head(u))
  BY <1>1, <1>5, <1>9
  DEF Settled, Settling, BeingReset, Resetting, Emptying, FreeingCtx, Awaited
<1>11. Awaited(Head(t))' = X
  BY <1>1, <1>3, <1>9 DEF Awaited
<1>12. \A p \in Sems : Charged(p)' <=> Charged(p)
  BY <1>1, <1>10 DEF Charged
<1>13. CallsSound'
  BY <1>0, <1>1, <1>5 DEF CallsSound, Signalling, Submitting, FreeingCtx
<1>14. ContextsApart'
  BY <1>0, <1>1, <1>5 DEF CallsSound, ContextsApart, FreeingCtx
<1>15. SignallersSound'
  BY <1>0, <1>1, <1>4 DEF SignallersSound, Signalling
<1>16. SubmittersSound'
  BY <1>0, <1>1, <1>5, <1>9 DEF SubmittersSound
<1>17. CtxFreersSound'
  BY <1>0, <1>1, <1>4, <1>9 DEF CtxFreersSound
<1>18. UsersApart'
  BY <1>0, <1>5, <1>7, <1>8 DEF UsersApart
<1>19. RefsHeld'
  BY <1>0, <1>1, <1>12 DEF RefsHeld
<1>20. SignalsSound'
  BY <1>0, <1>1, <1>10 DEF SignalsSound
<1>21. WaitersSound'
  BY <1>0, <1>1, <1>10 DEF WaitersSound
<1>22. FencesSound'
  <2> SUFFICES ASSUME NEW p \in Sems, signal_fence'[p].context # NoCtx,
                      p \in handle' \/ waiting'[p] # NoNode,
                      waiting'[p] # NoNode => waiting'[p][1] \in live'
               PROVE  /\ signal_fence'[p].context \in live'
                      /\ Settled(p)' =>
                            /\ signal_fence'[p].ring \in Rings
                            /\ signal_fence'[p].fence
                                 <= kernelSeq'[signal_fence'[p].context, signal_fence'[p].ring]
    BY DEF FencesSound
  <2>0. FencesSound
    BY <1>0
  <2> QED
    BY <2>0, <1>1, <1>2, <1>3, <1>4, <1>5, <1>6, <1>7, <1>8, <1>9, <1>10, <1>11, <1>12
    DEF FencesSound
<1>23. LinksSound' /\ Ordered'
  BY <1>0, <1>1, <1>4, LinksFrame DEF Active, FreeingCtx
<1>24. SubmissionsSound'
  BY <1>0, <1>5, <1>10, <1>11 DEF SubmissionsSound
<1>25. DependenciesSound'
  BY <1>0, <1>1, <1>5 DEF DependenciesSound
<1> QED
  BY <1>0, <1>13, <1>14, <1>15, <1>16, <1>17, <1>18, <1>19, <1>20, <1>21, <1>22, <1>23, <1>24,
     <1>25
  DEF CsInvariant

(* The dependency is the signal's, and the next entry the first of the list. *)
LEMMA SubmitTakeKeeps ==
  ASSUME Careful = TRUE, CsInvariant, NEW t \in Threads, SubmitTake(t)
  PROVE  CsInvariant'
<1>0. /\ SeqInvariant' /\ LooseType'
      /\ SeqInvariant /\ LooseType /\ ArgumentsSound /\ MutexHeld /\ SequenceSound
      /\ CallsSound /\ ContextsApart /\ SignallersSound /\ SubmittersSound /\ CtxFreersSound
      /\ UsersApart /\ RefsHeld /\ SignalsSound /\ WaitersSound /\ FencesSound
      /\ LinksSound /\ Ordered /\ SubmissionsSound /\ DependenciesSound
  BY SubmitTakeSequence DEF CsInvariant, SeqInvariant
<1>1. /\ pc[t] = "submit" /\ pc' = [pc EXCEPT ![t] = "submit_reset"]
      /\ UNCHANGED <<live, sequence_mutex, last_seq, kernelSeq, refcount, handle, signalled>>
  BY DEF SubmitTake, At, Goto, Return, Abort, seqVars, listVars, semVars
<1>2. PICK s \in Sems, h \in Heads :
             /\ s = call[t].sem /\ h = Head(t) /\ h[1] = call[t].context /\ h[1] \in Ctxs
  BY <1>1, HeadOfCall DEF SubmitTake
<1>set. SetContext(s, NoCtx)
  BY <1>2 DEF SubmitTake, At, Goto, Return, Abort, seqVars, listVars, semVars, SetContext
<1>td. TakeDependency(t, s)
  BY <1>2 DEF SubmitTake, At, Goto, Return, Abort, seqVars, listVars, semVars, TakeDependency
<1>lists. ListDel(s) /\ waiting' = [waiting EXCEPT ![s] = NoNode]
  BY <1>2 DEF SubmitTake, At, Goto, Return, Abort, seqVars, listVars, semVars
<1>entry. /\ Active(h[1]) /\ next[h] = s /\ waiting[s] = h /\ next[s] \in Sems \cup {h}
          /\ signal_fence[s].context # NoCtx /\ h # NoNode
  <2>1. Active(h[1]) /\ next[h] = s
    BY <1>0, <1>1, <1>2
    DEF Active, CallsSound, Submitting, FreeingCtx, SubmittersSound, CtxFreersSound
  <2>2. waiting[s] = h /\ next[s] \in Sems \cup {h} /\ h # NoNode
    BY <1>0, <1>2, <2>1, FirstEntry, NodesApart
  <2> QED
    BY <1>0, <2>1, <2>2 DEF WaitersSound
<1>waiting. waiting'[s] = NoNode /\ \A p \in Sems \ {s} : waiting'[p] = waiting[p]
  BY <1>0, <1>lists DEF LooseType
<1>fence. signal_fence'[s].context = NoCtx /\ \A p \in Sems \ {s} : signal_fence'[p] = signal_fence[p]
  <2>1. signal_fence'[s] =
           [context |-> NoCtx, ring |-> signal_fence[s].ring, fence |-> signal_fence[s].fence]
    BY <1>0, <1>2, <1>set, CsContextAssumption, FenceContext
  <2>2. \A p \in Sems \ {s} : signal_fence'[p] = signal_fence[p]
    BY <1>0, <1>2, <1>set, CsContextAssumption, FenceContext
  <2> QED
    BY <2>1, <2>2
<1>frame. /\ pc'[t] = "submit_reset" /\ call'[t].context = call[t].context /\ call'[t].ring = call[t].ring
          /\ call'[t].sem = s /\ call'[t].tmp = next[s]
          /\ call'[t].dependencies = call[t].dependencies \cup {signal_fence[s]}
          /\ call'[t].expected = call[t].expected
          /\ \A u \in Threads \ {t} : pc'[u] = pc[u] /\ call'[u] = call[u]
  BY <1>0, <1>1, <1>2, <1>td, CallTakes DEF LooseType
<1>types. /\ \A u \in Threads : pc[u] # "idle" =>
                /\ Head(u) \in Heads /\ Head(u) \in Nodes /\ Head(u) \notin Sems
                /\ call[u].context \in Ctxs
          /\ \A p \in Sems : p \in Nodes /\ (waiting[p] # NoNode => waiting[p] \in Heads)
          /\ handle \subseteq Sems
  BY <1>0, HeadOfCall, NodesApart DEF LooseType
<1>users. \A u \in Threads \ {t} : call[u].sem # s
  BY <1>0, <1>2 DEF UsersApart
<1>links. /\ LinksSound' /\ Ordered'
          /\ next'[h] = next[s] /\ \A n \in Nodes \ {h} : next'[n] = next[n]
  <2>1. \A d \in Ctxs : Active(d)' => Active(d)
    BY <1>1, <1>frame DEF Active, FreeingCtx
  <2> QED
    BY <1>0, <1>2, <1>lists, <1>entry, <2>1, LinksDeleted
<1>heads. \A u \in Threads \ {t} : Submitting(u) \/ FreeingCtx(u) => Head(u) # h
  <2> SUFFICES ASSUME NEW u \in Threads \ {t}, Submitting(u) \/ FreeingCtx(u)
               PROVE  Head(u) # h
    OBVIOUS
  <2>1. Submitting(u) => call[u].context # call[t].context
    BY <1>1, SubmittersApart DEF Submitting
  <2> QED
    BY <1>0, <1>1, <1>2, <2>1 DEF CallsSound, Submitting, FreeingCtx, Head
<1>next. /\ \A u \in Threads : Head(u)' = Head(u)
         /\ \A u \in Threads \ {t} : Submitting(u) \/ FreeingCtx(u) => next'[Head(u)] = next[Head(u)]
  BY <1>frame, <1>types, <1>links, <1>heads DEF Head, Submitting, FreeingCtx
<1>reset. BeingReset(s)' /\ Settled(s) /\ Settled(s)' /\ ~BeingReset(s)
  BY <1>0, <1>1, <1>2, <1>entry, <1>frame, <1>users
  DEF SignallersSound, Signalling, SubmittersSound, CtxFreersSound, Settled, Settling,
      BeingReset, Resetting, Emptying, FreeingCtx
<1>same. \A p \in Sems \ {s} :
            /\ (Settled(p)' <=> Settled(p))
            /\ (BeingReset(p)' <=> BeingReset(p))
            /\ (Emptying(waiting[p])' <=> Emptying(waiting[p]))
  BY <1>1, <1>2, <1>waiting, <1>frame
  DEF Settled, Settling, BeingReset, Resetting, Emptying, FreeingCtx
<1>charged. \A p \in Sems : Charged(p)' <=> Charged(p)
  BY <1>entry, <1>fence, <1>reset, <1>same DEF Charged
<1>awaited. \A u \in Threads \ {t} : Submitting(u) => Awaited(Head(u))' = Awaited(Head(u))
  <2> SUFFICES ASSUME NEW u \in Threads \ {t}, Submitting(u)
               PROVE  Awaited(Head(u))' = Awaited(Head(u))
    OBVIOUS
  <2>1. ASSUME NEW g \in Heads \ {h}
        PROVE  {signalled[p] : p \in {p \in Sems : waiting'[p] = g}} = Awaited(g)
    BY <1>entry, <1>waiting, NodesApart DEF Awaited
  <2> QED
    BY <1>1, <1>types, <1>heads, <1>next, <2>1 DEF Awaited, Submitting
<1>took. Awaited(Head(t)) = Awaited(Head(t))' \cup {signal_fence[s]}
  <2>1. Awaited(h) = {signalled[p] : p \in {p \in Sems : waiting'[p] = h}} \cup {signal_fence[s]}
    BY <1>0, <1>entry, <1>waiting, <1>reset DEF Awaited, SignalsSound
  <2> QED
    BY <1>1, <1>2, <1>next, <2>1 DEF Awaited
<1>sound. /\ signal_fence[s].context \in live /\ signal_fence[s].ring \in Rings
          /\ signal_fence[s].fence <= kernelSeq[signal_fence[s].context, signal_fence[s].ring]
  <2>1. h[1] \in live
    BY <1>0, <1>1, <1>2 DEF CallsSound, Submitting
  <2> QED
    BY <1>0, <1>entry, <1>reset, <2>1 DEF FencesSound
<1>21. CallsSound'
  BY <1>0, <1>1, <1>frame DEF CallsSound, Signalling, Submitting, FreeingCtx
<1>22. ContextsApart'
  BY <1>0, <1>1, <1>frame DEF ContextsApart, FreeingCtx
<1>23. SignallersSound'
  BY <1>0, <1>1, <1>2, <1>waiting, <1>fence, <1>frame, <1>types, <1>users
  DEF SignallersSound, Signalling
<1>24. SubmittersSound'
  BY <1>0, <1>2, <1>waiting, <1>fence, <1>frame, <1>links, <1>next
     DEF SubmittersSound, Submitting
<1>25. CtxFreersSound'
  <2> SUFFICES ASSUME NEW u \in Threads
               PROVE  LET p == call'[u].sem IN
                      /\ pc'[u] = "ctx_free" => p = next'[Head(u)']
                      /\ pc'[u] \in {"ctx_reset", "ctx_next"} =>
                            /\ p \in handle' /\ waiting'[p] = NoNode
                            /\ signal_fence'[p].context = NoCtx /\ next'[p] = next'[Head(u)']
    BY DEF CtxFreersSound
  <2>1. CASE u # t
    BY <1>0, <1>1, <1>waiting, <1>fence, <1>frame, <1>types, <1>links, <1>next, NodesApart
       DEF CtxFreersSound, FreeingCtx
  <2>2. CASE u = t
    BY <1>1, <2>2
  <2> QED
    BY <2>1, <2>2
<1>26. UsersApart'
  BY <1>0, <1>2, <1>frame DEF UsersApart
<1>27. RefsHeld'
  BY <1>0, <1>1, <1>charged DEF RefsHeld
<1>28. SignalsSound'
  BY <1>0, <1>1, <1>fence, <1>same DEF SignalsSound
<1>29. WaitersSound'
  BY <1>0, <1>1, <1>2, <1>waiting, <1>fence, <1>same DEF WaitersSound
<1>30. FencesSound'
  <2> SUFFICES ASSUME NEW p \in Sems, signal_fence'[p].context # NoCtx,
                      p \in handle' \/ waiting'[p] # NoNode,
                      waiting'[p] # NoNode => waiting'[p][1] \in live'
               PROVE  /\ signal_fence'[p].context \in live'
                      /\ Settled(p)' =>
                            /\ signal_fence'[p].ring \in Rings
                            /\ signal_fence'[p].fence
                                 <= kernelSeq'[signal_fence'[p].context, signal_fence'[p].ring]
    BY DEF FencesSound
  <2>0. FencesSound
    BY <1>0
  <2>1. p # s /\ signal_fence'[p] = signal_fence[p]
      /\ (p \in handle \/ waiting[p] # NoNode) /\ (waiting[p] # NoNode => waiting[p][1] \in live)
    BY <1>1, <1>fence, <1>waiting
  <2>2. UNCHANGED <<live, kernelSeq>>
    BY <1>1
  <2> QED
    BY <2>0, <1>same, <2>1, <2>2 DEF FencesSound
<1>31. LinksSound' /\ Ordered'
  BY <1>links
<1>32. SubmissionsSound'
  BY <1>0, <1>1, <1>frame, <1>next, <1>awaited, <1>took DEF SubmissionsSound, Submitting
<1>33. DependenciesSound'
  BY <1>0, <1>1, <1>frame, <1>sound DEF DependenciesSound
<1> QED
  BY <1>0, <1>21, <1>22, <1>23, <1>24, <1>25, <1>26, <1>27, <1>28, <1>29, <1>30, <1>31, <1>32,
     <1>33
  DEF CsInvariant

(* The entry taken was never given up. *)
LEMMA CtxFreeTakeKeeps ==
  ASSUME Careful = TRUE, CsInvariant, NEW t \in Threads, CtxFreeTake(t)
  PROVE  CsInvariant'
<1>0. /\ SeqInvariant' /\ LooseType'
      /\ SeqInvariant /\ LooseType /\ ArgumentsSound /\ MutexHeld /\ SequenceSound
      /\ CallsSound /\ ContextsApart /\ SignallersSound /\ SubmittersSound /\ CtxFreersSound
      /\ UsersApart /\ RefsHeld /\ SignalsSound /\ WaitersSound /\ FencesSound
      /\ LinksSound /\ Ordered /\ SubmissionsSound /\ DependenciesSound
  BY CtxFreeTakeSequence DEF CsInvariant, SeqInvariant
<1>1. /\ pc[t] = "ctx_free" /\ pc' = [pc EXCEPT ![t] = "ctx_reset"]
      /\ UNCHANGED <<live, sequence_mutex, last_seq, kernelSeq, refcount, handle, signalled,
                     call>>
  BY DEF CtxFreeTake, At, Goto, Return, Abort, seqVars, listVars, semVars
<1>2. PICK s \in Sems, h \in Heads :
             /\ s = call[t].sem /\ h = Head(t) /\ h[1] = call[t].context /\ h[1] \in Ctxs
  BY <1>1, HeadOfCall DEF CtxFreeTake
<1>set. SetContext(s, NoCtx)
  BY <1>2 DEF CtxFreeTake, At, Goto, Return, Abort, seqVars, listVars, semVars, SetContext
<1>lists. ListDel(s) /\ waiting' = [waiting EXCEPT ![s] = NoNode]
  BY <1>2 DEF CtxFreeTake, At, Goto, Return, Abort, seqVars, listVars, semVars
<1>entry. /\ Active(h[1]) /\ next[h] = s /\ waiting[s] = h /\ next[s] \in Sems \cup {h}
          /\ signal_fence[s].context # NoCtx /\ h # NoNode
  <2>1. Active(h[1]) /\ next[h] = s
    BY <1>0, <1>1, <1>2
    DEF Active, CallsSound, Submitting, FreeingCtx, SubmittersSound, CtxFreersSound
  <2>2. waiting[s] = h /\ next[s] \in Sems \cup {h} /\ h # NoNode
    BY <1>0, <1>2, <2>1, FirstEntry, NodesApart
  <2> QED
    BY <1>0, <2>1, <2>2 DEF WaitersSound
<1>kept. s \in handle
  BY <1>0, <1>1, <1>2, <1>entry DEF WaitersSound, CallsSound, FreeingCtx
<1>waiting. waiting'[s] = NoNode /\ \A p \in Sems \ {s} : waiting'[p] = waiting[p]
  BY <1>0, <1>lists DEF LooseType
<1>fence. signal_fence'[s].context = NoCtx /\ \A p \in Sems \ {s} : signal_fence'[p] = signal_fence[p]
  <2>1. signal_fence'[s] =
           [context |-> NoCtx, ring |-> signal_fence[s].ring, fence |-> signal_fence[s].fence]
    BY <1>0, <1>2, <1>set, CsContextAssumption, FenceContext
  <2>2. \A p \in Sems \ {s} : signal_fence'[p] = signal_fence[p]
    BY <1>0, <1>2, <1>set, CsContextAssumption, FenceContext
  <2> QED
    BY <2>1, <2>2
<1>frame. /\ pc'[t] = "ctx_reset" /\ call'[t] = call[t]
          /\ \A u \in Threads \ {t} : pc'[u] = pc[u] /\ call'[u] = call[u]
  BY <1>0, <1>1 DEF LooseType
<1>types. /\ \A u \in Threads : pc[u] # "idle" =>
                /\ Head(u) \in Heads /\ Head(u) \in Nodes /\ Head(u) \notin Sems
                /\ call[u].context \in Ctxs
          /\ \A p \in Sems : p \in Nodes /\ (waiting[p] # NoNode => waiting[p] \in Heads)
          /\ handle \subseteq Sems
  BY <1>0, HeadOfCall, NodesApart DEF LooseType
<1>users. \A u \in Threads \ {t} : call[u].sem # s
  BY <1>0, <1>2 DEF UsersApart
<1>links. /\ LinksSound' /\ Ordered'
          /\ next'[h] = next[s] /\ \A n \in Nodes \ {h} : next'[n] = next[n]
  <2>1. \A d \in Ctxs : Active(d)' => Active(d)
    BY <1>1, <1>frame DEF Active, FreeingCtx
  <2> QED
    BY <1>0, <1>2, <1>lists, <1>entry, <2>1, LinksDeleted
<1>heads. \A u \in Threads \ {t} : Submitting(u) \/ FreeingCtx(u) => Head(u) # h
  BY <1>0, <1>1, <1>2 DEF ContextsApart, FreeingCtx, Head
<1>next. /\ \A u \in Threads : Head(u)' = Head(u)
         /\ \A u \in Threads \ {t} : Submitting(u) \/ FreeingCtx(u) => next'[Head(u)] = next[Head(u)]
  BY <1>frame, <1>types, <1>links, <1>heads DEF Head, Submitting, FreeingCtx
<1>reset. BeingReset(s)' /\ Settled(s) /\ Settled(s)' /\ ~BeingReset(s)
  BY <1>0, <1>1, <1>2, <1>entry, <1>frame, <1>users
  DEF SignallersSound, Signalling, SubmittersSound, CtxFreersSound, Settled, Settling,
      BeingReset, Resetting, Emptying, FreeingCtx
<1>same. \A p \in Sems \ {s} :
            /\ (Settled(p)' <=> Settled(p))
            /\ (BeingReset(p)' <=> BeingReset(p))
            /\ (Emptying(waiting[p])' <=> Emptying(waiting[p]))
  BY <1>1, <1>2, <1>waiting, <1>frame
  DEF Settled, Settling, BeingReset, Resetting, Emptying, FreeingCtx
<1>charged. \A p \in Sems : Charged(p)' <=> Charged(p)
  BY <1>entry, <1>fence, <1>reset, <1>same DEF Charged
<1>awaited. \A u \in Threads \ {t} : Submitting(u) => Awaited(Head(u))' = Awaited(Head(u))
  <2> SUFFICES ASSUME NEW u \in Threads \ {t}, Submitting(u)
               PROVE  Awaited(Head(u))' = Awaited(Head(u))
    OBVIOUS
  <2>1. ASSUME NEW g \in Heads \ {h}
        PROVE  {signalled[p] : p \in {p \in Sems : waiting'[p] = g}} = Awaited(g)
    BY <1>entry, <1>waiting, NodesApart DEF Awaited
  <2> QED
    BY <1>1, <1>types, <1>heads, <1>next, <2>1 DEF Awaited, Submitting
<1>19. CallsSound'
  BY <1>0, <1>1, <1>frame DEF CallsSound, Signalling, Submitting, FreeingCtx
<1>20. ContextsApart'
  BY <1>0, <1>1, <1>frame DEF ContextsApart, FreeingCtx
<1>21. SignallersSound'
  BY <1>0, <1>1, <1>2, <1>waiting, <1>fence, <1>frame, <1>types, <1>users
  DEF SignallersSound, Signalling
<1>22. SubmittersSound'
  BY <1>0, <1>1, <1>waiting, <1>fence, <1>next DEF SubmittersSound, Submitting
<1>23. CtxFreersSound'
  <2> SUFFICES ASSUME NEW u \in Threads
               PROVE  LET p == call'[u].sem IN
                      /\ pc'[u] = "ctx_free" => p = next'[Head(u)']
                      /\ pc'[u] \in {"ctx_reset", "ctx_next"} =>
                            /\ p \in handle' /\ waiting'[p] = NoNode
                            /\ signal_fence'[p].context = NoCtx /\ next'[p] = next'[Head(u)']
    BY DEF CtxFreersSound
  <2>1. CASE u # t
    BY <1>0, <1>1, <1>waiting, <1>fence, <1>types, <1>links, <1>next, <2>1, NodesApart
       DEF CtxFreersSound, FreeingCtx
  <2>2. CASE u = t
    BY <1>1, <1>2, <1>kept, <1>waiting, <1>fence, <1>frame, <1>links, <1>next, <2>2,
       NodesApart
  <2> QED
    BY <2>1, <2>2
<1>24. UsersApart'
  BY <1>0, <1>2, <1>frame DEF UsersApart
<1>25. RefsHeld'
  BY <1>0, <1>1, <1>charged DEF RefsHeld
<1>26. SignalsSound'
  BY <1>0, <1>1, <1>fence, <1>same DEF SignalsSound
<1>27. WaitersSound'
  BY <1>0, <1>1, <1>2, <1>waiting, <1>fence, <1>same DEF WaitersSound
<1>28. FencesSound'
  <2> SUFFICES ASSUME NEW p \in Sems, signal_fence'[p].context # NoCtx,
                      p \in handle' \/ waiting'[p] # NoNode,
                      waiting'[p] # NoNode => waiting'[p][1] \in live'
               PROVE  /\ signal_fence'[p].context \in live'
                      /\ Settled(p)' =>
                            /\ signal_fence'[p].ring \in Rings
                            /\ signal_fence'[p].fence
                                 <= kernelSeq'[signal_fence'[p].context, signal_fence'[p].ring]
    BY DEF FencesSound
  <2>0. FencesSound
    BY <1>0
  <2>1. p # s /\ signal_fence'[p] = signal_fence[p]
      /\ (p \in handle \/ waiting[p] # NoNode) /\ (waiting[p] # NoNode => waiting[p][1] \in live)
    BY <1>1, <1>fence, <1>waiting
  <2>2. UNCHANGED <<live, kernelSeq>>
    BY <1>1
  <2> QED
    BY <2>0, <1>same, <2>1, <2>2 DEF FencesSound
<1>29. LinksSound' /\ Ordered'
  BY <1>links
<1>30. SubmissionsSound'
  BY <1>0, <1>1, <1>frame, <1>next, <1>awaited DEF SubmissionsSound, Submitting
<1>31. DependenciesSound'
  BY <1>0, <1>1 DEF DependenciesSound
<1> QED
  BY <1>0, <1>19, <1>20, <1>21, <1>22, <1>23, <1>24, <1>25, <1>26, <1>27, <1>28, <1>29, <1>30,
     <1>31
  DEF CsInvariant

(* The signal's reference goes, and the next entry is in nobody's hands. *)
LEMMA SubmitResetKeeps ==
  ASSUME Careful = TRUE, CsInvariant, NEW t \in Threads, SubmitReset(t)
  PROVE  CsInvariant'
<1>0. /\ SeqInvariant' /\ LooseType'
      /\ SeqInvariant /\ LooseType /\ ArgumentsSound /\ MutexHeld /\ SequenceSound
      /\ CallsSound /\ ContextsApart /\ SignallersSound /\ SubmittersSound /\ CtxFreersSound
      /\ UsersApart /\ RefsHeld /\ SignalsSound /\ WaitersSound /\ FencesSound
      /\ LinksSound /\ Ordered /\ SubmissionsSound /\ DependenciesSound
  BY SubmitResetSequence DEF CsInvariant, SeqInvariant
<1>1. /\ pc[t] = "submit_reset"
      /\  pc' = [pc EXCEPT ![t] = "submit"]
      /\ UNCHANGED <<live, sequence_mutex, last_seq, kernelSeq, prev, waiting, handle>>
  BY DEF SubmitReset, At, Goto, Return, Abort, seqVars, listVars, semVars
<1>2. PICK s \in Sems, h \in Heads :
             /\ s = call[t].sem /\ h = Head(t) /\ h[1] = call[t].context /\ h[1] \in Ctxs
  BY <1>0, <1>1, HeadOfCall DEF ArgumentsSound, Working
<1>set. SetFence(s, 0, 0) /\ signalled' = [signalled EXCEPT ![s] = NoFence]
  BY <1>2 DEF SubmitReset, At, Goto, Return, Abort, seqVars, listVars, semVars, SetFence
<1>held. /\ waiting[s] = NoNode /\ signal_fence[s].context = NoCtx /\ Active(h[1])
         /\ Unreference(s)
  BY <1>0, <1>1, <1>2, HeadOfCall
  DEF SubmitReset, At, Goto, Return, Abort, seqVars, listVars, semVars, SubmittersSound,
      Submitting
<1>ref. /\ refcount' = [refcount EXCEPT ![s] = @ - 1]
        /\ \A n \in Nodes \ {s} : next'[n] = next[n]
  BY <1>0, <1>held DEF LooseType, Unreference
<1>call. Advance(t)
  BY DEF SubmitReset, At, Goto, Return, Abort, seqVars, listVars, semVars, Advance
<1>frame. /\ pc'[t] = "submit" /\ call'[t].context = call[t].context /\ call'[t].ring = call[t].ring
          /\ call'[t].sem = next[h] /\ call'[t].dependencies = call[t].dependencies
          /\ call'[t].expected = call[t].expected
          /\ \A u \in Threads \ {t} : pc'[u] = pc[u] /\ call'[u] = call[u]
  BY <1>0, <1>1, <1>2, <1>call, CallAdvances DEF LooseType, SubmittersSound
<1>counts. /\ refcount'[s] = refcount[s] - 1
           /\ \A p \in Sems \ {s} : refcount'[p] = refcount[p] /\ signalled'[p] = signalled[p]
  BY <1>0, <1>set, <1>ref DEF LooseType
<1>fence. signal_fence'[s].context = NoCtx /\ \A p \in Sems \ {s} : signal_fence'[p] = signal_fence[p]
  <2>1. 0 \in 0 .. NumRings /\ 0 \in 0 .. MaxSeq
    BY CsContextAssumption
  <2>2. signal_fence'[s] = [context |-> signal_fence[s].context, ring |-> 0, fence |-> 0]
    BY <1>0, <1>set, <2>1, FenceSet
  <2>3. \A p \in Sems \ {s} : signal_fence'[p] = signal_fence[p]
    BY <1>0, <1>set, <2>1, FenceSet
  <2> QED
    BY <1>held, <2>2, <2>3
<1>types. /\ \A u \in Threads : pc[u] # "idle" =>
                /\ Head(u) \in Heads /\ Head(u) \in Nodes /\ Head(u) \notin Sems
                /\ call[u].context \in Ctxs
          /\ \A p \in Sems : p \in Nodes /\ (waiting[p] # NoNode => waiting[p] \in Heads)
          /\ handle \subseteq Sems
  BY <1>0, HeadOfCall, NodesApart DEF LooseType
<1>users. \A u \in Threads \ {t} : call[u].sem # s
  BY <1>0, <1>2 DEF UsersApart
<1>heads. \A u \in Threads \ {t} : Submitting(u) \/ FreeingCtx(u) => Head(u) # h
  <2> SUFFICES ASSUME NEW u \in Threads \ {t}, Submitting(u) \/ FreeingCtx(u)
               PROVE  Head(u) # h
    OBVIOUS
  <2>1. Submitting(u) => call[u].context # call[t].context
    BY <1>1, SubmittersApart DEF Submitting
  <2> QED
    BY <1>0, <1>1, <1>2, <2>1 DEF CallsSound, Submitting, FreeingCtx, Head
<1>unused. \A u \in Threads \ {t} : call[u].sem # next[h] \/ next[h] \notin Sems
  <2> SUFFICES ASSUME NEW u \in Threads \ {t}, call[u].sem = next[h], next[h] \in Sems
               PROVE  FALSE
    OBVIOUS
  <2>1. waiting[next[h]] = h /\ h # NoNode
    BY <1>0, <1>held, FirstEntry, NodesApart
  <2>2. pc[u] \in {"submit", "ctx_free"} /\ Head(u) = h
    BY <2>1, WaitersUnused
  <2> QED
    BY <1>heads, <2>2 DEF Submitting, FreeingCtx
<1>next. /\ \A u \in Threads : Head(u)' = Head(u)
         /\ \A u \in Threads : pc[u] # "idle" => next'[Head(u)] = next[Head(u)]
  BY <1>2, <1>ref, <1>frame, <1>types DEF Head
<1>reset. BeingReset(s) /\ ~BeingReset(s)' /\ Settled(s) /\ Settled(s)'
  BY <1>0, <1>1, <1>2, <1>held, <1>frame, <1>users
  DEF SignallersSound, Signalling, Settled, Settling, BeingReset, Resetting, Emptying,
      FreeingCtx
<1>same. \A p \in Sems \ {s} :
            /\ (Settled(p)' <=> Settled(p))
            /\ (BeingReset(p)' <=> BeingReset(p))
            /\ (Emptying(waiting[p])' <=> Emptying(waiting[p]))
  BY <1>1, <1>2, <1>frame, <1>users, <1>types, NodesApart
  DEF Settled, Settling, BeingReset, Resetting, Emptying, FreeingCtx
<1>charged. /\ Charged(s) /\ ~Charged(s)'
            /\ \A p \in Sems \ {s} : Charged(p)' <=> Charged(p)
  BY <1>fence, <1>reset, <1>same DEF Charged
<1>awaited. \A u \in Threads : pc[u] # "idle" => Awaited(Head(u))' = Awaited(Head(u))
  <2> SUFFICES ASSUME NEW u \in Threads, pc[u] # "idle"
               PROVE  Awaited(Head(u))' = Awaited(Head(u))
    OBVIOUS
  <2>1. ASSUME NEW g \in Heads
        PROVE  {signalled'[p] : p \in {p \in Sems : waiting[p] = g}} = Awaited(g)
    BY <1>held, <1>counts, NodesApart DEF Awaited
  <2>2. Head(u) \in Heads /\ Head(u)' = Head(u)
    BY <1>types, <1>next
  <2>3. Awaited(Head(u))' = {signalled'[p] : p \in {p \in Sems : waiting[p] = Head(u)}}
    BY <1>1, <2>2 DEF Awaited
  <2> QED
    BY <2>1, <2>2, <2>3
<1>19. CallsSound'
  BY <1>0, <1>1, <1>frame DEF CallsSound, Signalling, Submitting, FreeingCtx
<1>20. ContextsApart'
  BY <1>0, <1>1, <1>frame DEF ContextsApart, FreeingCtx
<1>21. SignallersSound'
  BY <1>0, <1>1, <1>2, <1>fence, <1>frame, <1>types, <1>users DEF SignallersSound, Signalling
<1>22. SubmittersSound'
  BY <1>0, <1>1, <1>2, <1>fence, <1>frame, <1>users, <1>next DEF SubmittersSound
<1>23. CtxFreersSound'
  BY <1>0, <1>1, <1>ref, <1>fence, <1>frame, <1>types, <1>users, <1>next DEF CtxFreersSound
<1>24. UsersApart'
  BY <1>0, <1>2, <1>frame, <1>unused DEF UsersApart
<1>25. RefsHeld'
  BY <1>0, <1>1, <1>counts, <1>charged DEF RefsHeld, LooseType
<1>26. SignalsSound'
  BY <1>0, <1>counts, <1>fence, <1>same DEF SignalsSound
<1>27. WaitersSound'
  BY <1>0, <1>1, <1>2, <1>held, <1>fence, <1>same DEF WaitersSound
<1>28. FencesSound'
  <2> SUFFICES ASSUME NEW p \in Sems, signal_fence'[p].context # NoCtx,
                      p \in handle' \/ waiting'[p] # NoNode,
                      waiting'[p] # NoNode => waiting'[p][1] \in live'
               PROVE  /\ signal_fence'[p].context \in live'
                      /\ Settled(p)' =>
                            /\ signal_fence'[p].ring \in Rings
                            /\ signal_fence'[p].fence
                                 <= kernelSeq'[signal_fence'[p].context, signal_fence'[p].ring]
    BY DEF FencesSound
  <2>0. FencesSound
    BY <1>0
  <2>1. p # s /\ signal_fence'[p] = signal_fence[p]
    BY <1>fence
  <2>2. UNCHANGED <<live, handle, waiting, kernelSeq>>
    BY <1>1
  <2> QED
    BY <2>0, <1>same, <2>1, <2>2 DEF FencesSound
<1>29. LinksSound' /\ Ordered'
  BY <1>0, <1>1, <1>held, <1>ref, <1>frame, <1>types, LinksFrame, NodesApart
  DEF Active, FreeingCtx
<1>30. SubmissionsSound'
  BY <1>0, <1>1, <1>frame, <1>next, <1>awaited DEF SubmissionsSound
<1>31. DependenciesSound'
  BY <1>0, <1>1, <1>frame DEF DependenciesSound
<1> QED
  BY <1>0, <1>19, <1>20, <1>21, <1>22, <1>23, <1>24, <1>25, <1>26, <1>27, <1>28, <1>29, <1>30,
     <1>31
  DEF CsInvariant

(* The client's reference stays, so the assertion holds and the entry may be read. *)
LEMMA CtxFreeResetKeeps ==
  ASSUME Careful = TRUE, CsInvariant, NEW t \in Threads, CtxFreeReset(t)
  PROVE  CsInvariant'
<1>0. /\ SeqInvariant' /\ LooseType'
      /\ SeqInvariant /\ LooseType /\ ArgumentsSound /\ MutexHeld /\ SequenceSound
      /\ CallsSound /\ ContextsApart /\ SignallersSound /\ SubmittersSound /\ CtxFreersSound
      /\ UsersApart /\ RefsHeld /\ SignalsSound /\ WaitersSound /\ FencesSound
      /\ LinksSound /\ Ordered /\ SubmissionsSound /\ DependenciesSound
  BY CtxFreeResetSequence DEF CsInvariant, SeqInvariant
<1>1. /\ pc[t] = "ctx_reset"
      /\ UNCHANGED <<live, sequence_mutex, last_seq, kernelSeq, prev, waiting, handle, call>>
  BY DEF CtxFreeReset, At, Goto, Return, Abort, seqVars, listVars, semVars
<1>2. PICK s \in Sems, h \in Heads :
             /\ s = call[t].sem /\ h = Head(t) /\ h[1] = call[t].context /\ h[1] \in Ctxs
  BY <1>0, <1>1, HeadOfCall DEF ArgumentsSound, Working
<1>set. SetFence(s, 0, 0) /\ signalled' = [signalled EXCEPT ![s] = NoFence]
  BY <1>2 DEF CtxFreeReset, At, Goto, Return, Abort, seqVars, listVars, semVars, SetFence
<1>held. /\ waiting[s] = NoNode /\ signal_fence[s].context = NoCtx /\ Active(h[1])
         /\ s \in handle /\ next[s] = next[h] /\ refcount[s] = 2
         /\ Unreference(s) /\ pc' = [pc EXCEPT ![t] = "ctx_next"]
  <2>1. /\ waiting[s] = NoNode /\ signal_fence[s].context = NoCtx /\ Active(h[1])
        /\ s \in handle /\ next[s] = next[h]
    BY <1>0, <1>1, <1>2, HeadOfCall DEF CtxFreersSound, FreeingCtx
  <2>2. Charged(s)
    BY <1>1, <1>2 DEF Charged, BeingReset, Resetting
  <2>3. refcount[s] = 2
    BY <1>0, <2>1, <2>2 DEF RefsHeld
  <2> QED
    BY <1>2, <2>1, <2>3 DEF CtxFreeReset, At, Goto, Return, Abort, seqVars, listVars, semVars
<1>ref. /\ refcount' = [refcount EXCEPT ![s] = @ - 1]
        /\ next' = next
  BY <1>0, <1>held DEF LooseType, Unreference
<1>frame. /\ pc'[t] = "ctx_next" /\ call'[t] = call[t]
          /\ \A u \in Threads \ {t} : pc'[u] = pc[u] /\ call'[u] = call[u]
  BY <1>0, <1>1, <1>held DEF LooseType
<1>counts. /\ refcount'[s] = refcount[s] - 1
           /\ \A p \in Sems \ {s} : refcount'[p] = refcount[p] /\ signalled'[p] = signalled[p]
  BY <1>0, <1>set, <1>ref DEF LooseType
<1>fence. signal_fence'[s].context = NoCtx /\ \A p \in Sems \ {s} : signal_fence'[p] = signal_fence[p]
  <2>1. 0 \in 0 .. NumRings /\ 0 \in 0 .. MaxSeq
    BY CsContextAssumption
  <2>2. signal_fence'[s] = [context |-> signal_fence[s].context, ring |-> 0, fence |-> 0]
    BY <1>0, <1>set, <2>1, FenceSet
  <2>3. \A p \in Sems \ {s} : signal_fence'[p] = signal_fence[p]
    BY <1>0, <1>set, <2>1, FenceSet
  <2> QED
    BY <1>held, <2>2, <2>3
<1>types. /\ \A u \in Threads : pc[u] # "idle" =>
                /\ Head(u) \in Heads /\ Head(u) \in Nodes /\ Head(u) \notin Sems
                /\ call[u].context \in Ctxs
          /\ \A p \in Sems : p \in Nodes /\ (waiting[p] # NoNode => waiting[p] \in Heads)
          /\ handle \subseteq Sems
  BY <1>0, HeadOfCall, NodesApart DEF LooseType
<1>users. \A u \in Threads \ {t} : call[u].sem # s
  BY <1>0, <1>2 DEF UsersApart
<1>next. /\ \A u \in Threads : Head(u)' = Head(u)
         /\ \A u \in Threads : pc[u] # "idle" => next'[Head(u)] = next[Head(u)]
  BY <1>2, <1>ref, <1>frame, <1>types DEF Head
<1>reset. BeingReset(s) /\ ~BeingReset(s)' /\ Settled(s) /\ Settled(s)'
  BY <1>0, <1>1, <1>2, <1>held, <1>frame, <1>users
  DEF SignallersSound, Signalling, Settled, Settling, BeingReset, Resetting, Emptying,
      FreeingCtx
<1>same. \A p \in Sems \ {s} :
            /\ (Settled(p)' <=> Settled(p))
            /\ (BeingReset(p)' <=> BeingReset(p))
            /\ (Emptying(waiting[p])' <=> Emptying(waiting[p]))
  BY <1>1, <1>2, <1>frame, <1>users
  DEF Settled, Settling, BeingReset, Resetting, Emptying, FreeingCtx
<1>charged. /\ Charged(s) /\ ~Charged(s)'
            /\ \A p \in Sems \ {s} : Charged(p)' <=> Charged(p)
  BY <1>fence, <1>reset, <1>same DEF Charged
<1>awaited. \A u \in Threads : pc[u] # "idle" => Awaited(Head(u))' = Awaited(Head(u))
  <2> SUFFICES ASSUME NEW u \in Threads, pc[u] # "idle"
               PROVE  Awaited(Head(u))' = Awaited(Head(u))
    OBVIOUS
  <2>1. ASSUME NEW g \in Heads
        PROVE  {signalled'[p] : p \in {p \in Sems : waiting[p] = g}} = Awaited(g)
    BY <1>held, <1>counts, NodesApart DEF Awaited
  <2>2. Head(u) \in Heads /\ Head(u)' = Head(u)
    BY <1>types, <1>next
  <2>3. Awaited(Head(u))' = {signalled'[p] : p \in {p \in Sems : waiting[p] = Head(u)}}
    BY <1>1, <2>2 DEF Awaited
  <2> QED
    BY <2>1, <2>2, <2>3
<1>16. CallsSound'
  BY <1>0, <1>1, <1>frame DEF CallsSound, Signalling, Submitting, FreeingCtx
<1>17. ContextsApart'
  BY <1>0, <1>1, <1>frame DEF ContextsApart, FreeingCtx
<1>18. SignallersSound'
  BY <1>0, <1>1, <1>2, <1>fence, <1>frame, <1>types, <1>users DEF SignallersSound, Signalling
<1>19. SubmittersSound'
  BY <1>0, <1>1, <1>2, <1>fence, <1>frame, <1>users, <1>next DEF SubmittersSound
<1>20. CtxFreersSound'
  BY <1>0, <1>1, <1>ref, <1>fence, <1>frame, <1>types, <1>next DEF CtxFreersSound
<1>21. UsersApart'
  BY <1>0, <1>2, <1>frame DEF UsersApart
<1>22. RefsHeld'
  BY <1>0, <1>1, <1>counts, <1>charged DEF RefsHeld, LooseType
<1>23. SignalsSound'
  BY <1>0, <1>counts, <1>fence, <1>same DEF SignalsSound
<1>24. WaitersSound'
  BY <1>0, <1>1, <1>2, <1>held, <1>fence, <1>same DEF WaitersSound
<1>25. FencesSound'
  <2> SUFFICES ASSUME NEW p \in Sems, signal_fence'[p].context # NoCtx,
                      p \in handle' \/ waiting'[p] # NoNode,
                      waiting'[p] # NoNode => waiting'[p][1] \in live'
               PROVE  /\ signal_fence'[p].context \in live'
                      /\ Settled(p)' =>
                            /\ signal_fence'[p].ring \in Rings
                            /\ signal_fence'[p].fence
                                 <= kernelSeq'[signal_fence'[p].context, signal_fence'[p].ring]
    BY DEF FencesSound
  <2>0. FencesSound
    BY <1>0
  <2>1. p # s /\ signal_fence'[p] = signal_fence[p]
    BY <1>fence
  <2>2. UNCHANGED <<live, handle, waiting, kernelSeq>>
    BY <1>1
  <2> QED
    BY <2>0, <1>same, <2>1, <2>2 DEF FencesSound
<1>26. LinksSound' /\ Ordered'
  BY <1>0, <1>1, <1>held, <1>ref, <1>frame, <1>types, LinksFrame, NodesApart
  DEF Active, FreeingCtx
<1>27. SubmissionsSound'
  BY <1>0, <1>1, <1>frame, <1>next, <1>awaited DEF SubmissionsSound
<1>28. DependenciesSound'
  BY <1>0, <1>1, <1>frame DEF DependenciesSound
<1> QED
  BY <1>0, <1>16, <1>17, <1>18, <1>19, <1>20, <1>21, <1>22, <1>23, <1>24, <1>25, <1>26, <1>27,
     <1>28
  DEF CsInvariant

(* The kernel numbers the submission: no fence is ahead of it. *)
LEMMA SubmitKernelKeeps ==
  ASSUME Careful = TRUE, CsInvariant, NEW t \in Threads, SubmitKernel(t)
  PROVE  CsInvariant'
<1>0. /\ SeqInvariant' /\ LooseType'
      /\ SeqInvariant /\ LooseType /\ ArgumentsSound /\ MutexHeld /\ SequenceSound
      /\ CallsSound /\ ContextsApart /\ SignallersSound /\ SubmittersSound /\ CtxFreersSound
      /\ UsersApart /\ RefsHeld /\ SignalsSound /\ WaitersSound /\ FencesSound
      /\ LinksSound /\ Ordered /\ SubmissionsSound /\ DependenciesSound
  BY SubmitKernelSequence DEF CsInvariant, SeqInvariant
<1>1. /\ pc[t] = "submit" /\ pc' = [pc EXCEPT ![t] = "submitted"]
      /\ UNCHANGED <<live, sequence_mutex, last_seq, next, prev, waiting, refcount,
                     signal_fence, handle, signalled>>
  BY DEF SubmitKernel, At, Goto, Return, Abort, seqVars, listVars, semVars
<1>head. PICK h \in Heads : h = Head(t) /\ h[1] = call[t].context /\ h[1] \in Ctxs
  BY <1>1, HeadOfCall DEF SubmitKernel
<1>kernel. kernelSeq' = [kernelSeq EXCEPT ![h] = @ + 1] /\ call[t].sem = h
  BY <1>head DEF SubmitKernel, At, Goto, Return, Abort, seqVars, listVars, semVars
<1>grow. \A g \in Heads : kernelSeq[g] <= kernelSeq'[g]
  BY <1>0, <1>kernel DEF LooseType
<1>call. call' = [call EXCEPT ![t].seq_no = kernelSeq[h] + 1]
  BY <1>head DEF SubmitKernel, At, Goto, Return, Abort, seqVars, listVars, semVars
<1>frame. /\ pc'[t] = "submitted" /\ call'[t].context = call[t].context /\ call'[t].ring = call[t].ring
          /\ call'[t].sem = h /\ call'[t].dependencies = call[t].dependencies
          /\ \A u \in Threads \ {t} : pc'[u] = pc[u] /\ call'[u] = call[u]
  <2>1. call'[t] = [call[t] EXCEPT !.seq_no = kernelSeq[h] + 1]
    BY <1>0, <1>call DEF LooseType
  <2>2. call[t] \in CallType
    BY <1>0 DEF LooseType
  <2>3. /\ call'[t].context = call[t].context /\ call'[t].ring = call[t].ring
        /\ call'[t].sem = call[t].sem /\ call'[t].dependencies = call[t].dependencies
    BY <2>1, <2>2 DEF CallType
  <2>4. pc'[t] = "submitted" /\ \A u \in Threads \ {t} : pc'[u] = pc[u] /\ call'[u] = call[u]
    BY <1>0, <1>1, <1>call DEF LooseType
  <2> QED
    BY <1>kernel, <2>3, <2>4
<1>heads. \A u \in Threads : Head(u)' = Head(u)
  BY <1>frame DEF Head
<1>same. /\ \A p \in Sems : /\ (Settled(p)' <=> Settled(p))
                          /\ (BeingReset(p)' <=> BeingReset(p))
                          /\ (Emptying(waiting[p])' <=> Emptying(waiting[p]))
  BY <1>1, <1>frame DEF Settled, Settling, BeingReset, Resetting, Emptying, FreeingCtx
<1>awaited. \A u \in Threads : pc[u] # "idle" => Awaited(Head(u))' = Awaited(Head(u))
  BY <1>1, <1>heads DEF Awaited
<1>charged. \A p \in Sems : Charged(p)' <=> Charged(p)
  BY <1>1, <1>same DEF Charged
<1>12. CallsSound'
  BY <1>0, <1>1, <1>frame DEF CallsSound, Signalling, Submitting, FreeingCtx
<1>13. ContextsApart'
  BY <1>0, <1>1, <1>frame DEF ContextsApart, FreeingCtx
<1>14. SignallersSound'
  BY <1>0, <1>1, <1>frame DEF SignallersSound, Signalling
<1>15. SubmittersSound'
  BY <1>0, <1>1, <1>head, <1>frame, <1>heads DEF SubmittersSound
<1>16. CtxFreersSound'
  BY <1>0, <1>1, <1>frame, <1>heads DEF CtxFreersSound
<1>17. UsersApart'
  BY <1>0, <1>kernel, <1>frame DEF UsersApart
<1>18. RefsHeld'
  BY <1>0, <1>1, <1>charged DEF RefsHeld
<1>19. SignalsSound'
  BY <1>0, <1>1, <1>same DEF SignalsSound
<1>20. WaitersSound'
  BY <1>0, <1>1, <1>same DEF WaitersSound
<1>21. FencesSound'
  <2> SUFFICES ASSUME NEW p \in Sems, signal_fence'[p].context # NoCtx,
                      p \in handle' \/ waiting'[p] # NoNode,
                      waiting'[p] # NoNode => waiting'[p][1] \in live'
               PROVE  /\ signal_fence'[p].context \in live'
                      /\ Settled(p)' =>
                            /\ signal_fence'[p].ring \in Rings
                            /\ signal_fence'[p].fence
                                 <= kernelSeq'[signal_fence'[p].context, signal_fence'[p].ring]
    BY DEF FencesSound
  <2>0. FencesSound
    BY <1>0
  <2>1. UNCHANGED <<live, signal_fence, handle, waiting>>
    BY <1>1
  <2>2. /\ signal_fence[p].context \in live
        /\ Settled(p) => /\ signal_fence[p].ring \in Rings
                         /\ signal_fence[p].fence
                              <= kernelSeq[<<signal_fence[p].context, signal_fence[p].ring>>]
    BY <2>0, <2>1 DEF FencesSound
  <2>3. Settled(p)' <=> Settled(p)
    BY <1>same
  <2> SUFFICES ASSUME Settled(p)
               PROVE  signal_fence[p].fence
                         <= kernelSeq'[<<signal_fence[p].context, signal_fence[p].ring>>]
    BY <2>1, <2>2, <2>3
  <2>4. <<signal_fence[p].context, signal_fence[p].ring>> \in Heads
    BY <2>2, <1>0 DEF LooseType, Heads
  <2>5. /\ signal_fence[p].fence \in 0 .. MaxSeq
        /\ kernelSeq[<<signal_fence[p].context, signal_fence[p].ring>>] \in 0 .. MaxSeq
        /\ kernelSeq'[<<signal_fence[p].context, signal_fence[p].ring>>] \in 0 .. MaxSeq
    BY <2>4, <1>0 DEF LooseType, FenceType
  <2>6. kernelSeq[<<signal_fence[p].context, signal_fence[p].ring>>]
           <= kernelSeq'[<<signal_fence[p].context, signal_fence[p].ring>>]
    BY <1>grow, <2>4
  <2> QED
    BY <2>2, <2>5, <2>6, CsContextAssumption
<1>22. LinksSound' /\ Ordered'
  BY <1>0, <1>1, <1>frame, LinksFrame, NodesApart DEF Active, FreeingCtx
<1>23. SubmissionsSound'
  BY <1>0, <1>1, <1>frame, <1>heads, <1>awaited DEF SubmissionsSound
<1>24. DependenciesSound'
  <2> SUFFICES ASSUME NEW u \in Threads, NEW f \in call'[u].dependencies
               PROVE  /\ f.context \in live' /\ f.ring \in Rings
                      /\ f.fence <= kernelSeq'[f.context, f.ring]
    BY DEF DependenciesSound
  <2>1. f \in call[u].dependencies /\ live' = live
    BY <1>1, <1>frame
  <2>2. f \in FenceType
    BY <1>0, <2>1 DEF LooseType, CallType
  <2>3. f.context \in live /\ f.ring \in Rings /\ f.fence <= kernelSeq[f.context, f.ring]
    BY <1>0, <2>1 DEF DependenciesSound
  <2>4. <<f.context, f.ring>> \in Heads
    BY <1>0, <2>3 DEF LooseType, Heads
  <2>5. kernelSeq[<<f.context, f.ring>>] <= kernelSeq'[<<f.context, f.ring>>]
    BY <1>grow, <2>4
  <2>6. /\ f.fence \in 0 .. MaxSeq /\ kernelSeq[<<f.context, f.ring>>] \in 0 .. MaxSeq
        /\ kernelSeq'[<<f.context, f.ring>>] \in 0 .. MaxSeq
    BY <1>0, <2>2, <2>4 DEF LooseType, FenceType
  <2>7. f.fence <= kernelSeq'[<<f.context, f.ring>>]
    <3>1. f.fence <= kernelSeq[<<f.context, f.ring>>]
      BY <2>3
    <3>2. ASSUME NEW a \in Nat, NEW b \in Nat, NEW d \in Nat, a <= b, b <= d PROVE a <= d
      BY <3>2
    <3> QED
      BY <2>5, <2>6, <3>1, <3>2, CsContextAssumption
  <2> QED
    BY <2>1, <2>3, <2>7
<1> QED
  BY <1>0, <1>12, <1>13, <1>14, <1>15, <1>16, <1>17, <1>18, <1>19, <1>20, <1>21, <1>22, <1>23,
     <1>24
  DEF CsInvariant

(* The submission is over. *)
LEMMA SubmitFailsKeeps ==
  ASSUME Careful = TRUE, CsInvariant, NEW t \in Threads, SubmitFails(t)
  PROVE  CsInvariant'
<1>0. /\ SeqInvariant' /\ LooseType'
      /\ SeqInvariant /\ LooseType /\ ArgumentsSound /\ MutexHeld /\ SequenceSound
      /\ CallsSound /\ ContextsApart /\ SignallersSound /\ SubmittersSound /\ CtxFreersSound
      /\ UsersApart /\ RefsHeld /\ SignalsSound /\ WaitersSound /\ FencesSound
      /\ LinksSound /\ Ordered /\ SubmissionsSound /\ DependenciesSound
  BY SubmitFailsSequence DEF CsInvariant, SeqInvariant
<1>1. /\ pc[t] = "submit" /\ pc' = [pc EXCEPT ![t] = "idle"]
      /\ call' = [call EXCEPT ![t] = NoCall]
      /\ UNCHANGED <<live, last_seq, kernelSeq, next, prev, waiting, refcount, signal_fence,
                     handle, signalled>>
  BY DEF SubmitFails, At, Goto, Return, Abort, Unlock, seqVars, listVars, semVars
<1>head. PICK h \in Heads : h = Head(t) /\ h[1] = call[t].context /\ h[1] \in Ctxs
  BY <1>1, HeadOfCall DEF SubmitFails
<1>users. call[t].sem \notin Sems
  BY <1>0, <1>head, NodesApart
  DEF SubmitFails, At, Goto, Return, Abort, Unlock, seqVars, listVars, semVars,
      SubmittersSound
<1>frame. /\ pc'[t] = "idle" /\ call'[t] = NoCall /\ NoCall.sem = NoNode /\ NoCall.context = NoCtx
          /\ NoCall.dependencies = {} /\ NoNode \notin Sems
          /\ \A u \in Threads \ {t} : pc'[u] = pc[u] /\ call'[u] = call[u]
  BY <1>0, <1>1, Empties, NodesApart DEF LooseType
<1>next. \A u \in Threads \ {t} : Head(u)' = Head(u) /\ Awaited(Head(u))' = Awaited(Head(u))
  BY <1>1, <1>frame DEF Head, Awaited
<1>same. \A p \in Sems :
            /\ (Settled(p)' <=> Settled(p))
            /\ (BeingReset(p)' <=> BeingReset(p))
  BY <1>1, <1>users, <1>frame DEF Settled, Settling, BeingReset, Resetting, Emptying, FreeingCtx
<1>charged. \A p \in Sems : Charged(p)' <=> Charged(p)
  BY <1>1, <1>same DEF Charged
<1>9. CallsSound'
  BY <1>0, <1>1, <1>frame DEF CallsSound, Signalling, Submitting, FreeingCtx
<1>10. ContextsApart'
  BY <1>0, <1>frame, CsContextAssumption DEF ContextsApart, FreeingCtx, CallsSound
<1>11. SignallersSound'
  BY <1>0, <1>1, <1>frame DEF SignallersSound, Signalling
<1>12. SubmittersSound'
  BY <1>0, <1>1, <1>frame, <1>next DEF SubmittersSound
<1>13. CtxFreersSound'
  BY <1>0, <1>1, <1>frame, <1>next DEF CtxFreersSound
<1>14. UsersApart'
  BY <1>0, <1>frame DEF UsersApart
<1>15. RefsHeld'
  BY <1>0, <1>1, <1>charged DEF RefsHeld
<1>16. SignalsSound'
  BY <1>0, <1>1, <1>same DEF SignalsSound
<1>17. WaitersSound'
  BY <1>0, <1>1, <1>frame DEF WaitersSound, Emptying, FreeingCtx
<1>18. FencesSound'
  <2> SUFFICES ASSUME NEW p \in Sems, signal_fence'[p].context # NoCtx,
                      p \in handle' \/ waiting'[p] # NoNode,
                      waiting'[p] # NoNode => waiting'[p][1] \in live'
               PROVE  /\ signal_fence'[p].context \in live'
                      /\ Settled(p)' =>
                            /\ signal_fence'[p].ring \in Rings
                            /\ signal_fence'[p].fence
                                 <= kernelSeq'[signal_fence'[p].context, signal_fence'[p].ring]
    BY DEF FencesSound
  <2>0. FencesSound
    BY <1>0
  <2>1. UNCHANGED <<live, kernelSeq, signal_fence, handle, waiting>>
    BY <1>1
  <2> QED
    BY <2>0, <1>same, <2>1 DEF FencesSound
<1>19. LinksSound' /\ Ordered'
  BY <1>0, <1>1, <1>frame, LinksFrame, NodesApart DEF Active, FreeingCtx
<1>20. SubmissionsSound'
  BY <1>0, <1>1, <1>frame, <1>next DEF SubmissionsSound
<1>21. DependenciesSound'
  BY <1>0, <1>1, <1>frame DEF DependenciesSound
<1> QED
  BY <1>0, <1>9, <1>10, <1>11, <1>12, <1>13, <1>14, <1>15, <1>16, <1>17, <1>18, <1>19, <1>20,
     <1>21
  DEF CsInvariant

(* The submission is over. *)
LEMMA SubmitReturnKeeps ==
  ASSUME Careful = TRUE, CsInvariant, NEW t \in Threads, SubmitReturn(t)
  PROVE  CsInvariant'
<1>0. /\ SeqInvariant' /\ LooseType'
      /\ SeqInvariant /\ LooseType /\ ArgumentsSound /\ MutexHeld /\ SequenceSound
      /\ CallsSound /\ ContextsApart /\ SignallersSound /\ SubmittersSound /\ CtxFreersSound
      /\ UsersApart /\ RefsHeld /\ SignalsSound /\ WaitersSound /\ FencesSound
      /\ LinksSound /\ Ordered /\ SubmissionsSound /\ DependenciesSound
  BY SubmitReturnSequence DEF CsInvariant, SeqInvariant
<1>1. /\ pc[t] = "submitted" /\ pc' = [pc EXCEPT ![t] = "idle"]
      /\ call' = [call EXCEPT ![t] = NoCall]
      /\ UNCHANGED <<live, kernelSeq, next, prev, waiting, refcount, signal_fence, handle,
                     signalled>>
  BY DEF SubmitReturn, At, Goto, Return, Abort, Unlock, seqVars, listVars, semVars
<1>head. PICK h \in Heads : h = Head(t) /\ h[1] = call[t].context /\ h[1] \in Ctxs
  BY <1>1, HeadOfCall DEF SubmitReturn
<1>users. call[t].sem \notin Sems
  BY <1>0, <1>head, NodesApart
  DEF SubmitReturn, At, Goto, Return, Abort, Unlock, seqVars, listVars, semVars,
      SubmittersSound
<1>frame. /\ pc'[t] = "idle" /\ call'[t] = NoCall /\ NoCall.sem = NoNode /\ NoCall.context = NoCtx
          /\ NoCall.dependencies = {} /\ NoNode \notin Sems
          /\ \A u \in Threads \ {t} : pc'[u] = pc[u] /\ call'[u] = call[u]
  BY <1>0, <1>1, Empties, NodesApart DEF LooseType
<1>next. \A u \in Threads \ {t} : Head(u)' = Head(u) /\ Awaited(Head(u))' = Awaited(Head(u))
  BY <1>1, <1>frame DEF Head, Awaited
<1>same. \A p \in Sems :
            /\ (Settled(p)' <=> Settled(p))
            /\ (BeingReset(p)' <=> BeingReset(p))
  BY <1>1, <1>users, <1>frame DEF Settled, Settling, BeingReset, Resetting, Emptying, FreeingCtx
<1>charged. \A p \in Sems : Charged(p)' <=> Charged(p)
  BY <1>1, <1>same DEF Charged
<1>9. CallsSound'
  BY <1>0, <1>1, <1>frame DEF CallsSound, Signalling, Submitting, FreeingCtx
<1>10. ContextsApart'
  BY <1>0, <1>frame, CsContextAssumption DEF ContextsApart, FreeingCtx, CallsSound
<1>11. SignallersSound'
  BY <1>0, <1>1, <1>frame DEF SignallersSound, Signalling
<1>12. SubmittersSound'
  BY <1>0, <1>1, <1>frame, <1>next DEF SubmittersSound
<1>13. CtxFreersSound'
  BY <1>0, <1>1, <1>frame, <1>next DEF CtxFreersSound
<1>14. UsersApart'
  BY <1>0, <1>frame DEF UsersApart
<1>15. RefsHeld'
  BY <1>0, <1>1, <1>charged DEF RefsHeld
<1>16. SignalsSound'
  BY <1>0, <1>1, <1>same DEF SignalsSound
<1>17. WaitersSound'
  BY <1>0, <1>1, <1>frame DEF WaitersSound, Emptying, FreeingCtx
<1>18. FencesSound'
  <2> SUFFICES ASSUME NEW p \in Sems, signal_fence'[p].context # NoCtx,
                      p \in handle' \/ waiting'[p] # NoNode,
                      waiting'[p] # NoNode => waiting'[p][1] \in live'
               PROVE  /\ signal_fence'[p].context \in live'
                      /\ Settled(p)' =>
                            /\ signal_fence'[p].ring \in Rings
                            /\ signal_fence'[p].fence
                                 <= kernelSeq'[signal_fence'[p].context, signal_fence'[p].ring]
    BY DEF FencesSound
  <2>0. FencesSound
    BY <1>0
  <2>1. UNCHANGED <<live, kernelSeq, signal_fence, handle, waiting>>
    BY <1>1
  <2> QED
    BY <2>0, <1>same, <2>1 DEF FencesSound
<1>19. LinksSound' /\ Ordered'
  BY <1>0, <1>1, <1>frame, LinksFrame, NodesApart DEF Active, FreeingCtx
<1>20. SubmissionsSound'
  BY <1>0, <1>1, <1>frame, <1>next DEF SubmissionsSound
<1>21. DependenciesSound'
  BY <1>0, <1>1, <1>frame DEF DependenciesSound
<1> QED
  BY <1>0, <1>9, <1>10, <1>11, <1>12, <1>13, <1>14, <1>15, <1>16, <1>17, <1>18, <1>19, <1>20,
     <1>21
  DEF CsInvariant

(* All lists of the context are empty. *)
LEMMA CtxFreeReturnKeeps ==
  ASSUME Careful = TRUE, CsInvariant, NEW t \in Threads, CtxFreeReturn(t)
  PROVE  CsInvariant'
<1>0. /\ SeqInvariant' /\ LooseType'
      /\ SeqInvariant /\ LooseType /\ ArgumentsSound /\ MutexHeld /\ SequenceSound
      /\ CallsSound /\ ContextsApart /\ SignallersSound /\ SubmittersSound /\ CtxFreersSound
      /\ UsersApart /\ RefsHeld /\ SignalsSound /\ WaitersSound /\ FencesSound
      /\ LinksSound /\ Ordered /\ SubmissionsSound /\ DependenciesSound
  BY CtxFreeReturnSequence DEF CsInvariant, SeqInvariant
<1>1. /\ pc[t] = "ctx_free" /\ pc' = [pc EXCEPT ![t] = "idle"]
      /\ call' = [call EXCEPT ![t] = NoCall]
      /\ UNCHANGED <<live, sequence_mutex, last_seq, kernelSeq, next, prev, waiting, refcount,
                     signal_fence, handle, signalled>>
  BY DEF CtxFreeReturn, At, Goto, Return, Abort, seqVars, listVars, semVars
<1>head. PICK h \in Heads : h = Head(t) /\ h[1] = call[t].context /\ h[1] \in Ctxs
  BY <1>1, HeadOfCall DEF CtxFreeReturn
<1>users. call[t].sem \notin Sems
  BY <1>0, <1>head, NodesApart
  DEF CtxFreeReturn, At, Goto, Return, Abort, seqVars, listVars, semVars, SubmittersSound
<1>frame. /\ pc'[t] = "idle" /\ call'[t] = NoCall /\ NoCall.sem = NoNode /\ NoCall.context = NoCtx
          /\ NoCall.dependencies = {} /\ NoNode \notin Sems
          /\ \A u \in Threads \ {t} : pc'[u] = pc[u] /\ call'[u] = call[u]
  BY <1>0, <1>1, Empties, NodesApart DEF LooseType
<1>types. /\ \A u \in Threads : pc[u] # "idle" =>
                /\ Head(u) \in Heads /\ Head(u) \in Nodes /\ Head(u) \notin Sems
                /\ call[u].context \in Ctxs
          /\ \A p \in Sems : p \in Nodes /\ (waiting[p] # NoNode => waiting[p] \in Heads)
          /\ handle \subseteq Sems
  BY <1>0, HeadOfCall, NodesApart DEF LooseType
<1>empty. \A p \in Sems : waiting[p] # h
  <2>1. next[h] = h /\ Active(h[1])
    BY <1>0, <1>1, <1>head, HeadOfCall DEF CtxFreersSound, FreeingCtx, CtxFreeReturn
  <2> QED
    BY <1>0, <2>1, ListEmpty
<1>last. call[t].ring = NumRings
  BY <1>1 DEF CtxFreeReturn, At, Goto, Return, Abort, seqVars, listVars, semVars
<1>next. \A u \in Threads \ {t} : Head(u)' = Head(u) /\ Awaited(Head(u))' = Awaited(Head(u))
  BY <1>1, <1>frame DEF Head, Awaited
<1>same. \A p \in Sems :
            /\ (Settled(p)' <=> Settled(p))
            /\ (BeingReset(p)' <=> BeingReset(p))
  BY <1>1, <1>users, <1>frame DEF Settled, Settling, BeingReset, Resetting, Emptying, FreeingCtx
<1>charged. \A p \in Sems : Charged(p)' <=> Charged(p)
  BY <1>1, <1>same DEF Charged
<1>11. CallsSound'
  BY <1>0, <1>1, <1>frame DEF CallsSound, Signalling, Submitting, FreeingCtx
<1>12. ContextsApart'
  BY <1>0, <1>frame, CsContextAssumption DEF ContextsApart, FreeingCtx, CallsSound
<1>13. SignallersSound'
  BY <1>0, <1>1, <1>frame DEF SignallersSound, Signalling
<1>14. SubmittersSound'
  BY <1>0, <1>1, <1>frame, <1>next DEF SubmittersSound
<1>15. CtxFreersSound'
  BY <1>0, <1>1, <1>frame, <1>next DEF CtxFreersSound
<1>16. UsersApart'
  BY <1>0, <1>frame DEF UsersApart
<1>17. RefsHeld'
  BY <1>0, <1>1, <1>charged DEF RefsHeld
<1>18. SignalsSound'
  BY <1>0, <1>1, <1>same DEF SignalsSound
<1>19. WaitersSound'
  <2> SUFFICES ASSUME NEW p \in Sems, waiting'[p] # NoNode
               PROVE  /\ signal_fence'[p].context # NoCtx
                      /\ \/ waiting'[p][1] \in live'
                         \/ p \in handle' /\ Emptying(waiting[p])'
    BY <1>1 DEF WaitersSound
  <2>1. UNCHANGED <<live, signal_fence, handle, waiting>>
    BY <1>1
  <2>2. waiting[p] \in Heads /\ waiting[p] # h
    BY <1>empty, <1>types, <2>1
  <2>3. Emptying(waiting[p]) => Emptying(waiting[p])'
    <3>1. ~(call[t].context = waiting[p][1] /\ call[t].ring <= waiting[p][2])
      <4> SUFFICES ASSUME call[t].context = waiting[p][1], call[t].ring <= waiting[p][2]
                   PROVE  FALSE
        OBVIOUS
      <4>1. waiting[p][2] \in 1 .. NumRings /\ waiting[p] = <<waiting[p][1], waiting[p][2]>>
        BY <2>2, NodesApart DEF Rings
      <4>2. waiting[p][2] = call[t].ring
        BY <1>last, <4>1, CsContextAssumption
      <4> QED
        BY <1>head, <2>2, <4>1, <4>2 DEF Head
    <3> QED
      BY <1>1, <1>frame, <2>1, <3>1 DEF Emptying, FreeingCtx
  <2> QED
    BY <1>0, <2>1, <2>3 DEF WaitersSound
<1>20. FencesSound'
  <2> SUFFICES ASSUME NEW p \in Sems, signal_fence'[p].context # NoCtx,
                      p \in handle' \/ waiting'[p] # NoNode,
                      waiting'[p] # NoNode => waiting'[p][1] \in live'
               PROVE  /\ signal_fence'[p].context \in live'
                      /\ Settled(p)' =>
                            /\ signal_fence'[p].ring \in Rings
                            /\ signal_fence'[p].fence
                                 <= kernelSeq'[signal_fence'[p].context, signal_fence'[p].ring]
    BY DEF FencesSound
  <2>0. FencesSound
    BY <1>0
  <2>1. UNCHANGED <<live, kernelSeq, signal_fence, handle, waiting>>
    BY <1>1
  <2> QED
    BY <2>0, <1>same, <2>1 DEF FencesSound
<1>21. LinksSound' /\ Ordered'
  BY <1>0, <1>1, <1>frame, LinksFrame, NodesApart DEF Active, FreeingCtx
<1>22. SubmissionsSound'
  BY <1>0, <1>1, <1>frame, <1>next DEF SubmissionsSound
<1>23. DependenciesSound'
  BY <1>0, <1>1, <1>frame DEF DependenciesSound
<1> QED
  BY <1>0, <1>11, <1>12, <1>13, <1>14, <1>15, <1>16, <1>17, <1>18, <1>19, <1>20, <1>21, <1>22,
     <1>23
  DEF CsInvariant

(* The entry just reset is still there, and leads to the next. *)
LEMMA CtxFreeNextKeeps ==
  ASSUME Careful = TRUE, CsInvariant, NEW t \in Threads, CtxFreeNext(t)
  PROVE  CsInvariant'
<1>0. /\ SeqInvariant' /\ LooseType'
      /\ SeqInvariant /\ LooseType /\ ArgumentsSound /\ MutexHeld /\ SequenceSound
      /\ CallsSound /\ ContextsApart /\ SignallersSound /\ SubmittersSound /\ CtxFreersSound
      /\ UsersApart /\ RefsHeld /\ SignalsSound /\ WaitersSound /\ FencesSound
      /\ LinksSound /\ Ordered /\ SubmissionsSound /\ DependenciesSound
  BY CtxFreeNextSequence DEF CsInvariant, SeqInvariant
<1>1. /\ pc[t] = "ctx_next"
      /\ UNCHANGED <<live, sequence_mutex, last_seq, kernelSeq, next, prev, waiting, refcount,
                     signal_fence, handle, signalled>>
  BY DEF CtxFreeNext, At, Goto, Return, Abort, seqVars, listVars, semVars
<1>head. PICK s \in Sems, h \in Heads :
                /\ s = call[t].sem /\ h = Head(t) /\ h[1] = call[t].context /\ h[1] \in Ctxs
  BY <1>0, <1>1, HeadOfCall DEF ArgumentsSound, Working
<1>entry. Active(h[1]) /\ next[s] = next[h] /\ next[h] \in Sems \cup {h}
  BY <1>0, <1>1, <1>head, HeadOfCall, FirstEntry DEF CtxFreersSound, FreeingCtx
<1>call. /\ pc' = [pc EXCEPT ![t] = "ctx_free"]
         /\ call' = [call EXCEPT ![t].sem = next[h]]
  BY <1>head, <1>entry DEF CtxFreeNext, At, Goto, Return, Abort, seqVars, listVars, semVars
<1>frame. /\ pc'[t] = "ctx_free" /\ call'[t].context = call[t].context /\ call'[t].ring = call[t].ring
          /\ call'[t].sem = next[h] /\ call'[t].dependencies = call[t].dependencies
          /\ \A u \in Threads \ {t} : pc'[u] = pc[u] /\ call'[u] = call[u]
  <2>1. call'[t] = [call[t] EXCEPT !.sem = next[h]]
    BY <1>0, <1>call DEF LooseType
  <2>2. call[t] \in CallType
    BY <1>0 DEF LooseType
  <2>3. /\ call'[t].context = call[t].context /\ call'[t].ring = call[t].ring
        /\ call'[t].sem = next[h] /\ call'[t].dependencies = call[t].dependencies
    BY <2>1, <2>2 DEF CallType
  <2>4. pc'[t] = "ctx_free" /\ \A u \in Threads \ {t} : pc'[u] = pc[u] /\ call'[u] = call[u]
    BY <1>0, <1>call DEF LooseType
  <2> QED
    BY <2>3, <2>4
<1>unused. \A u \in Threads \ {t} : call[u].sem # next[h] \/ next[h] \notin Sems
  <2> SUFFICES ASSUME NEW u \in Threads \ {t}, call[u].sem = next[h], next[h] \in Sems
               PROVE  FALSE
    OBVIOUS
  <2>1. waiting[next[h]] = h /\ h # NoNode
    BY <1>0, <1>head, <1>entry, FirstEntry, NodesApart
  <2>2. pc[u] \in {"submit", "ctx_free"} /\ Head(u) = h
    BY <2>1, WaitersUnused
  <2>3. call[u].context = h[1]
    BY <1>head, <2>2 DEF Head
  <2> QED
    BY <1>0, <1>1, <1>head, <2>2, <2>3 DEF ContextsApart, FreeingCtx
<1>next. Head(t)' = h /\ \A u \in Threads \ {t} : Head(u)' = Head(u) /\ Awaited(Head(u))' = Awaited(Head(u))
  BY <1>1, <1>head, <1>frame DEF Head, Awaited
<1>same. /\ \A p \in Sems : /\ (Settled(p)' <=> Settled(p))
                          /\ (BeingReset(p)' <=> BeingReset(p))
                          /\ (Emptying(waiting[p])' <=> Emptying(waiting[p]))
  BY <1>1, <1>frame DEF Settled, Settling, BeingReset, Resetting, Emptying, FreeingCtx
<1>charged. \A p \in Sems : Charged(p)' <=> Charged(p)
  BY <1>1, <1>same DEF Charged
<1>12. CallsSound'
  BY <1>0, <1>1, <1>frame DEF CallsSound, Signalling, Submitting, FreeingCtx
<1>13. ContextsApart'
  BY <1>0, <1>1, <1>frame DEF ContextsApart, FreeingCtx
<1>14. SignallersSound'
  BY <1>0, <1>1, <1>frame DEF SignallersSound, Signalling
<1>15. SubmittersSound'
  BY <1>0, <1>1, <1>frame, <1>next DEF SubmittersSound
<1>16. CtxFreersSound'
  BY <1>0, <1>1, <1>head, <1>frame, <1>next DEF CtxFreersSound
<1>17. UsersApart'
  BY <1>0, <1>frame, <1>unused DEF UsersApart
<1>18. RefsHeld'
  BY <1>0, <1>1, <1>charged DEF RefsHeld
<1>19. SignalsSound'
  BY <1>0, <1>1, <1>same DEF SignalsSound
<1>20. WaitersSound'
  BY <1>0, <1>1, <1>frame DEF WaitersSound, Emptying, FreeingCtx
<1>21. FencesSound'
  <2> SUFFICES ASSUME NEW p \in Sems, signal_fence'[p].context # NoCtx,
                      p \in handle' \/ waiting'[p] # NoNode,
                      waiting'[p] # NoNode => waiting'[p][1] \in live'
               PROVE  /\ signal_fence'[p].context \in live'
                      /\ Settled(p)' =>
                            /\ signal_fence'[p].ring \in Rings
                            /\ signal_fence'[p].fence
                                 <= kernelSeq'[signal_fence'[p].context, signal_fence'[p].ring]
    BY DEF FencesSound
  <2>0. FencesSound
    BY <1>0
  <2>1. UNCHANGED <<live, kernelSeq, signal_fence, handle, waiting>>
    BY <1>1
  <2> QED
    BY <2>0, <1>same, <2>1 DEF FencesSound
<1>22. LinksSound' /\ Ordered'
  BY <1>0, <1>1, <1>frame, LinksFrame, NodesApart DEF Active, FreeingCtx
<1>23. SubmissionsSound'
  BY <1>0, <1>1, <1>frame, <1>next DEF SubmissionsSound
<1>24. DependenciesSound'
  BY <1>0, <1>1, <1>frame DEF DependenciesSound
<1> QED
  BY <1>0, <1>12, <1>13, <1>14, <1>15, <1>16, <1>17, <1>18, <1>19, <1>20, <1>21, <1>22, <1>23,
     <1>24
  DEF CsInvariant

(* The list is empty; the next one of the context follows. *)
LEMMA CtxFreeRingKeeps ==
  ASSUME Careful = TRUE, CsInvariant, NEW t \in Threads, CtxFreeRing(t)
  PROVE  CsInvariant'
<1>0. /\ SeqInvariant' /\ LooseType'
      /\ SeqInvariant /\ LooseType /\ ArgumentsSound /\ MutexHeld /\ SequenceSound
      /\ CallsSound /\ ContextsApart /\ SignallersSound /\ SubmittersSound /\ CtxFreersSound
      /\ UsersApart /\ RefsHeld /\ SignalsSound /\ WaitersSound /\ FencesSound
      /\ LinksSound /\ Ordered /\ SubmissionsSound /\ DependenciesSound
  BY CtxFreeRingSequence DEF CsInvariant, SeqInvariant
<1>1. /\ pc[t] = "ctx_free"
      /\ UNCHANGED <<live, sequence_mutex, last_seq, kernelSeq, next, prev, waiting, refcount,
                     signal_fence, handle, signalled>>
  BY DEF CtxFreeRing, At, Goto, Return, Abort, seqVars, listVars, semVars
<1>old. PICK h \in Heads : h = Head(t) /\ h[1] = call[t].context /\ h[2] = call[t].ring /\ h[1] \in Ctxs
  BY <1>1, HeadOfCall DEF CtxFreeRing
<1>head. PICK g \in Heads : g = <<h[1], h[2] + 1>> /\ g[1] = h[1] /\ g[2] = h[2] + 1
  <2>1. h[2] + 1 \in Rings
    BY <1>old DEF CtxFreeRing, At, Goto, Return, Abort, seqVars, listVars, semVars
  <2>2. <<h[1], h[2] + 1>> \in Heads
    BY <1>old, <2>1 DEF Heads
  <2> QED
    BY <2>2
<1>call. call' = [call EXCEPT ![t].ring = g[2], ![t].sem = next[g]] /\ pc' = pc
  BY <1>old, <1>head DEF CtxFreeRing, At, Goto, Return, Abort, seqVars, listVars, semVars
<1>empty. \A p \in Sems : waiting[p] # h
  <2>1. next[h] = h /\ Active(h[1])
    BY <1>0, <1>1, <1>old, HeadOfCall DEF CtxFreersSound, FreeingCtx, CtxFreeRing
  <2> QED
    BY <1>0, <2>1, ListEmpty
<1>frame. /\ pc'[t] = "ctx_free" /\ call'[t].context = call[t].context /\ call'[t].ring = g[2]
          /\ call'[t].sem = next[g] /\ call'[t].dependencies = call[t].dependencies
          /\ \A u \in Threads \ {t} : pc'[u] = pc[u] /\ call'[u] = call[u]
  <2>1. call'[t] = [call[t] EXCEPT !.ring = g[2], !.sem = next[g]]
    BY <1>0, <1>call DEF LooseType
  <2>2. call[t] \in CallType
    BY <1>0 DEF LooseType
  <2>3. /\ call'[t].context = call[t].context /\ call'[t].ring = g[2]
        /\ call'[t].sem = next[g] /\ call'[t].dependencies = call[t].dependencies
    BY <2>1, <2>2 DEF CallType
  <2>4. pc'[t] = "ctx_free" /\ \A u \in Threads \ {t} : pc'[u] = pc[u] /\ call'[u] = call[u]
    BY <1>0, <1>1, <1>call DEF LooseType
  <2> QED
    BY <2>3, <2>4
<1>types. /\ \A u \in Threads : pc[u] # "idle" =>
                /\ Head(u) \in Heads /\ Head(u) \in Nodes /\ Head(u) \notin Sems
                /\ call[u].context \in Ctxs
          /\ \A p \in Sems : p \in Nodes /\ (waiting[p] # NoNode => waiting[p] \in Heads)
          /\ handle \subseteq Sems
  BY <1>0, HeadOfCall, NodesApart DEF LooseType
<1>active. Active(g[1])
  BY <1>1, <1>old, <1>head, HeadOfCall DEF FreeingCtx
<1>unused. \A u \in Threads \ {t} : call[u].sem # next[g] \/ next[g] \notin Sems
  <2> SUFFICES ASSUME NEW u \in Threads \ {t}, call[u].sem = next[g], next[g] \in Sems
               PROVE  FALSE
    OBVIOUS
  <2>1. waiting[next[g]] = g /\ g # NoNode
    BY <1>0, <1>head, <1>active, FirstEntry, NodesApart
  <2>2. pc[u] \in {"submit", "ctx_free"} /\ Head(u) = g
    BY <2>1, WaitersUnused
  <2>3. call[u].context = g[1]
    BY <1>head, <2>2 DEF Head
  <2> QED
    BY <1>0, <1>1, <1>head, <1>old, <2>2, <2>3 DEF ContextsApart, FreeingCtx
<1>next. Head(t)' = g /\ \A u \in Threads \ {t} : Head(u)' = Head(u) /\ Awaited(Head(u))' = Awaited(Head(u))
  BY <1>1, <1>old, <1>head, <1>frame DEF Head, Awaited
<1>same. \A p \in Sems :
            /\ (Settled(p)' <=> Settled(p))
            /\ (BeingReset(p)' <=> BeingReset(p))
  BY <1>1, <1>frame DEF Settled, Settling, BeingReset, Resetting, Emptying, FreeingCtx
<1>charged. \A p \in Sems : Charged(p)' <=> Charged(p)
  BY <1>1, <1>same DEF Charged
<1>12. CallsSound'
  BY <1>0, <1>1, <1>head, <1>frame, NodesApart
  DEF CallsSound, Signalling, Submitting, FreeingCtx
<1>13. ContextsApart'
  BY <1>0, <1>1, <1>frame DEF ContextsApart, FreeingCtx
<1>14. SignallersSound'
  BY <1>0, <1>1, <1>frame DEF SignallersSound, Signalling
<1>15. SubmittersSound'
  BY <1>0, <1>1, <1>frame, <1>next DEF SubmittersSound
<1>16. CtxFreersSound'
  BY <1>0, <1>1, <1>head, <1>frame, <1>next DEF CtxFreersSound
<1>17. UsersApart'
  BY <1>0, <1>frame, <1>unused DEF UsersApart
<1>18. RefsHeld'
  BY <1>0, <1>1, <1>charged DEF RefsHeld
<1>19. SignalsSound'
  BY <1>0, <1>1, <1>same DEF SignalsSound
<1>20. WaitersSound'
  <2> SUFFICES ASSUME NEW p \in Sems, waiting'[p] # NoNode
               PROVE  /\ signal_fence'[p].context # NoCtx
                      /\ \/ waiting'[p][1] \in live'
                         \/ p \in handle' /\ Emptying(waiting[p])'
    BY <1>1 DEF WaitersSound
  <2>1. UNCHANGED <<live, signal_fence, handle, waiting>>
    BY <1>1
  <2>2. waiting[p] \in Heads /\ waiting[p] # h
    BY <1>empty, <1>types, <2>1
  <2>3. Emptying(waiting[p]) => Emptying(waiting[p])'
    <3>1. call[t].context = waiting[p][1] /\ call[t].ring <= waiting[p][2] => g[2] <= waiting[p][2]
      <4> SUFFICES ASSUME call[t].context = waiting[p][1], call[t].ring <= waiting[p][2]
                   PROVE  g[2] <= waiting[p][2]
        OBVIOUS
      <4>1. /\ waiting[p][2] \in 1 .. NumRings /\ waiting[p] = <<waiting[p][1], waiting[p][2]>>
            /\ call[t].ring \in 1 .. NumRings
        BY <1>old, <2>2, NodesApart DEF Rings
      <4>2. waiting[p][2] # call[t].ring
        BY <1>old, <2>2, <4>1 DEF Head
      <4> QED
        BY <1>old, <1>head, <4>1, <4>2
    <3> QED
      BY <1>1, <1>frame, <2>1, <3>1 DEF Emptying, FreeingCtx
  <2> QED
    BY <1>0, <2>1, <2>3 DEF WaitersSound
<1>21. FencesSound'
  <2> SUFFICES ASSUME NEW p \in Sems, signal_fence'[p].context # NoCtx,
                      p \in handle' \/ waiting'[p] # NoNode,
                      waiting'[p] # NoNode => waiting'[p][1] \in live'
               PROVE  /\ signal_fence'[p].context \in live'
                      /\ Settled(p)' =>
                            /\ signal_fence'[p].ring \in Rings
                            /\ signal_fence'[p].fence
                                 <= kernelSeq'[signal_fence'[p].context, signal_fence'[p].ring]
    BY DEF FencesSound
  <2>0. FencesSound
    BY <1>0
  <2>1. UNCHANGED <<live, kernelSeq, signal_fence, handle, waiting>>
    BY <1>1
  <2> QED
    BY <2>0, <1>same, <2>1 DEF FencesSound
<1>22. LinksSound' /\ Ordered'
  BY <1>0, <1>1, <1>frame, LinksFrame, NodesApart DEF Active, FreeingCtx
<1>23. SubmissionsSound'
  BY <1>0, <1>1, <1>frame, <1>next DEF SubmissionsSound
<1>24. DependenciesSound'
  BY <1>0, <1>1, <1>frame DEF DependenciesSound
<1> QED
  BY <1>0, <1>12, <1>13, <1>14, <1>15, <1>16, <1>17, <1>18, <1>19, <1>20, <1>21, <1>22, <1>23,
     <1>24
  DEF CsInvariant

(* A new context has empty lists, and nobody awaits what an older one of its memory did. *)
LEMMA CtxCreateKeeps ==
  ASSUME Careful = TRUE, CsInvariant, NEW t \in Threads, NEW c \in Ctxs, CtxCreate(t, c)
  PROVE  CsInvariant'
<1>0. /\ SeqInvariant' /\ LooseType'
      /\ SeqInvariant /\ LooseType /\ ArgumentsSound /\ MutexHeld /\ SequenceSound
      /\ CallsSound /\ ContextsApart /\ SignallersSound /\ SubmittersSound /\ CtxFreersSound
      /\ UsersApart /\ RefsHeld /\ SignalsSound /\ WaitersSound /\ FencesSound
      /\ LinksSound /\ Ordered /\ SubmissionsSound /\ DependenciesSound
  BY CtxCreateSequence DEF CsInvariant, SeqInvariant
<1>1. /\ c \notin live /\ \A u \in Threads : call[u].context # c
      /\ live' = live \cup {c}
      /\ UNCHANGED <<sequence_mutex, waiting, refcount, signal_fence, handle, signalled, pc,
                     call>>
  BY DEF CtxCreate, At, Goto, Return, Abort, seqVars, listVars, semVars
<1>new. /\ \A h \in Heads : h[1] # c => kernelSeq'[h] = kernelSeq[h]
        /\ \A h \in Heads : h[1] = c => next'[h] = h /\ prev'[h] = h
        /\ \A n \in Nodes : n \notin {c} \X Rings => next'[n] = next[n] /\ prev'[n] = prev[n]
  BY NodesApart DEF CtxCreate, At, Goto, Return, Abort, seqVars, listVars, semVars
<1>types. /\ \A u \in Threads : pc[u] # "idle" =>
                /\ Head(u) \in Heads /\ Head(u) \in Nodes /\ Head(u) \notin Sems
                /\ call[u].context \in Ctxs
          /\ \A p \in Sems : p \in Nodes /\ (waiting[p] # NoNode => waiting[p] \in Heads)
          /\ handle \subseteq Sems
  BY <1>0, HeadOfCall, NodesApart DEF LooseType
<1>unwaited. \A p \in Sems : waiting[p] # NoNode => waiting[p][1] # c
  <2>1. \A h \in Heads : h[1] = c => ~Emptying(h)
    BY <1>1 DEF Emptying
  <2> QED
    BY <1>0, <1>1, <1>types, <2>1 DEF WaitersSound
<1>old. /\ \A h \in Heads : h[1] # c => next'[h] = next[h] /\ prev'[h] = prev[h]
        /\ \A p \in Sems : next'[p] = next[p] /\ prev'[p] = prev[p]
  <2>1. \A h \in Heads : h \in Nodes /\ (h[1] # c => h \notin {c} \X Rings)
    BY NodesApart
  <2>2. \A p \in Sems : p \in Nodes /\ p \notin {c} \X Rings
    BY NodesApart DEF Heads
  <2> QED
    BY <1>new, <2>1, <2>2
<1>same. /\ \A p \in Sems : /\ (Settled(p)' <=> Settled(p))
                          /\ (BeingReset(p)' <=> BeingReset(p))
                          /\ (Emptying(waiting[p])' <=> Emptying(waiting[p]))
         /\ \A u \in Threads : Awaited(Head(u))' = Awaited(Head(u))
         /\ \A u \in Threads : Head(u)' = Head(u) /\ (pc[u] # "idle" => next'[Head(u)] = next[Head(u)])
  <2>1. \A u \in Threads : Head(u)' = Head(u) /\ (pc[u] # "idle" => Head(u)[1] # c)
    BY <1>1 DEF Head
  <2>2. \A p \in Sems :
                /\ (Settled(p)' <=> Settled(p))
                /\ (BeingReset(p)' <=> BeingReset(p))
                /\ (Emptying(waiting[p])' <=> Emptying(waiting[p]))
    BY <1>1 DEF Settled, Settling, BeingReset, Resetting, Emptying, FreeingCtx
  <2>3. \A u \in Threads : Awaited(Head(u))' = Awaited(Head(u))
    BY <1>1, <2>1 DEF Awaited
  <2> QED
    BY <1>types, <1>old, <2>1, <2>2, <2>3
<1>charged. \A p \in Sems : Charged(p)' <=> Charged(p)
  BY <1>1, <1>same DEF Charged
<1>8. CallsSound'
  BY <1>0, <1>1 DEF CallsSound, Signalling, Submitting, FreeingCtx
<1>9. ContextsApart'
  BY <1>0, <1>1 DEF ContextsApart, FreeingCtx
<1>10. SignallersSound'
  BY <1>0, <1>1 DEF SignallersSound, Signalling
<1>11. SubmittersSound'
  BY <1>0, <1>1, <1>same DEF SubmittersSound
<1>12. CtxFreersSound'
  BY <1>0, <1>1, <1>types, <1>old, <1>same DEF CtxFreersSound
<1>13. UsersApart'
  BY <1>0, <1>1 DEF UsersApart
<1>14. RefsHeld'
  BY <1>0, <1>1, <1>charged DEF RefsHeld
<1>15. SignalsSound'
  BY <1>0, <1>1, <1>same DEF SignalsSound
<1>16. WaitersSound'
  BY <1>0, <1>1, <1>same DEF WaitersSound
<1>17. FencesSound'
  <2> SUFFICES ASSUME NEW p \in Sems, signal_fence'[p].context # NoCtx,
                      p \in handle' \/ waiting'[p] # NoNode,
                      waiting'[p] # NoNode => waiting'[p][1] \in live'
               PROVE  /\ signal_fence'[p].context \in live'
                      /\ Settled(p)' =>
                            /\ signal_fence'[p].ring \in Rings
                            /\ signal_fence'[p].fence
                                 <= kernelSeq'[signal_fence'[p].context, signal_fence'[p].ring]
    BY DEF FencesSound
  <2>0. FencesSound
    BY <1>0
  <2>1. UNCHANGED <<signal_fence, handle, waiting>>
    BY <1>1
  <2>2. waiting[p] # NoNode => waiting[p][1] \in live
    BY <1>1, <1>unwaited, <2>1
  <2>3. /\ signal_fence[p].context \in live
        /\ Settled(p) => /\ signal_fence[p].ring \in Rings
                         /\ signal_fence[p].fence
                              <= kernelSeq[<<signal_fence[p].context, signal_fence[p].ring>>]
    BY <2>0, <2>1, <2>2 DEF FencesSound
  <2>4. signal_fence[p].ring \in Rings =>
           kernelSeq'[<<signal_fence[p].context, signal_fence[p].ring>>]
              = kernelSeq[<<signal_fence[p].context, signal_fence[p].ring>>]
    <3> SUFFICES ASSUME signal_fence[p].ring \in Rings
                 PROVE  kernelSeq'[<<signal_fence[p].context, signal_fence[p].ring>>]
                           = kernelSeq[<<signal_fence[p].context, signal_fence[p].ring>>]
      OBVIOUS
    <3>1. <<signal_fence[p].context, signal_fence[p].ring>> \in Heads /\ signal_fence[p].context # c
      BY <2>3, <1>1, <1>0 DEF LooseType, Heads
    <3> QED
      BY <1>new, <3>1
  <2> QED
    BY <1>1, <1>same, <2>1, <2>3, <2>4
<1>18. LinksSound' /\ Ordered'
  <2>1. LinksSound'
    <3> SUFFICES ASSUME NEW h \in Heads, Active(h[1])', NEW n \in On(h)'
                 PROVE  /\ next'[n] \in On(h)' /\ prev'[n] \in On(h)'
                        /\ prev'[next'[n]] = n /\ next'[prev'[n]] = n
      BY DEF LinksSound
    <3>1. On(h)' = On(h)
      BY <1>1 DEF On
    <3>2. CASE h[1] = c
      <4>1. On(h) = {h}
        BY <1>types, <1>unwaited, <3>2, NodesApart DEF On
      <4> QED
        BY <1>new, <3>1, <3>2, <4>1
    <3>3. CASE h[1] # c
      <4>1. Active(h[1])
        BY <1>1, <3>3 DEF Active, FreeingCtx
      <4>2. \A m \in On(h) : next'[m] = next[m] /\ prev'[m] = prev[m]
        BY <1>old, <3>3 DEF On
      <4>3. next[n] \in On(h) /\ prev[n] \in On(h) /\ prev[next[n]] = n /\ next[prev[n]] = n
        BY <1>0, <3>1, <4>1 DEF LinksSound
      <4> QED
        BY <3>1, <4>2, <4>3
    <3> QED
      BY <3>2, <3>3
  <2>2. Ordered'
    <3>1. PICK pos \in [Sems -> Nat] :
             \A p \in Sems : waiting[p] # NoNode /\ next[p] \in Sems => pos[p] < pos[next[p]]
      BY <1>0 DEF Ordered
    <3>2. \A p \in Sems : waiting'[p] # NoNode /\ next'[p] \in Sems => pos[p] < pos[next'[p]]
      BY <1>1, <1>old, <3>1
    <3> QED
      BY <3>2 DEF Ordered
  <2> QED
    BY <2>1, <2>2
<1>19. SubmissionsSound'
  BY <1>0, <1>1, <1>same DEF SubmissionsSound
<1>20. DependenciesSound'
  <2> SUFFICES ASSUME NEW u \in Threads, NEW f \in call[u].dependencies
               PROVE  /\ f.context \in live' /\ f.ring \in Rings
                      /\ f.fence <= kernelSeq'[f.context, f.ring]
    BY <1>1 DEF DependenciesSound
  <2>1. f.context \in live /\ f.ring \in Rings /\ f.fence <= kernelSeq[<<f.context, f.ring>>]
    BY <1>0 DEF DependenciesSound
  <2>2. <<f.context, f.ring>> \in Heads /\ f.context # c
    BY <1>0, <1>1, <2>1 DEF LooseType, Heads
  <2>3. kernelSeq'[<<f.context, f.ring>>] = kernelSeq[<<f.context, f.ring>>]
    BY <1>new, <2>2
  <2> QED
    BY <1>1, <2>1, <2>3
<1> QED
  BY <1>0, <1>8, <1>9, <1>10, <1>11, <1>12, <1>13, <1>14, <1>15, <1>16, <1>17, <1>18, <1>19,
     <1>20
  DEF CsInvariant

(* The context goes, its lists are yet to be emptied, and nobody is to wait for it. *)
LEMMA CtxFreeKeeps ==
  ASSUME Careful = TRUE, CsInvariant, NEW t \in Threads, NEW c \in Ctxs, CtxFree(t, c)
  PROVE  CsInvariant'
<1>0. /\ SeqInvariant' /\ LooseType'
      /\ SeqInvariant /\ LooseType /\ ArgumentsSound /\ MutexHeld /\ SequenceSound
      /\ CallsSound /\ ContextsApart /\ SignallersSound /\ SubmittersSound /\ CtxFreersSound
      /\ UsersApart /\ RefsHeld /\ SignalsSound /\ WaitersSound /\ FencesSound
      /\ LinksSound /\ Ordered /\ SubmissionsSound /\ DependenciesSound
  BY CtxFreeSequence DEF CsInvariant, SeqInvariant
<1>1. /\ pc[t] = "idle" /\ pc' = [pc EXCEPT ![t] = "ctx_free"]
      /\ c \in live /\ \A u \in Threads : call[u].context # c
      /\ live' = live \ {c}
      /\ \A p \in Sems :
         /\ signal_fence[p].context = c /\ (p \in handle \/ waiting[p] # NoNode)
               => waiting[p] \in {c} \X Rings
         /\ waiting[p] \in {c} \X Rings => p \in handle
      /\ \A u \in Threads : \A f \in call[u].dependencies : f.context # c
      /\ UNCHANGED <<sequence_mutex, last_seq, kernelSeq, next, prev, waiting, refcount,
                     signal_fence, handle, signalled>>
  BY DEF CtxFree, At, Goto, Return, Abort, Tidy, seqVars, listVars, semVars
<1>head. PICK h \in Heads : h = <<c, 1>> /\ h[1] = c /\ h[2] = 1 /\ next[h] \in Nodes \cup {NoNode}
  <2>1. <<c, 1>> \in Heads /\ next[<<c, 1>>] \in Nodes \cup {NoNode}
    BY <1>0, Empties, NodesApart DEF Heads, LooseType, Nodes
  <2> QED
    BY <2>1
<1>active. Active(c)
  BY <1>1 DEF Active
<1>call. call' = [call EXCEPT ![t] = Fresh(c, 1, next[h])]
  BY <1>head DEF CtxFree, At, Goto, Return, Abort, Tidy, seqVars, listVars, semVars, Fresh
<1>frame. /\ pc'[t] = "ctx_free" /\ call'[t].context = c /\ call'[t].ring = 1 /\ call'[t].sem = next[h]
          /\ call'[t].dependencies = {}
          /\ \A u \in Threads \ {t} : pc'[u] = pc[u] /\ call'[u] = call[u]
  <2>1. Fresh(c, 1, next[h]) =
           [context |-> c, ring |-> 1, sem |-> next[h], tmp |-> NoNode,
            dependencies |-> {}, seq_no |-> 0, expected |-> {}]
    BY <1>head, Empties, NewCall
  <2> QED
    BY <1>0, <1>1, <1>call, <2>1 DEF LooseType
<1>types. /\ \A u \in Threads : pc[u] # "idle" =>
                /\ Head(u) \in Heads /\ Head(u) \in Nodes /\ Head(u) \notin Sems
                /\ call[u].context \in Ctxs
          /\ \A p \in Sems : p \in Nodes /\ (waiting[p] # NoNode => waiting[p] \in Heads)
          /\ handle \subseteq Sems
  BY <1>0, HeadOfCall, NodesApart DEF LooseType
<1>unused. \A u \in Threads \ {t} : call[u].sem # next[h] \/ next[h] \notin Sems
  <2> SUFFICES ASSUME NEW u \in Threads \ {t}, call[u].sem = next[h], next[h] \in Sems
               PROVE  FALSE
    OBVIOUS
  <2>1. waiting[next[h]] = h /\ h # NoNode
    BY <1>0, <1>head, <1>active, FirstEntry, NodesApart
  <2>2. pc[u] \in {"submit", "ctx_free"} /\ Head(u) = h
    BY <2>1, WaitersUnused
  <2>3. call[u].context = h[1]
    BY <1>head, <2>2 DEF Head
  <2> QED
    BY <1>1, <1>head, <2>3
<1>next. Head(t)' = h /\ \A u \in Threads \ {t} : Head(u)' = Head(u) /\ Awaited(Head(u))' = Awaited(Head(u))
  BY <1>1, <1>head, <1>frame DEF Head, Awaited
<1>same. \A p \in Sems :
            /\ (Settled(p)' <=> Settled(p))
            /\ (BeingReset(p)' <=> BeingReset(p))
            /\ Emptying(waiting[p]) => Emptying(waiting[p])'
  BY <1>1, <1>frame DEF Settled, Settling, BeingReset, Resetting, Emptying, FreeingCtx
<1>charged. \A p \in Sems : Charged(p)' <=> Charged(p)
  BY <1>1, <1>same DEF Charged
<1>11. CallsSound'
  BY <1>0, <1>1, <1>frame, Empties DEF CallsSound, Signalling, Submitting, FreeingCtx
<1>12. ContextsApart'
  BY <1>0, <1>1, <1>frame DEF ContextsApart, FreeingCtx
<1>13. SignallersSound'
  BY <1>0, <1>1, <1>frame DEF SignallersSound, Signalling
<1>14. SubmittersSound'
  BY <1>0, <1>1, <1>frame, <1>next DEF SubmittersSound
<1>15. CtxFreersSound'
  BY <1>0, <1>1, <1>head, <1>frame, <1>next DEF CtxFreersSound
<1>16. UsersApart'
  BY <1>0, <1>frame, <1>unused DEF UsersApart
<1>17. RefsHeld'
  BY <1>0, <1>1, <1>charged DEF RefsHeld
<1>18. SignalsSound'
  BY <1>0, <1>1, <1>same DEF SignalsSound
<1>19. WaitersSound'
  <2> SUFFICES ASSUME NEW p \in Sems, waiting'[p] # NoNode
               PROVE  /\ signal_fence'[p].context # NoCtx
                      /\ \/ waiting'[p][1] \in live'
                         \/ p \in handle' /\ Emptying(waiting[p])'
    BY <1>1 DEF WaitersSound
  <2>1. UNCHANGED <<signal_fence, handle, waiting>>
    BY <1>1
  <2>2. waiting[p] \in Heads /\ waiting[p] = <<waiting[p][1], waiting[p][2]>> /\ waiting[p][2] \in Rings
    BY <1>types, <2>1, NodesApart
  <2>3. CASE waiting[p][1] = c
    <3>1. waiting[p] \in {c} \X Rings
      BY <2>2, <2>3
    <3>2. 1 <= waiting[p][2]
      BY <2>2, CsContextAssumption DEF Rings
    <3>3. Emptying(waiting[p])'
      BY <1>frame, <2>1, <2>3, <3>2 DEF Emptying, FreeingCtx
    <3> QED
      BY <1>0, <1>1, <2>1, <3>1, <3>3 DEF WaitersSound
  <2>4. CASE waiting[p][1] # c
    BY <1>0, <1>1, <1>same, <2>1, <2>4 DEF WaitersSound
  <2> QED
    BY <2>3, <2>4
<1>20. FencesSound'
  <2> SUFFICES ASSUME NEW p \in Sems, signal_fence'[p].context # NoCtx,
                      p \in handle' \/ waiting'[p] # NoNode,
                      waiting'[p] # NoNode => waiting'[p][1] \in live'
               PROVE  /\ signal_fence'[p].context \in live'
                      /\ Settled(p)' =>
                            /\ signal_fence'[p].ring \in Rings
                            /\ signal_fence'[p].fence
                                 <= kernelSeq'[signal_fence'[p].context, signal_fence'[p].ring]
    BY DEF FencesSound
  <2>0. FencesSound
    BY <1>0
  <2>1. UNCHANGED <<signal_fence, handle, waiting, kernelSeq>>
    BY <1>1
  <2>2. /\ signal_fence[p].context \in live
        /\ Settled(p) => /\ signal_fence[p].ring \in Rings
                         /\ signal_fence[p].fence
                              <= kernelSeq[<<signal_fence[p].context, signal_fence[p].ring>>]
    BY <2>0, <1>1, <2>1 DEF FencesSound
  <2>3. waiting[p] \notin {c} \X Rings
    BY <1>1, <1>types, <2>1, CsContextAssumption DEF Rings
  <2>4. signal_fence[p].context # c
    BY <1>1, <2>1, <2>3
  <2> QED
    BY <1>1, <1>same, <2>1, <2>2, <2>4
<1>21. LinksSound' /\ Ordered'
  BY <1>0, <1>1, <1>frame, LinksFrame, NodesApart DEF Active, FreeingCtx
<1>22. SubmissionsSound'
  BY <1>0, <1>1, <1>frame, <1>next DEF SubmissionsSound
<1>23. DependenciesSound'
  BY <1>0, <1>1, <1>frame DEF DependenciesSound
<1> QED
  BY <1>0, <1>11, <1>12, <1>13, <1>14, <1>15, <1>16, <1>17, <1>18, <1>19, <1>20, <1>21, <1>22,
     <1>23
  DEF CsInvariant

-----------------------------------------------------------------------------
(* The invariant, and what follows from it. *)

(* Nothing is on a list before the first call. *)
LEMMA InitialContexts == Init => CsInvariant
<1> SUFFICES ASSUME Init PROVE CsInvariant
  OBVIOUS
<1>1. SeqInvariant
  BY InitialSequence
<1>2. /\ pc = [t \in Threads |-> "idle"] /\ call = [t \in Threads |-> NoCall]
      /\ live = {} /\ handle = {} /\ waiting = [s \in Sems |-> NoNode]
      /\ refcount = [s \in Sems |-> 0] /\ signal_fence = [s \in Sems |-> NoFence]
      /\ NoFence.context = NoCtx
  BY DEF Init, NoFence
<1>3. CallsSound /\ ContextsApart
  BY <1>2 DEF CallsSound, ContextsApart, Signalling, Submitting, FreeingCtx
<1>4. SignallersSound /\ SubmittersSound /\ CtxFreersSound
  BY <1>2 DEF SignallersSound, SubmittersSound, CtxFreersSound, Signalling
<1>5. UsersApart
  BY <1>2, Empties, NodesApart DEF UsersApart
<1>6. RefsHeld /\ SignalsSound
  BY <1>2 DEF RefsHeld, SignalsSound, Charged, BeingReset, Resetting
<1>7. WaitersSound /\ FencesSound
  BY <1>2 DEF WaitersSound, FencesSound
<1>8. LinksSound
  BY <1>2 DEF LinksSound, Active, FreeingCtx
<1>9. Ordered
  <2>1. [s \in Sems |-> 0] \in [Sems -> Nat]
    OBVIOUS
  <2> QED
    BY <1>2, <2>1 DEF Ordered
<1>10. SubmissionsSound /\ DependenciesSound
  BY <1>2, Empties DEF SubmissionsSound, DependenciesSound
<1> QED
  BY <1>1, <1>3, <1>4, <1>5, <1>6, <1>7, <1>8, <1>9, <1>10 DEF CsInvariant

(* A step that changes nothing. *)
LEMMA StutterKeeps ==
  ASSUME CsInvariant, UNCHANGED vars
  PROVE  CsInvariant'
<1>0. /\ UNCHANGED <<live, sequence_mutex, last_seq, kernelSeq, next, prev, waiting,
                     refcount, signal_fence, handle, signalled, pc, call>>
      /\ SeqInvariant'
  BY StutterSequence DEF CsInvariant, vars, seqVars, listVars, semVars
<1> USE DEF CsInvariant
<1>1. /\ \A t \in Threads : Head(t)' = Head(t) /\ Awaited(Head(t))' = Awaited(Head(t))
      /\ \A s \in Sems : /\ Settled(s)' <=> Settled(s)
                         /\ BeingReset(s)' <=> BeingReset(s)
                         /\ Emptying(waiting[s])' <=> Emptying(waiting[s])
  BY <1>0 DEF Head, Awaited, Settled, Settling, BeingReset, Resetting, Emptying, FreeingCtx
<1>2. CallsSound' /\ ContextsApart'
  BY <1>0 DEF CallsSound, ContextsApart, Signalling, Submitting, FreeingCtx
<1>3. SignallersSound' /\ SubmittersSound' /\ CtxFreersSound'
  BY <1>0, <1>1 DEF SignallersSound, SubmittersSound, CtxFreersSound, Signalling
<1>4. UsersApart'
  BY <1>0 DEF UsersApart
<1>5. RefsHeld' /\ SignalsSound'
  BY <1>0, <1>1 DEF RefsHeld, SignalsSound, Charged
<1>6. WaitersSound' /\ FencesSound'
  BY <1>0, <1>1 DEF WaitersSound, FencesSound
<1>7. LinksSound' /\ Ordered'
  BY <1>0, LinksFrame, NodesApart DEF Active, FreeingCtx
<1>8. SubmissionsSound' /\ DependenciesSound'
  BY <1>0, <1>1 DEF SubmissionsSound, DependenciesSound
<1> QED
  BY <1>0, <1>2, <1>3, <1>4, <1>5, <1>6, <1>7, <1>8

(* Every step of careful clients keeps the invariant. *)
LEMMA StepKeeps ==
  ASSUME Careful = TRUE
  PROVE  CsInvariant /\ [Next]_vars => CsInvariant'
<1> SUFFICES ASSUME CsInvariant, [Next]_vars PROVE CsInvariant'
  OBVIOUS
<1>1. CASE UNCHANGED vars
  BY <1>1, StutterKeeps
<1>2. ASSUME NEW t \in Threads, Begin(t)
      PROVE  CsInvariant'
  <2>1. CASE \E s \in Sems : CreateSemaphore(t, s)
    BY <2>1, CreateSemaphoreKeeps
  <2>2. CASE \E s \in Sems : DestroySemaphore(t, s)
    BY <2>2, DestroySemaphoreKeeps
  <2>3. CASE \E c \in Ctxs, r \in Rings, s \in Sems : SignalCheck(t, c, r, s)
    BY <2>3, SignalCheckKeeps
  <2>4. CASE \E c \in Ctxs, r \in Rings, s \in Sems : WaitCheck(t, c, r, s)
    BY <2>4, WaitCheckKeeps
  <2>5. CASE \E c \in Ctxs, r \in Rings : SubmitLock(t, c, r)
    BY <2>5, SubmitLockKeeps
  <2>6. CASE \E c \in Ctxs : CtxCreate(t, c)
    BY <2>6, CtxCreateKeeps
  <2>7. CASE \E c \in Ctxs : CtxFree(t, c)
    BY <2>7, CtxFreeKeeps
  <2> QED
    BY <1>2, <2>1, <2>2, <2>3, <2>4, <2>5, <2>6, <2>7 DEF Begin
<1>3. ASSUME NEW t \in Threads, Proceed(t)
      PROVE  CsInvariant'
  BY <1>3, SignalLockKeeps, SignalSetKeeps, WaitAddKeeps, SubmitTakeKeeps, SubmitResetKeeps,
     SubmitKernelKeeps, SubmitFailsKeeps, SubmitReturnKeeps, CtxFreeTakeKeeps,
     CtxFreeResetKeeps, CtxFreeNextKeeps, CtxFreeRingKeeps, CtxFreeReturnKeeps DEF Proceed
<1> QED
  BY <1>1, <1>2, <1>3 DEF Next

(* It holds in every reachable state. *)
LEMMA ContextsAlways ==
  ASSUME Careful = TRUE
  PROVE  Spec => []CsInvariant
<1>1. CsInvariant /\ [Next]_vars => CsInvariant'
  BY StepKeeps
<1> QED
  BY <1>1, InitialContexts, PTL DEF Spec

(* Every variable stays in its type, every reference count between 0 and 2. *)
THEOREM ContextTypeCorrect ==
  ASSUME Careful = TRUE
  PROVE  Spec => []TypeOK
<1>1. CsInvariant => TypeOK
  <2> SUFFICES ASSUME CsInvariant PROVE TypeOK
    OBVIOUS
  <2>1. LooseType /\ RefsHeld
    BY DEF CsInvariant, SeqInvariant
  <2>2. refcount \in [Sems -> 0 .. 2]
    BY <2>1 DEF LooseType, RefsHeld
  <2> QED
    BY <2>1, <2>2 DEF TypeOK, LooseType, CallType
<1> QED
  BY <1>1, ContextsAlways, PTL

(* A semaphore no call is at work on has exactly one reference for the     *)
(* client that has not destroyed it and one for the signal that has not    *)
(* been consumed: it is freed when both are gone, in either order, by      *)
(* amdgpu_cs_destroy_semaphore, a submission or amdgpu_cs_ctx_free.        *)
THEOREM SemaphoreReferencesExact ==
  ASSUME Careful = TRUE
  PROVE  Spec => []SemaphoresCounted
<1>1. CsInvariant => SemaphoresCounted
  <2> SUFFICES ASSUME CsInvariant, NEW s \in Sems, Using(s) = {}
               PROVE  refcount[s] = Cardinality({x \in {"client", "signal"} :
                                        IF x = "client" THEN s \in handle
                                        ELSE signal_fence[s].context # NoCtx})
    BY DEF SemaphoresCounted
  <2> DEFINE holders == {x \in {"client", "signal"} :
                            IF x = "client" THEN s \in handle
                            ELSE signal_fence[s].context # NoCtx}
  <2>1. Charged(s) <=> signal_fence[s].context # NoCtx
    BY DEF Charged, Settled, Settling, BeingReset, Using
  <2>2. refcount[s] = (IF s \in handle THEN 1 ELSE 0)
                         + (IF signal_fence[s].context # NoCtx THEN 1 ELSE 0)
    BY <2>1 DEF CsInvariant, RefsHeld
  <2>3. CASE s \in handle /\ signal_fence[s].context # NoCtx
    <3>1. holders = {"client"} \cup {"signal"} /\ "signal" \notin {"client"}
      BY <2>3
    <3>2. Cardinality({"client"}) = 1 /\ IsFiniteSet({"client"})
      BY FS_Singleton
    <3>3. ASSUME NEW S, IsFiniteSet(S), Cardinality(S) = 1, NEW x, x \notin S
          PROVE  Cardinality(S \cup {x}) = 2
      BY <3>3, FS_AddElement
    <3> QED
      <4>1. Cardinality(holders) = 2
        BY <3>1, <3>2, <3>3
      <4> QED
        BY <2>2, <2>3, <4>1
  <2>4. CASE s \in handle /\ signal_fence[s].context = NoCtx
    <3>1. holders = {"client"}
      BY <2>4
    <3>2. Cardinality({"client"}) = 1
      BY FS_Singleton
    <3> QED
      BY <2>2, <2>4, <3>1, <3>2
  <2>5. CASE s \notin handle /\ signal_fence[s].context # NoCtx
    <3>1. holders = {"signal"}
      BY <2>5
    <3>2. Cardinality({"signal"}) = 1
      BY FS_Singleton
    <3> QED
      BY <2>2, <2>5, <3>1, <3>2
  <2>6. CASE s \notin handle /\ signal_fence[s].context = NoCtx
    <3>1. holders = {}
      BY <2>6
    <3> QED
      BY <2>2, <2>6, <3>1, FS_EmptySet
  <2> QED
    BY <2>3, <2>4, <2>5, <2>6
<1> QED
  BY <1>1, ContextsAlways, PTL

(* What amdgpu_cs_submit_one passes to the kernel is all that was signalled *)
(* and waited for on its ring, and each is a submission that was made.      *)
THEOREM DependenciesArrive ==
  ASSUME Careful = TRUE
  PROVE  Spec => []DependenciesComplete
<1>1. CsInvariant => DependenciesComplete
  <2> SUFFICES ASSUME CsInvariant, NEW t \in Threads, pc[t] = "submit", call[t].sem = Head(t)
               PROVE  /\ call[t].dependencies = call[t].expected
                      /\ \A f \in call[t].dependencies :
                            f.context \in live /\ f.fence <= kernelSeq[f.context, f.ring]
    BY DEF DependenciesComplete
  <2>1. Head(t) \in Heads /\ Active(Head(t)[1]) /\ next[Head(t)] = Head(t)
    BY HeadOfCall DEF CsInvariant, SubmittersSound, Submitting
  <2>2. \A s \in Sems : waiting[s] # Head(t)
    BY <2>1, ListEmpty DEF CsInvariant, SeqInvariant
  <2>3. Awaited(Head(t)) = {}
    BY <2>2 DEF Awaited
  <2> QED
    BY <2>3 DEF CsInvariant, SubmissionsSound, DependenciesSound
<1> QED
  BY <1>1, ContextsAlways, PTL

-----------------------------------------------------------------------------
(* Walking a list. *)

(* Walk is defined by a recursion that has a solution: one can be built    *)
(* link by link.                                                           *)
LEMMA WalkLinks ==
  ASSUME NEW h
  PROVE  LET at == Walk(h) IN
         /\ at[0] = next[h]
         /\ \A i \in 0 .. Cardinality(Sems) :
               i # 0 => at[i] = IF at[i - 1] \in Sems THEN next[at[i - 1]] ELSE at[i - 1]
<1> DEFINE N == Cardinality(Sems)
           Step(at, i) == IF i = 0 THEN next[h]
                          ELSE IF at[i - 1] \in Sems THEN next[at[i - 1]] ELSE at[i - 1]
           Solves(at, n) == at = [i \in 0 .. n |-> Step(at, i)]
           S == {n \in Nat : \E at : Solves(at, n)}
<1>0. N \in Nat
  BY CsContextAssumption, FS_CardinalityType
<1>1. 0 \in S
  <2>1. Solves([i \in 0 .. 0 |-> next[h]], 0)
    OBVIOUS
  <2> QED
    BY <2>1
<1>2. ASSUME NEW n \in Nat, n \in S
      PROVE  n + 1 \in S
  <2>1. PICK f : Solves(f, n)
    BY <1>2
  <2> DEFINE g == [i \in 0 .. n + 1 |-> IF i = n + 1 THEN Step(f, n + 1) ELSE f[i]]
  <2>2. ASSUME NEW i \in 0 .. n + 1
        PROVE  g[i] = Step(g, i)
    <3>1. CASE i = 0
      BY <2>1, <3>1
    <3>2. CASE i # 0 /\ i # n + 1
      <4>1. i \in 0 .. n /\ i - 1 \in 0 .. n + 1 /\ i - 1 # n + 1
        BY <3>2
      <4>2. g[i] = f[i] /\ g[i - 1] = f[i - 1]
        BY <3>2, <4>1
      <4>3. f[i] = Step(f, i)
        BY <2>1, <4>1
      <4> QED
        BY <4>2, <4>3
    <3>3. CASE i = n + 1
      <4>1. i - 1 \in 0 .. n + 1 /\ i - 1 # n + 1
        BY <3>3
      <4>2. g[i] = Step(f, i) /\ g[i - 1] = f[i - 1]
        BY <3>3, <4>1
      <4> QED
        BY <4>2
    <3> QED
      BY <3>1, <3>2, <3>3
  <2>3. Solves(g, n + 1)
    <3> HIDE DEF Step
    <3>1. g = [i \in 0 .. n + 1 |-> g[i]]
      OBVIOUS
    <3> QED
      BY <2>2, <3>1
  <2>4. n + 1 \in Nat
    OBVIOUS
  <2> HIDE DEF Solves, g
  <2> QED
    BY <2>3, <2>4
<1>3. \E at : Solves(at, N)
  <2>1. Nat \subseteq S
    <3> HIDE DEF S
    <3> QED
      BY <1>1, <1>2, NumbersAll
  <2> QED
    BY <1>0, <2>1
<1>4. Walk(h) = CHOOSE at : Solves(at, N)
  BY DEF Walk
<1>5. Solves(Walk(h), N)
  <2> HIDE DEF Solves
  <2> QED
    BY <1>3, <1>4
<1> DEFINE at == Walk(h)
<1>6. at = [i \in 0 .. N |-> Step(at, i)]
  BY <1>5
<1> HIDE DEF at, N
<1>7. \A i \in 0 .. N : at[i] = Step(at, i)
  BY <1>6
<1> QED
  BY <1>0, <1>7 DEF at, N

(* Walking from the head of a list meets all of its entries and comes back *)
(* to the head: the entries are met in the order of their numbers, so none *)
(* is met twice, and the first that was not met would be linked to from    *)
(* one that was.                                                           *)
LEMMA WalkReturns ==
  ASSUME CsInvariant, NEW h \in Heads, Active(h[1])
  PROVE  /\ Walk(h)[Cardinality(Sems)] = h
         /\ Listed(h) = {s \in Sems : waiting[s] = h}
<1> DEFINE N == Cardinality(Sems)
           W == {s \in Sems : waiting[s] = h}
           at == Walk(h)
<1>1. N \in Nat /\ IsFiniteSet(Sems)
  BY CsContextAssumption, FS_CardinalityType
<1>2. /\ at[0] = next[h]
      /\ \A i \in 0 .. N :
            i # 0 => at[i] = IF at[i - 1] \in Sems THEN next[at[i - 1]] ELSE at[i - 1]
  BY WalkLinks
<1> HIDE DEF at, N
<1>3. ASSUME NEW i \in Nat, i + 1 <= N
      PROVE  at[i + 1] = IF at[i] \in Sems THEN next[at[i]] ELSE at[i]
  <2>1. i + 1 \in 0 .. N /\ i + 1 # 0 /\ (i + 1) - 1 = i
    BY <1>1, <1>3
  <2> QED
    BY <1>2, <2>1
<1>4. /\ On(h) = W \cup {h} /\ h \notin Sems /\ h # NoNode /\ W \subseteq Sems
      /\ \A n \in On(h) : /\ next[n] \in On(h) /\ prev[n] \in On(h)
                          /\ next[prev[n]] = n
  BY NodesApart DEF CsInvariant, LinksSound, On
<1>5. PICK pos \in [Sems -> Nat] :
         \A s \in Sems : waiting[s] # NoNode /\ next[s] \in Sems => pos[s] < pos[next[s]]
  BY DEF CsInvariant, Ordered
<1>6. \A s \in W : next[s] \in W => pos[s] < pos[next[s]]
  BY <1>4, <1>5
<1>7. ASSUME NEW i \in 0 .. N
      PROVE  at[i] \in On(h)
  <2> DEFINE S == {n \in Nat : n <= N => at[n] \in On(h)}
  <2>1. 0 \in S
    BY <1>2, <1>4
  <2>2. ASSUME NEW n \in Nat, n \in S
        PROVE  n + 1 \in S
    <3> SUFFICES ASSUME n + 1 <= N PROVE at[n + 1] \in On(h)
      OBVIOUS
    <3>1. at[n] \in On(h)
      BY <1>1, <2>2
    <3> QED
      BY <1>3, <1>4, <3>1
  <2>3. Nat \subseteq S
    <3> HIDE DEF S
    <3> QED
      BY <2>1, <2>2, NumbersAll
  <2> QED
    BY <1>1, <2>3
<1> HIDE DEF W
<1>8. at[N] = h
  <2> SUFFICES ASSUME at[N] # h PROVE FALSE
    OBVIOUS
  <2>1. ASSUME NEW i \in 0 .. N
        PROVE  at[i] \in W
    <3> DEFINE S == {k \in Nat : k <= N => at[N - k] \in W}
    <3>1. 0 \in S
      BY <1>1, <1>4, <1>7
    <3>2. ASSUME NEW k \in Nat, k \in S
          PROVE  k + 1 \in S
      <4> SUFFICES ASSUME k + 1 <= N PROVE at[N - (k + 1)] \in W
        OBVIOUS
      <4>1. /\ N - (k + 1) \in Nat /\ (N - (k + 1)) + 1 = N - k /\ (N - (k + 1)) + 1 <= N
            /\ N - (k + 1) \in 0 .. N /\ k <= N
        BY <1>1
      <4>2. at[N - k] \in W
        BY <3>2, <4>1
      <4>3. at[N - (k + 1)] # h
        <5>1. at[N - k] = IF at[N - (k + 1)] \in Sems THEN next[at[N - (k + 1)]]
                          ELSE at[N - (k + 1)]
          BY <1>3, <4>1
        <5> QED
          BY <1>4, <4>2, <5>1
      <4> QED
        BY <1>4, <1>7, <4>1, <4>3
    <3>3. Nat \subseteq S
      <4> HIDE DEF S
      <4> QED
        BY <3>1, <3>2, NumbersAll
    <3>4. N - i \in Nat /\ N - i <= N /\ N - (N - i) = i
      BY <1>1
    <3> QED
      BY <3>3, <3>4
  <2>2. ASSUME NEW i \in Nat, i + 1 <= N
        PROVE  pos[at[i]] < pos[at[i + 1]]
    <3>1. at[i] \in W /\ at[i + 1] \in W
      BY <1>1, <2>1, <2>2
    <3> QED
      BY <1>3, <1>4, <1>6, <2>2, <3>1
  <2>3. ASSUME NEW j \in 0 .. N, NEW i \in 0 .. N, i < j
        PROVE  pos[at[i]] < pos[at[j]]
    <3> DEFINE S == {n \in Nat : n <= N => \A k \in 0 .. N : k < n => pos[at[k]] < pos[at[n]]}
    <3>1. 0 \in S
      OBVIOUS
    <3>2. ASSUME NEW n \in Nat, n \in S
          PROVE  n + 1 \in S
      <4> SUFFICES ASSUME n + 1 <= N, NEW k \in 0 .. N, k < n + 1
                   PROVE  pos[at[k]] < pos[at[n + 1]]
        OBVIOUS
      <4>1. pos[at[n]] < pos[at[n + 1]]
        BY <2>2
      <4>2. k = n \/ pos[at[k]] < pos[at[n]]
        BY <1>1, <3>2
      <4>3. pos[at[k]] \in Nat /\ pos[at[n]] \in Nat /\ pos[at[n + 1]] \in Nat
        <5>1. at[k] \in Sems /\ at[n] \in Sems /\ at[n + 1] \in Sems
          BY <1>1, <1>4, <2>1
        <5> QED
          BY <1>5, <5>1
      <4> QED
        BY <4>1, <4>2, <4>3
    <3>3. Nat \subseteq S
      <4> HIDE DEF S
      <4> QED
        BY <3>1, <3>2, NumbersAll
    <3> QED
      BY <1>1, <2>3, <3>3
  <2> DEFINE g == [i \in 0 .. N |-> at[i]]
  <2>4. g \in [0 .. N -> Sems]
    BY <1>4, <2>1
  <2>5. IsFiniteSet(0 .. N) /\ Cardinality(0 .. N) = N + 1
    <3>1. 0 \in Int /\ N \in Int /\ ~(0 > N) /\ N - 0 + 1 = N + 1
      BY <1>1
    <3> QED
      BY <3>1, FS_Interval
  <2>6. Cardinality(Sems) < Cardinality(0 .. N)
    BY <1>1, <2>5 DEF N
  <2>7. PICK i \in 0 .. N, j \in 0 .. N : i # j /\ g[i] = g[j]
    <3> HIDE DEF g
    <3> QED
      BY <1>1, <2>4, <2>5, <2>6, FS_PigeonHole
  <2>8. at[i] = at[j] /\ pos[at[i]] \in Nat
    BY <1>4, <1>5, <2>1, <2>7
  <2>9. i < j \/ j < i
    BY <1>1, <2>7
  <2> QED
    BY <2>3, <2>8, <2>9
<1>9. \A s \in Sems : s \in Listed(h) <=> \E i \in 0 .. N : at[i] = s
  BY DEF Listed, at, N
<1>10. Listed(h) \subseteq W
  <2>1. Listed(h) \subseteq Sems
    BY DEF Listed
  <2> QED
    BY <1>4, <1>7, <1>9, <2>1
<1>11. W \subseteq Listed(h)
  <2> SUFFICES ASSUME W \ Listed(h) # {} PROVE FALSE
    OBVIOUS
  <2> DEFINE P == {pos[s] : s \in W \ Listed(h)}
  <2>1. P \subseteq Nat /\ P # {}
    BY <1>4, <1>5
  <2>2. \E m \in P : \A k \in P : m <= k
    <3> HIDE DEF P
    <3> QED
      BY <2>1, LeastNumber
  <2>3. PICK s \in W \ Listed(h) : \A p \in W \ Listed(h) : pos[s] <= pos[p]
    BY <2>2
  <2>4. s \in Sems /\ prev[s] \in W \cup {h} /\ next[prev[s]] = s
    BY <1>4, <2>3
  <2>5. CASE prev[s] = h
    <3>1. at[0] = s /\ 0 \in 0 .. N
      BY <1>1, <1>2, <2>4, <2>5
    <3> QED
      BY <1>9, <2>3, <2>4, <3>1
  <2>6. CASE prev[s] \in W
    <3>1. pos[prev[s]] < pos[s] /\ pos[prev[s]] \in Nat /\ pos[s] \in Nat /\ prev[s] \in Sems
      BY <1>4, <1>5, <1>6, <2>3, <2>4, <2>6
    <3>2. prev[s] \in Listed(h)
      BY <2>3, <2>6, <3>1
    <3>3. PICK i \in 0 .. N : at[i] = prev[s]
      BY <1>9, <3>1, <3>2
    <3>4. i # N
      BY <1>4, <1>8, <3>1, <3>3
    <3>5. i \in Nat /\ i + 1 <= N /\ i + 1 \in 0 .. N
      BY <1>1, <3>4
    <3>6. at[i + 1] = s
      BY <1>3, <2>4, <3>1, <3>3, <3>5
    <3> QED
      BY <1>9, <2>3, <2>4, <3>5, <3>6
  <2> QED
    BY <2>4, <2>5, <2>6
<1> QED
  BY <1>8, <1>10, <1>11 DEF at, N, W

(* The wait lists of the contexts in use are whole: list_add and list_del  *)
(* under the mutex of the context, in any interleaving of signals, waits   *)
(* and submissions, leave no semaphore behind and none that is not owed a  *)
(* dependency, and no semaphore on a list has been freed.                  *)
THEOREM WaitListsWhole ==
  ASSUME Careful = TRUE
  PROVE  Spec => []WaitListsSound
<1>1. CsInvariant => WaitListsSound
  <2> SUFFICES ASSUME CsInvariant, NEW h \in live \X Rings
               PROVE  /\ Walk(h)[Cardinality(Sems)] = h
                      /\ Listed(h) = {s \in Sems : waiting[s] = h}
                      /\ \A n \in Listed(h) \cup {h} : prev[next[n]] = n
                      /\ \A s \in Listed(h) : refcount[s] > 0 /\ signal_fence[s].context # NoCtx
    BY DEF WaitListsSound
  <2>1. h \in Heads /\ h # NoNode /\ Active(h[1])
    <3>1. live \subseteq Ctxs
      BY DEF CsInvariant, SeqInvariant, LooseType
    <3>2. h \in Heads
      BY <3>1 DEF Heads
    <3> QED
      BY <3>2, NodesApart DEF Active
  <2>2. Walk(h)[Cardinality(Sems)] = h /\ Listed(h) = {s \in Sems : waiting[s] = h}
    BY <2>1, WalkReturns
  <2>3. \A n \in Listed(h) \cup {h} : prev[next[n]] = n
    BY <2>1, <2>2 DEF CsInvariant, LinksSound, On
  <2>4. ASSUME NEW s \in Listed(h)
        PROVE  refcount[s] > 0 /\ signal_fence[s].context # NoCtx
    <3>1. s \in Sems /\ waiting[s] # NoNode
      BY <2>1, <2>2
    <3>2. signal_fence[s].context # NoCtx
      BY <3>1 DEF CsInvariant, WaitersSound
    <3>3. Charged(s)
      BY <3>1, <3>2 DEF CsInvariant, SignallersSound, Signalling, Charged, Settled, Settling
    <3> QED
      BY <3>1, <3>2, <3>3 DEF CsInvariant, RefsHeld
  <2> QED
    BY <2>2, <2>3, <2>4
<1> QED
  BY <1>1, ContextsAlways, PTL

(* For careful clients the check that a semaphore is not signalled twice,  *)
(* made before the lock, still holds when the lock is taken.               *)
THEOREM SecondSignalRefused ==
  ASSUME Careful = TRUE
  PROVE  Spec => SignalRefused
<1>1. CsInvariant => \A t \in Threads :
         pc[t] = "signal" /\ pc'[t] = "signal_set" => signal_fence[call[t].sem].context = NoCtx
  BY DEF CsInvariant, SignallersSound
<1> QED
  BY <1>1, ContextsAlways, PTL DEF SignalRefused

-----------------------------------------------------------------------------
(* What semaphores promise.  The state that Semaphores has of a semaphore  *)
(* changes at the step of a call that holds the mutex it needs, or is the  *)
(* call's last; at every other step what a thread has done so far to the   *)
(* links and the fences is hidden by the mapping.                          *)

Seen == <<live, handle, kernelSeq, WorkOfThreads, RingsWaiting, FencesCarried>>

FenceOf(s) == IF Carries(s) THEN signal_fence[s] ELSE NoFence

RingOf(s) == IF Taken(s) THEN NoNode ELSE waiting[s]

(* Only t moves.                                                           *)
Moves(t) == \A u \in Threads \ {t} : pc'[u] = pc[u] /\ call'[u] = call[u]

(* Carries speaks of the threads at s, Settled of all of them. *)
LEMMA CarriesSettled ==
  ASSUME NEW s \in Sems
  PROVE  Carries(s) <=> signal_fence[s].context # NoCtx /\ Settled(s) /\ ~Taken(s)
BY DEF Carries, Settled, Settling, Using

LEMMA TakenFrame ==
  ASSUME NEW t \in Threads, Moves(t), NEW s \in Sems, waiting'[s] = waiting[s],
         TakenBy(t, s)' <=> TakenBy(t, s)
  PROVE  Taken(s)' <=> Taken(s)
<1>1. ASSUME NEW u \in Threads PROVE TakenBy(u, s)' <=> TakenBy(u, s)
  <2>1. CASE u = t
    BY <2>1
  <2>2. CASE u # t
    BY <2>2 DEF Moves, TakenBy, FreeingCtx, Head
  <2> QED
    BY <2>1, <2>2
<1> QED
  BY <1>1 DEF Taken

LEMMA SettledFrame ==
  ASSUME NEW t \in Threads, Moves(t), NEW s \in Sems,
         Settling(t, s)' <=> Settling(t, s)
  PROVE  Settled(s)' <=> Settled(s)
<1>1. ASSUME NEW u \in Threads PROVE Settling(u, s)' <=> Settling(u, s)
  <2>1. CASE u = t
    BY <2>1
  <2>2. CASE u # t
    BY <2>2 DEF Moves, Settling
  <2> QED
    BY <2>1, <2>2
<1> QED
  BY <1>1 DEF Settled

LEMMA WorkFrame ==
  ASSUME NEW t \in Threads, Moves(t)
  PROVE  \A u \in Threads \ {t} : Work(u)' = Work(u)
BY DEF Moves, Work, Head

(* A semaphore that t does nothing to. *)
LEMMA SemaphoreFrame ==
  ASSUME NEW t \in Threads, Moves(t), NEW s \in Sems,
         waiting'[s] = waiting[s], signal_fence'[s] = signal_fence[s],
         TakenBy(t, s)' <=> TakenBy(t, s), Settling(t, s)' <=> Settling(t, s)
  PROVE  FenceOf(s)' = FenceOf(s) /\ RingOf(s)' = RingOf(s)
<1>1. Taken(s)' <=> Taken(s)
  BY TakenFrame
<1>2. Settled(s)' <=> Settled(s)
  BY SettledFrame
<1>3. Carries(s)' <=> signal_fence'[s].context # NoCtx /\ Settled(s)' /\ ~Taken(s)'
  BY DEF Carries, Settled, Settling, Using
<1>4. Carries(s)' <=> Carries(s)
  BY <1>1, <1>2, <1>3, CarriesSettled
<1> QED
  BY <1>1, <1>4 DEF FenceOf, RingOf

(* Nothing is seen of a step when nothing is seen of it in any part.       *)
LEMMA Unseen ==
  ASSUME NEW t \in Threads, Moves(t), UNCHANGED <<live, handle, kernelSeq>>,
         Work(t)' = Work(t),
         \A s \in Sems : FenceOf(s)' = FenceOf(s) /\ RingOf(s)' = RingOf(s)
  PROVE  UNCHANGED Seen
<1>1. FencesCarried' = FencesCarried
  BY DEF FencesCarried, FenceOf
<1>2. RingsWaiting' = RingsWaiting
  BY DEF RingsWaiting, RingOf
<1>3. WorkOfThreads' = WorkOfThreads
  <2>1. \A u \in Threads : Work(u)' = Work(u)
    BY WorkFrame
  <2> QED
    BY <2>1 DEF WorkOfThreads
<1> QED
  BY <1>1, <1>2, <1>3 DEF Seen

(* What a step does to the thread that takes it. *)
LEMMA OneMoves ==
  ASSUME LooseType, NEW t \in Threads, NEW l, NEW d,
         pc' = [pc EXCEPT ![t] = l] \/ pc' = pc, call' = [call EXCEPT ![t] = d] \/ call' = call
  PROVE  /\ Moves(t)
         /\ pc' = [pc EXCEPT ![t] = l] => pc'[t] = l
         /\ call' = [call EXCEPT ![t] = d] => call'[t] = d
BY DEF LooseType, Moves

(* A step at which t writes no fence and moves nothing on or off a list,    *)
(* and is at none of the places that the mapping asks about.               *)
LEMMA QuietSeen ==
  ASSUME NEW t \in Threads, Moves(t),
         UNCHANGED <<live, handle, kernelSeq, waiting, signal_fence>>,
         Work(t)' = Work(t),
         \A s \in Sems : (TakenBy(t, s)' <=> TakenBy(t, s)) /\ (Settling(t, s)' <=> Settling(t, s))
  PROVE  UNCHANGED Seen
<1>1. \A s \in Sems : FenceOf(s)' = FenceOf(s) /\ RingOf(s)' = RingOf(s)
  BY SemaphoreFrame
<1> QED
  BY <1>1, Unseen

LEMMA SignalCheckSeen ==
  ASSUME CsInvariant, NEW t \in Threads, NEW c \in Ctxs, NEW r \in Rings, NEW s \in Sems,
         SignalCheck(t, c, r, s)
  PROVE  UNCHANGED Seen
<1>1. /\ pc[t] = "idle" /\ pc' = [pc EXCEPT ![t] = "signal"]
      /\ call' = [call EXCEPT ![t] = Fresh(c, r, s)]
      /\ UNCHANGED <<live, handle, kernelSeq, waiting, signal_fence>>
  BY DEF SignalCheck, At, Goto, Fresh, seqVars, listVars, semVars
<1>2. Moves(t) /\ pc'[t] = "signal"
  BY <1>1, OneMoves DEF CsInvariant, SeqInvariant
<1>3. Work(t)' = Work(t)
  BY <1>1, <1>2 DEF Work
<1>4. \A p \in Sems : (TakenBy(t, p)' <=> TakenBy(t, p)) /\ (Settling(t, p)' <=> Settling(t, p))
  BY <1>1, <1>2 DEF TakenBy, FreeingCtx, Settling
<1> QED
  BY <1>1, <1>2, <1>3, <1>4, QuietSeen

LEMMA WaitCheckSeen ==
  ASSUME CsInvariant, NEW t \in Threads, NEW c \in Ctxs, NEW r \in Rings, NEW s \in Sems,
         WaitCheck(t, c, r, s)
  PROVE  UNCHANGED Seen
<1>1. /\ pc[t] = "idle" /\ pc' = [pc EXCEPT ![t] = "wait"]
      /\ call' = [call EXCEPT ![t] = Fresh(c, r, s)]
      /\ UNCHANGED <<live, handle, kernelSeq, waiting, signal_fence>>
  BY DEF WaitCheck, At, Goto, Fresh, seqVars, listVars, semVars
<1>2. Moves(t) /\ pc'[t] = "wait"
  BY <1>1, OneMoves DEF CsInvariant, SeqInvariant
<1>3. Work(t)' = Work(t)
  BY <1>1, <1>2 DEF Work
<1>4. \A p \in Sems : (TakenBy(t, p)' <=> TakenBy(t, p)) /\ (Settling(t, p)' <=> Settling(t, p))
  BY <1>1, <1>2 DEF TakenBy, FreeingCtx, Settling
<1> QED
  BY <1>1, <1>2, <1>3, <1>4, QuietSeen

(* A context is being freed at every step from the first to the last.      *)
LEMMA FreeingSeen ==
  ASSUME CsInvariant, NEW t \in Threads, FreeingCtx(t), FreeingCtx(t)',
         NEW s \in Sems, call'[t].context = call[t].context, waiting'[s] = waiting[s]
  PROVE  /\ TakenBy(t, s)' <=> TakenBy(t, s)
         /\ Settling(t, s)' <=> Settling(t, s)
         /\ Work(t)' = Work(t)
BY DEF TakenBy, Settling, Work, FreeingCtx

LEMMA CtxFreeNextSeen ==
  ASSUME CsInvariant, CsInvariant', NEW t \in Threads, CtxFreeNext(t)
  PROVE  UNCHANGED Seen
<1>1. /\ pc[t] = "ctx_next" /\ UNCHANGED <<live, handle, kernelSeq, waiting, signal_fence>>
      /\ LooseType
  BY DEF CtxFreeNext, At, seqVars, listVars, semVars, CsInvariant, SeqInvariant
<1>2. pc'[t] # "aborted"
  BY DEF CsInvariant, CallsSound
<1>3. PICK n : pc' = [pc EXCEPT ![t] = "ctx_free"] /\ call' = [call EXCEPT ![t].sem = n]
  BY <1>1, <1>2 DEF CtxFreeNext, Goto, Abort, LooseType
<1>4. call' = [call EXCEPT ![t] = [call[t] EXCEPT !.sem = n]]
  BY <1>3
<1>5. Moves(t) /\ pc'[t] = "ctx_free" /\ call'[t] = [call[t] EXCEPT !.sem = n]
  BY <1>1, <1>3, <1>4, OneMoves
<1>6. call'[t].context = call[t].context
  BY <1>1, <1>5 DEF LooseType, CallType
<1>7. FreeingCtx(t) /\ FreeingCtx(t)'
  BY <1>1, <1>5 DEF FreeingCtx
<1> QED
  BY <1>1, <1>5, <1>6, <1>7, Empties, FreeingSeen, QuietSeen DEF Work, FreeingCtx

LEMMA CtxFreeRingSeen ==
  ASSUME CsInvariant, NEW t \in Threads, CtxFreeRing(t)
  PROVE  UNCHANGED Seen
<1>1. /\ pc[t] = "ctx_free" /\ pc' = pc
      /\ UNCHANGED <<live, handle, kernelSeq, waiting, signal_fence>>
      /\ LooseType
  BY DEF CtxFreeRing, At, seqVars, listVars, semVars, CsInvariant, SeqInvariant
<1>2. PICK r, n : call' = [call EXCEPT ![t].ring = r, ![t].sem = n]
  BY DEF CtxFreeRing
<1>3. /\ call'[t] = [[call[t] EXCEPT !.ring = r] EXCEPT !.sem = n]
      /\ \A u \in Threads \ {t} : call'[u] = call[u]
  BY <1>1, <1>2 DEF LooseType
<1>4. call'[t].context = call[t].context
  <2>1. call[t] \in CallType
    BY <1>1 DEF LooseType
  <2>2. [call[t] EXCEPT !.ring = r].context = call[t].context
    BY <2>1 DEF CallType
  <2> QED
    BY <1>3, <2>1, <2>2 DEF CallType
<1>5. Moves(t) /\ FreeingCtx(t) /\ FreeingCtx(t)'
  BY <1>1, <1>3 DEF Moves, FreeingCtx
<1> QED
  BY <1>1, <1>4, <1>5, FreeingSeen, QuietSeen DEF Work, FreeingCtx

(* When a context has been freed, nothing waits for its rings any more.    *)
LEMMA CtxFreeReturnSeen ==
  ASSUME CsInvariant, CsInvariant', NEW t \in Threads, CtxFreeReturn(t)
  PROVE  UNCHANGED Seen
<1>1. /\ pc[t] = "ctx_free" /\ pc' = [pc EXCEPT ![t] = "idle"]
      /\ call' = [call EXCEPT ![t] = NoCall]
      /\ UNCHANGED <<live, handle, kernelSeq, waiting, signal_fence>>
      /\ LooseType
  BY DEF CtxFreeReturn, Return, Goto, At, seqVars, listVars, semVars, CsInvariant, SeqInvariant
<1>2. Moves(t) /\ pc'[t] = "idle"
  BY <1>1, OneMoves
<1>3. ASSUME NEW s \in Sems PROVE ~TakenBy(t, s)
  <2> SUFFICES ASSUME waiting[s] \in {call[t].context} \X Rings PROVE FALSE
    BY <1>1 DEF TakenBy
  <2>1. waiting[s] # NoNode /\ waiting[s][1] = call[t].context
    BY NodesApart, HeadOfCall, <1>1 DEF Heads
  <2>2. call[t].context \notin live'
    BY <1>1 DEF CsInvariant, CallsSound, FreeingCtx
  <2>3. Emptying(waiting[s])'
    BY <1>1, <2>1, <2>2 DEF CsInvariant, WaitersSound
  <2>4. PICK u \in Threads : FreeingCtx(u)' /\ call'[u].context = call[t].context
    BY <1>1, <2>1, <2>3 DEF Emptying
  <2>5. u # t
    BY <1>2, <2>4 DEF FreeingCtx
  <2>6. FreeingCtx(u) /\ call[u].context = call[t].context
    BY <1>2, <2>4, <2>5 DEF Moves, FreeingCtx
  <2>7. FreeingCtx(t)
    BY <1>1 DEF FreeingCtx
  <2> QED
    BY <2>5, <2>6, <2>7 DEF CsInvariant, ContextsApart
<1>4. \A s \in Sems : ~TakenBy(t, s)' /\ ~Settling(t, s)' /\ ~Settling(t, s)
  BY <1>1, <1>2 DEF TakenBy, FreeingCtx, Settling
<1>5. Work(t)' = Work(t)
  BY <1>1, <1>2 DEF Work
<1> QED
  BY <1>1, <1>2, <1>3, <1>4, <1>5, QuietSeen

(* A step at which t works on the semaphore s. *)
LEMMA OneSemaphoreSeen ==
  ASSUME NEW t \in Threads, Moves(t), NEW s \in Sems, UNCHANGED <<live, handle, kernelSeq>>,
         Work(t)' = Work(t),
         \A p \in Sems \ {s} :
            /\ waiting'[p] = waiting[p] /\ signal_fence'[p] = signal_fence[p]
            /\ TakenBy(t, p)' <=> TakenBy(t, p)
            /\ Settling(t, p)' <=> Settling(t, p),
         FenceOf(s)' = FenceOf(s), RingOf(s)' = RingOf(s)
  PROVE  UNCHANGED Seen
<1>1. \A p \in Sems : FenceOf(p)' = FenceOf(p) /\ RingOf(p)' = RingOf(p)
  BY SemaphoreFrame
<1> QED
  BY <1>1, Unseen

(* A semaphore that is not signalled carries nothing. *)
LEMMA NothingCarried ==
  ASSUME NEW s \in Sems
  PROVE  /\ signal_fence[s].context = NoCtx => FenceOf(s) = NoFence
         /\ Taken(s) => FenceOf(s) = NoFence /\ RingOf(s) = NoNode
         /\ ~Settled(s) => FenceOf(s) = NoFence
         /\ waiting[s] = NoNode => RingOf(s) = NoNode
BY CarriesSettled DEF FenceOf, RingOf

(* The same of the next state. *)
LEMMA NothingCarriedNext ==
  ASSUME NEW s \in Sems
  PROVE  /\ signal_fence'[s].context = NoCtx => FenceOf(s)' = NoFence
         /\ Settled(s)' \/ FenceOf(s)' = NoFence
         /\ Taken(s)' => FenceOf(s)' = NoFence /\ RingOf(s)' = NoNode
         /\ waiting'[s] = NoNode => RingOf(s)' = NoNode
<1>1. Carries(s)' <=> signal_fence'[s].context # NoCtx /\ Settled(s)' /\ ~Taken(s)'
  BY DEF Carries, Settled, Settling, Using
<1> QED
  BY <1>1 DEF FenceOf, RingOf

LEMMA SignalLockSeen ==
  ASSUME CsInvariant, NEW t \in Threads, SignalLock(t)
  PROVE  UNCHANGED Seen
<1>1. /\ pc[t] = "signal" /\ pc' = [pc EXCEPT ![t] = "signal_set"] /\ call' = call
      /\ UNCHANGED <<live, handle, kernelSeq, waiting>>
      /\ LooseType
  BY DEF SignalLock, Goto, At, seqVars, listVars, semVars, CsInvariant, SeqInvariant
<1>2. PICK s \in Sems : s = call[t].sem
  BY <1>1 DEF CsInvariant, SeqInvariant, ArgumentsSound, Working
<1>3. /\ signal_fence[s].context = NoCtx
      /\ \A p \in Sems \ {s} : signal_fence'[p] = signal_fence[p]
  BY <1>1, <1>2 DEF SignalLock, LooseType, CsInvariant, SignallersSound
<1>4. Moves(t) /\ pc'[t] = "signal_set"
  BY <1>1, OneMoves
<1>5. Work(t)' = Work(t)
  BY <1>1, <1>4 DEF Work
<1>6. \A p \in Sems : ~TakenBy(t, p) /\ ~TakenBy(t, p)' /\ ~Settling(t, p)
                      /\ (Settling(t, p)' <=> p = s)
  BY <1>1, <1>2, <1>4 DEF TakenBy, FreeingCtx, Settling
<1>7. FenceOf(s) = NoFence /\ FenceOf(s)' = NoFence
  <2>1. ~Settled(s)'
    BY <1>6 DEF Settled
  <2> QED
    BY <1>3, <2>1, NothingCarried, NothingCarriedNext
<1>8. RingOf(s)' = RingOf(s)
  BY <1>1, <1>4, <1>6, TakenFrame DEF RingOf
<1> QED
  BY <1>1, <1>3, <1>4, <1>5, <1>6, <1>7, <1>8, OneSemaphoreSeen

LEMMA SubmitTakeSeen ==
  ASSUME CsInvariant, NEW t \in Threads, SubmitTake(t)
  PROVE  UNCHANGED Seen
<1>1. /\ pc[t] = "submit" /\ pc' = [pc EXCEPT ![t] = "submit_reset"]
      /\ UNCHANGED <<live, handle, kernelSeq>>
      /\ LooseType /\ LinksSound
  BY DEF SubmitTake, Goto, At, seqVars, listVars, semVars, CsInvariant, SeqInvariant
<1>2. PICK s \in Sems, h \in Heads : s = call[t].sem /\ h = Head(t)
  BY <1>1, HeadOfCall DEF SubmitTake
<1>3. waiting[s] = h
  BY <1>1, <1>2, HeadOfCall, FirstEntry DEF CsInvariant, SubmittersSound, Submitting
<1>4. SetContext(s, NoCtx) /\ TakeDependency(t, s) /\ waiting' = [waiting EXCEPT ![s] = NoNode]
  BY <1>2 DEF SubmitTake, SetContext, TakeDependency
<1>5. /\ signal_fence'[s].context = NoCtx
      /\ \A p \in Sems \ {s} : signal_fence'[p] = signal_fence[p]
  BY <1>1, <1>4 DEF LooseType, SetContext, FenceType
<1>6. waiting'[s] = NoNode /\ \A p \in Sems \ {s} : waiting'[p] = waiting[p]
  BY <1>1, <1>4 DEF LooseType
<1>7. /\ call'[t].context = call[t].context /\ call'[t].ring = call[t].ring
      /\ call'[t].expected = call[t].expected /\ \A u \in Threads \ {t} : call'[u] = call[u]
  BY <1>1, <1>4, CallTakes
<1>8. Moves(t) /\ pc'[t] = "submit_reset" /\ Head(t)' = h
  BY <1>1, <1>2, <1>7 DEF Moves, LooseType, Head
<1>9. Work(t)' = Work(t)
  BY <1>1, <1>2, <1>7, <1>8 DEF Work
<1>10. \A p \in Sems \ {s} : /\ TakenBy(t, p)' <=> TakenBy(t, p)
                             /\ Settling(t, p)' <=> Settling(t, p)
  BY <1>1, <1>2, <1>6, <1>8 DEF TakenBy, FreeingCtx, Settling
<1>11. Taken(s)
  BY <1>1, <1>2, <1>3, NodesApart DEF Taken, TakenBy
<1>12. FenceOf(s)' = FenceOf(s) /\ RingOf(s)' = RingOf(s)
  BY <1>5, <1>6, <1>11, NothingCarried, NothingCarriedNext
<1> QED
  BY <1>1, <1>5, <1>6, <1>8, <1>9, <1>10, <1>12, OneSemaphoreSeen

LEMMA CtxFreeTakeSeen ==
  ASSUME CsInvariant, NEW t \in Threads, CtxFreeTake(t)
  PROVE  UNCHANGED Seen
<1>1. /\ pc[t] = "ctx_free" /\ pc' = [pc EXCEPT ![t] = "ctx_reset"] /\ call' = call
      /\ UNCHANGED <<live, handle, kernelSeq>>
      /\ LooseType /\ LinksSound
  BY DEF CtxFreeTake, Goto, At, seqVars, listVars, semVars, CsInvariant, SeqInvariant
<1>2. PICK s \in Sems, h \in Heads : s = call[t].sem /\ h = Head(t)
  BY <1>1, HeadOfCall DEF CtxFreeTake
<1>3. waiting[s] = h
  BY <1>1, <1>2, HeadOfCall, FirstEntry DEF CsInvariant, CtxFreersSound, FreeingCtx
<1>4. SetContext(s, NoCtx) /\ waiting' = [waiting EXCEPT ![s] = NoNode]
  BY <1>2 DEF CtxFreeTake, SetContext
<1>5. /\ signal_fence'[s].context = NoCtx
      /\ \A p \in Sems \ {s} : signal_fence'[p] = signal_fence[p]
  BY <1>1, <1>4 DEF LooseType, SetContext, FenceType
<1>6. waiting'[s] = NoNode /\ \A p \in Sems \ {s} : waiting'[p] = waiting[p]
  BY <1>1, <1>4 DEF LooseType
<1>7. Moves(t) /\ pc'[t] = "ctx_reset"
  BY <1>1, OneMoves
<1>8. FreeingCtx(t) /\ FreeingCtx(t)' /\ call'[t].context = call[t].context
  BY <1>1, <1>7 DEF FreeingCtx
<1>9. Work(t)' = Work(t)
  BY <1>1, <1>7 DEF Work
<1>10. \A p \in Sems \ {s} : /\ TakenBy(t, p)' <=> TakenBy(t, p)
                             /\ Settling(t, p)' <=> Settling(t, p)
  BY <1>6, <1>8, FreeingSeen
<1>11. Taken(s)
  <2>1. h \in {call[t].context} \X Rings
    BY <1>1, <1>2, HeadOfCall DEF Head
  <2> QED
    BY <1>3, <1>8, <2>1, NodesApart DEF Taken, TakenBy
<1>12. FenceOf(s)' = FenceOf(s) /\ RingOf(s)' = RingOf(s)
  BY <1>5, <1>6, <1>11, NothingCarried, NothingCarriedNext
<1> QED
  BY <1>1, <1>5, <1>6, <1>7, <1>9, <1>10, <1>12, OneSemaphoreSeen

LEMMA SubmitResetSeen ==
  ASSUME CsInvariant, NEW t \in Threads, SubmitReset(t)
  PROVE  UNCHANGED Seen
<1>1. /\ pc[t] = "submit_reset" /\ pc' = [pc EXCEPT ![t] = "submit"]
      /\ UNCHANGED <<live, handle, kernelSeq, waiting>>
      /\ LooseType
  BY DEF SubmitReset, Goto, At, seqVars, listVars, semVars, CsInvariant, SeqInvariant
<1>2. PICK s \in Sems : s = call[t].sem /\ signal_fence[s].context = NoCtx
  BY <1>1 DEF CsInvariant, SubmittersSound
<1>3. SetFence(s, 0, 0) /\ Advance(t)
  BY <1>2 DEF SubmitReset, SetFence, Advance
<1>4. /\ signal_fence'[s].context = NoCtx
      /\ \A p \in Sems \ {s} : signal_fence'[p] = signal_fence[p]
  <2>1. 0 \in 0 .. NumRings /\ 0 \in 0 .. MaxSeq
    BY CsContextAssumption
  <2>2. /\ signal_fence'[s] = [context |-> signal_fence[s].context, ring |-> 0, fence |-> 0]
        /\ \A p \in Sems \ {s} : signal_fence'[p] = signal_fence[p]
    BY <1>1, <1>3, <2>1, FenceSet
  <2> QED
    BY <1>2, <2>2
<1>5. /\ call'[t].context = call[t].context /\ call'[t].ring = call[t].ring
      /\ call'[t].expected = call[t].expected /\ \A u \in Threads \ {t} : call'[u] = call[u]
  BY <1>1, <1>3, CallAdvances
<1>6. Moves(t) /\ pc'[t] = "submit" /\ Head(t)' = Head(t)
  BY <1>1, <1>5 DEF Moves, LooseType, Head
<1>7. Work(t)' = Work(t)
  BY <1>1, <1>5, <1>6 DEF Work
<1>8. \A p \in Sems : /\ TakenBy(t, p)' <=> TakenBy(t, p)
                      /\ Settling(t, p)' <=> Settling(t, p)
  BY <1>1, <1>6 DEF TakenBy, FreeingCtx, Settling
<1>9. FenceOf(s)' = FenceOf(s)
  BY <1>2, <1>4, NothingCarried, NothingCarriedNext
<1>10. RingOf(s)' = RingOf(s)
  BY <1>1, <1>6, <1>8, TakenFrame DEF RingOf
<1> QED
  BY <1>1, <1>4, <1>6, <1>7, <1>8, <1>9, <1>10, OneSemaphoreSeen

LEMMA CtxFreeResetSeen ==
  ASSUME CsInvariant, CsInvariant', NEW t \in Threads, CtxFreeReset(t)
  PROVE  UNCHANGED Seen
<1>1. /\ pc[t] = "ctx_reset" /\ call' = call
      /\ UNCHANGED <<live, handle, kernelSeq, waiting>>
      /\ LooseType
  BY DEF CtxFreeReset, Goto, At, seqVars, listVars, semVars, CsInvariant, SeqInvariant
<1>2. PICK s \in Sems : s = call[t].sem /\ signal_fence[s].context = NoCtx
  BY <1>1 DEF CsInvariant, SeqInvariant, LooseType, CtxFreersSound
<1>3. SetFence(s, 0, 0)
  BY <1>2 DEF CtxFreeReset, SetFence
<1>4. /\ signal_fence'[s].context = NoCtx
      /\ \A p \in Sems \ {s} : signal_fence'[p] = signal_fence[p]
  <2>1. 0 \in 0 .. NumRings /\ 0 \in 0 .. MaxSeq
    BY CsContextAssumption
  <2>2. /\ signal_fence'[s] = [context |-> signal_fence[s].context, ring |-> 0, fence |-> 0]
        /\ \A p \in Sems \ {s} : signal_fence'[p] = signal_fence[p]
    BY <1>1, <1>3, <2>1, FenceSet
  <2> QED
    BY <1>2, <2>2
<1>5. pc' = [pc EXCEPT ![t] = "ctx_next"]
  <2>1. pc'[t] # "aborted"
    BY DEF CsInvariant, CallsSound
  <2> QED
    BY <1>1, <2>1 DEF CtxFreeReset, Goto, LooseType
<1>6. Moves(t) /\ pc'[t] = "ctx_next"
  BY <1>1, <1>5, OneMoves
<1>7. FreeingCtx(t) /\ FreeingCtx(t)' /\ call'[t].context = call[t].context
  BY <1>1, <1>6 DEF FreeingCtx
<1>8. Work(t)' = Work(t)
  BY <1>1, <1>6 DEF Work
<1>9. \A p \in Sems : /\ TakenBy(t, p)' <=> TakenBy(t, p)
                      /\ Settling(t, p)' <=> Settling(t, p)
  BY <1>1, <1>7, FreeingSeen
<1>10. FenceOf(s)' = FenceOf(s)
  BY <1>2, <1>4, NothingCarried, NothingCarriedNext
<1>11. RingOf(s)' = RingOf(s)
  BY <1>1, <1>6, <1>9, TakenFrame DEF RingOf
<1> QED
  BY <1>1, <1>4, <1>6, <1>8, <1>9, <1>10, <1>11, OneSemaphoreSeen

(* What is seen, as functions. *)
LEMMA SeenValues ==
  /\ FencesCarried = [s \in Sems |-> FenceOf(s)]
  /\ FencesCarried' = [s \in Sems |-> FenceOf(s)']
  /\ RingsWaiting = [s \in Sems |-> RingOf(s)]
  /\ RingsWaiting' = [s \in Sems |-> RingOf(s)']
  /\ WorkOfThreads = [t \in Threads |-> Work(t)]
  /\ WorkOfThreads' = [t \in Threads |-> Work(t)']
BY DEF FencesCarried, RingsWaiting, WorkOfThreads, FenceOf, RingOf

(* What is seen of a semaphore stays when no thread moves. *)
LEMMA StandingSeen ==
  ASSUME UNCHANGED <<pc, call>>, NEW s \in Sems, waiting'[s] = waiting[s]
  PROVE  /\ RingOf(s)' = RingOf(s)
         /\ signal_fence'[s] = signal_fence[s] => FenceOf(s)' = FenceOf(s)
         /\ WorkOfThreads' = WorkOfThreads
<1>1. \A t \in Threads : (TakenBy(t, s)' <=> TakenBy(t, s)) /\ (Settling(t, s)' <=> Settling(t, s))
                         /\ Work(t)' = Work(t)
  BY DEF TakenBy, FreeingCtx, Settling, Work, Head
<1>2. (Taken(s)' <=> Taken(s)) /\ (Settled(s)' <=> Settled(s))
  BY <1>1 DEF Taken, Settled
<1>3. Carries(s)' <=> signal_fence'[s].context # NoCtx /\ Settled(s)' /\ ~Taken(s)'
  BY DEF Carries, Settled, Settling, Using
<1> QED
  BY <1>1, <1>2, <1>3, CarriesSettled DEF WorkOfThreads, FenceOf, RingOf

LEMMA CreateSemaphoreSeen ==
  ASSUME CsInvariant, NEW t \in Threads, NEW s \in Sems, CreateSemaphore(t, s)
  PROVE  SemaphoresOf!Create(s)
<1>1. /\ refcount[s] = 0 /\ signal_fence' = [signal_fence EXCEPT ![s] = NoFence]
      /\ handle' = handle \cup {s} /\ UNCHANGED <<live, kernelSeq, waiting, pc, call>>
      /\ LooseType
  BY DEF CreateSemaphore, seqVars, CsInvariant, SeqInvariant
<1>2. ~Charged(s) /\ s \notin handle
  BY <1>1 DEF CsInvariant, RefsHeld
<1>3. FenceOf(s) = NoFence
  BY <1>2, NothingCarried DEF Charged
<1>4. /\ signal_fence'[s].context = NoCtx
      /\ \A p \in Sems \ {s} : signal_fence'[p] = signal_fence[p]
  BY <1>1 DEF LooseType, NoFence
<1>5. \A p \in Sems : FenceOf(p)' = FenceOf(p) /\ RingOf(p)' = RingOf(p)
  BY <1>1, <1>3, <1>4, StandingSeen, NothingCarriedNext
<1>6. FencesCarried' = FencesCarried /\ RingsWaiting' = RingsWaiting
  BY <1>5, SeenValues
<1>7. WorkOfThreads' = WorkOfThreads
  BY <1>1, StandingSeen
<1>8. FencesCarried[s] = NoFence
  BY <1>3, SeenValues
<1> QED
  BY <1>1, <1>2, <1>6, <1>7, <1>8 DEF SemaphoresOf!Create

LEMMA DestroySemaphoreSeen ==
  ASSUME CsInvariant, NEW t \in Threads, NEW s \in Sems, DestroySemaphore(t, s)
  PROVE  SemaphoresOf!Destroy(s)
<1>1. /\ s \in handle /\ handle' = handle \ {s}
      /\ UNCHANGED <<live, kernelSeq, waiting, signal_fence, pc, call>>
  BY DEF DestroySemaphore, seqVars
<1>2. \A p \in Sems : FenceOf(p)' = FenceOf(p) /\ RingOf(p)' = RingOf(p)
  BY <1>1, StandingSeen
<1>3. FencesCarried' = FencesCarried /\ RingsWaiting' = RingsWaiting
  BY <1>2, SeenValues
<1>4. WorkOfThreads' = WorkOfThreads
  BY <1>1, StandingSeen
<1> QED
  BY <1>1, <1>3, <1>4 DEF SemaphoresOf!Destroy

(* A thread at work on a semaphore is the only one, and no list has it.     *)
LEMMA SignallerAlone ==
  ASSUME CsInvariant, NEW t \in Threads, Signalling(t)
  PROVE  /\ call[t].sem \in Sems /\ call[t].sem \in handle /\ waiting[call[t].sem] = NoNode
         /\ ~Taken(call[t].sem)
         /\ \A u \in Threads \ {t} : call[u].sem # call[t].sem
<1>1. call[t].sem \in Sems /\ call[t].sem \in handle /\ waiting[call[t].sem] = NoNode
  BY DEF CsInvariant, SeqInvariant, ArgumentsSound, Working, Signalling, SignallersSound
<1>2. \A u \in Threads \ {t} : call[u].sem # call[t].sem
  BY <1>1 DEF CsInvariant, UsersApart
<1>3. ASSUME NEW u \in Threads, TakenBy(u, call[t].sem) PROVE FALSE
  <2>1. pc[u] # "idle"
    BY <1>3 DEF TakenBy, FreeingCtx
  <2>2. Head(u) # NoNode /\ NoNode \notin {call[u].context} \X Rings
    BY <2>1, HeadOfCall, NodesApart DEF Heads
  <2> QED
    BY <1>1, <1>3, <2>2 DEF TakenBy
<1> QED
  BY <1>1, <1>2, <1>3 DEF Taken

LEMMA SignalSetSeen ==
  ASSUME CsInvariant, NEW t \in Threads, SignalSet(t)
  PROVE  \E s \in Sems, c \in Ctxs, r \in Rings : SemaphoresOf!Signal(s, c, r)
<1>1. /\ pc[t] = "signal_set" /\ pc' = [pc EXCEPT ![t] = "idle"]
      /\ call' = [call EXCEPT ![t] = NoCall]
      /\ UNCHANGED <<live, handle, kernelSeq, waiting>>
      /\ LooseType
  BY DEF SignalSet, Return, Goto, At, seqVars, listVars, semVars, CsInvariant, SeqInvariant
<1>2. PICK s \in Sems, c \in Ctxs, r \in Rings :
             s = call[t].sem /\ c = call[t].context /\ r = call[t].ring
  BY <1>1 DEF CsInvariant, SeqInvariant, ArgumentsSound, Working
<1>3. PICK q \in 0 .. MaxSeq : q = last_seq[<<c, r>>] /\ q = kernelSeq[<<c, r>>]
  <2>1. <<c, r>> \in Heads /\ sequence_mutex[c] = t
    BY <1>1, <1>2 DEF Heads, CsInvariant, SeqInvariant, MutexHeld, Holding
  <2>2. \A u \in Threads : pc[u] = "submitted" => Head(u) # <<c, r>>
    BY <1>1, <1>2, <2>1 DEF CsInvariant, SeqInvariant, MutexHeld, Holding, Head
  <2> QED
    BY <1>1, <2>1, <2>2 DEF CsInvariant, SeqInvariant, SequenceSound, LooseType
<1>4. SetFence(s, r, q)
  BY <1>2, <1>3 DEF SignalSet, SetFence
<1>5. Signalling(t) /\ signal_fence[s].context = c /\ c \in live /\ c # NoCtx
  BY <1>1, <1>2, CsContextAssumption DEF CsInvariant, SignallersSound, CallsSound, Signalling
<1>6. /\ s \in handle /\ waiting[s] = NoNode /\ ~Taken(s)
      /\ \A u \in Threads \ {t} : call[u].sem # s
  BY <1>2, <1>5, SignallerAlone
<1>7. /\ signal_fence'[s] = [context |-> c, ring |-> r, fence |-> q]
      /\ \A p \in Sems \ {s} : signal_fence'[p] = signal_fence[p]
  <2>1. r \in 0 .. NumRings
    BY <1>2 DEF Rings
  <2> QED
    BY <1>1, <1>4, <1>5, <2>1, FenceSet
<1>8. Moves(t) /\ pc'[t] = "idle" /\ call'[t] = NoCall
  BY <1>1, OneMoves
<1>9. Work(t)' = Work(t)
  BY <1>1, <1>8 DEF Work
<1>10. \A p \in Sems : ~TakenBy(t, p) /\ ~TakenBy(t, p)' /\ ~Settling(t, p)'
                       /\ (Settling(t, p) <=> p = s)
  BY <1>1, <1>2, <1>8 DEF TakenBy, FreeingCtx, Settling
<1>11. \A p \in Sems : RingOf(p)' = RingOf(p)
  BY <1>1, <1>8, <1>10, TakenFrame DEF RingOf
<1>12. \A p \in Sems \ {s} : FenceOf(p)' = FenceOf(p)
  BY <1>1, <1>7, <1>8, <1>10, SemaphoreFrame
<1>13. FenceOf(s) = NoFence
  BY <1>10, NothingCarried DEF Settled
<1>14. FenceOf(s)' = [context |-> c, ring |-> r, fence |-> q]
  <2>1. Settled(s)'
    <3>1. \A u \in Threads \ {t} : ~Settling(u, s)'
      BY <1>6, <1>8 DEF Moves, Settling
    <3> QED
      BY <1>10, <3>1 DEF Settled
  <2>2. ~Taken(s)'
    BY <1>1, <1>6, <1>8, <1>10, TakenFrame
  <2>3. Carries(s)' <=> signal_fence'[s].context # NoCtx /\ Settled(s)' /\ ~Taken(s)'
    BY DEF Carries, Settled, Settling, Using
  <2> QED
    BY <1>5, <1>7, <2>1, <2>2, <2>3 DEF FenceOf
<1>15. FencesCarried' =
          [FencesCarried EXCEPT ![s] = [context |-> c, ring |-> r, fence |-> kernelSeq[<<c, r>>]]]
  BY <1>3, <1>12, <1>14, SeenValues
<1>16. RingsWaiting' = RingsWaiting
  BY <1>11, SeenValues
<1>17. WorkOfThreads' = WorkOfThreads
  <2>1. \A u \in Threads : Work(u)' = Work(u)
    BY <1>8, <1>9, WorkFrame
  <2> QED
    BY <2>1, SeenValues
<1>18. FencesCarried[s] = NoFence
  BY <1>13, SeenValues
<1>19. SemaphoresOf!Signal(s, c, r)
  BY <1>1, <1>5, <1>6, <1>15, <1>16, <1>17, <1>18 DEF SemaphoresOf!Signal
<1> QED
  BY <1>19

LEMMA WaitAddSeen ==
  ASSUME CsInvariant, NEW t \in Threads, WaitAdd(t)
  PROVE  \E s \in Sems, c \in Ctxs, r \in Rings : SemaphoresOf!Wait(s, c, r)
<1>1. /\ pc[t] = "wait" /\ pc' = [pc EXCEPT ![t] = "idle"]
      /\ call' = [call EXCEPT ![t] = NoCall]
      /\ UNCHANGED <<live, handle, kernelSeq, signal_fence>>
      /\ LooseType
  BY DEF WaitAdd, Return, Goto, At, seqVars, listVars, semVars, CsInvariant, SeqInvariant
<1>2. PICK s \in Sems, c \in Ctxs, r \in Rings :
             s = call[t].sem /\ c = call[t].context /\ r = call[t].ring
  BY <1>1 DEF CsInvariant, SeqInvariant, ArgumentsSound, Working
<1>3. sequence_mutex[c] = NoThread /\ waiting' = [waiting EXCEPT ![s] = <<c, r>>]
  BY <1>2 DEF WaitAdd, LockAndUnlock
<1>4. waiting'[s] = <<c, r>> /\ \A p \in Sems \ {s} : waiting'[p] = waiting[p]
  BY <1>1, <1>3 DEF LooseType
<1>5. Signalling(t) /\ signal_fence[s].context # NoCtx /\ c \in live
  BY <1>1, <1>2 DEF CsInvariant, SignallersSound, CallsSound, Signalling
<1>6. /\ s \in handle /\ waiting[s] = NoNode /\ ~Taken(s)
      /\ \A u \in Threads \ {t} : call[u].sem # s
  BY <1>2, <1>5, SignallerAlone
<1>7. Moves(t) /\ pc'[t] = "idle"
  BY <1>1, OneMoves
<1>8. \A p \in Sems : ~TakenBy(t, p) /\ ~TakenBy(t, p)' /\ ~Settling(t, p)' /\ ~Settling(t, p)
  BY <1>1, <1>7 DEF TakenBy, FreeingCtx, Settling
<1>9. \A p \in Sems \ {s} : FenceOf(p)' = FenceOf(p) /\ RingOf(p)' = RingOf(p)
  BY <1>1, <1>4, <1>7, <1>8, SemaphoreFrame
<1>10. ~Taken(s)'
  <2>1. ASSUME NEW u \in Threads \ {t}, TakenBy(u, s)' PROVE FALSE
    <3>1. pc'[u] = pc[u] /\ call'[u] = call[u]
      BY <1>7 DEF Moves
    <3>2. \/ pc[u] \in {"submit", "submit_reset"} /\ Head(u) = <<c, r>>
          \/ FreeingCtx(u) /\ <<c, r>> \in {call[u].context} \X Rings
      BY <1>4, <2>1, <3>1 DEF TakenBy, FreeingCtx, Head
    <3>3. call[u].context = c
      BY <3>2 DEF Head
    <3>4. ~FreeingCtx(u)
      BY <1>5, <3>3 DEF CsInvariant, CallsSound
    <3>5. Holding(u)
      BY <3>2, <3>4 DEF Holding
    <3>6. sequence_mutex[c] = u
      BY <3>3, <3>5 DEF CsInvariant, SeqInvariant, MutexHeld
    <3> QED
      BY <1>3, <3>6, CsContextAssumption
  <2> QED
    BY <1>8, <2>1 DEF Taken
<1>11. Settled(s) /\ Settled(s)'
  <2>1. \A u \in Threads \ {t} : ~Settling(u, s) /\ ~Settling(u, s)'
    BY <1>6, <1>7 DEF Moves, Settling
  <2> QED
    BY <1>8, <2>1 DEF Settled
<1>12. FenceOf(s) = signal_fence[s] /\ FenceOf(s)' = signal_fence[s] /\ RingOf(s)' = <<c, r>>
       /\ RingOf(s) = NoNode
  <2>1. Carries(s)' <=> signal_fence'[s].context # NoCtx /\ Settled(s)' /\ ~Taken(s)'
    BY DEF Carries, Settled, Settling, Using
  <2> QED
    BY <1>1, <1>4, <1>5, <1>6, <1>10, <1>11, <2>1, CarriesSettled DEF FenceOf, RingOf
<1>13. FencesCarried' = FencesCarried
  BY <1>9, <1>12, SeenValues
<1>14. RingsWaiting' = [RingsWaiting EXCEPT ![s] = <<c, r>>]
  BY <1>9, <1>12, SeenValues
<1>15. WorkOfThreads' = WorkOfThreads
  <2>1. Work(t)' = Work(t)
    BY <1>1, <1>7 DEF Work
  <2>2. \A u \in Threads : Work(u)' = Work(u)
    BY <1>7, <2>1, WorkFrame
  <2> QED
    BY <2>2, SeenValues
<1>16. FencesCarried[s] # NoFence /\ RingsWaiting[s] = NoNode
  BY <1>5, <1>12, SeenValues DEF NoFence
<1>17. SemaphoresOf!Wait(s, c, r)
  BY <1>1, <1>5, <1>6, <1>13, <1>14, <1>15, <1>16 DEF SemaphoresOf!Wait
<1> QED
  BY <1>17

(* A context nobody has locked, and nobody frees, is at no submission. *)
LEMMA NotBusy ==
  ASSUME CsInvariant, NEW c \in Ctxs,
         sequence_mutex[c] = NoThread \/ \A u \in Threads : call[u].context # c
  PROVE  /\ ~SemaphoresOf!BusyWith(c)
         /\ \A u \in Threads : pc[u] \in {"submit", "submit_reset"} => call[u].context # c
<1>1. ASSUME NEW u \in Threads, Submitting(u) PROVE call[u].context # c
  <2>1. Holding(u)
    BY <1>1 DEF Holding, Submitting
  <2> QED
    BY <2>1, CsContextAssumption DEF CsInvariant, SeqInvariant, MutexHeld
<1>2. ASSUME NEW u \in Threads PROVE Work(u).ring \notin {c} \X (1 .. NumRings)
  BY <1>1, NodesApart DEF Work, Submitting, Head, Heads, Rings
<1> QED
  BY <1>1, <1>2, SeenValues DEF SemaphoresOf!BusyWith, SemaphoresOf!RingsOf, Submitting

(* What waits for a ring of a context in use, while nobody has locked it,  *)
(* is seen to wait for it.                                                 *)
LEMMA WaitersSeen ==
  ASSUME CsInvariant, NEW h \in Heads, NEW s \in Sems, waiting[s] = h, ~Taken(s)
  PROVE  RingOf(s) = h /\ FenceOf(s) = signalled[s] /\ FenceOf(s) # NoFence
<1>1. signal_fence[s].context # NoCtx
  BY NodesApart DEF CsInvariant, WaitersSound
<1>2. Settled(s)
  BY NodesApart DEF Settled, Settling, CsInvariant, SignallersSound, Signalling
<1>3. signalled[s] = signal_fence[s]
  BY <1>1, <1>2 DEF CsInvariant, SignalsSound
<1> QED
  BY <1>1, <1>2, <1>3, CarriesSettled DEF RingOf, FenceOf, NoFence

LEMMA SubmitLockSeen ==
  ASSUME CsInvariant, NEW t \in Threads, NEW c \in Ctxs, NEW r \in Rings, SubmitLock(t, c, r)
  PROVE  SemaphoresOf!Take(t, c, r)
<1>1. /\ pc[t] = "idle" /\ pc' = [pc EXCEPT ![t] = "submit"]
      /\ c \in live /\ sequence_mutex[c] = NoThread
      /\ UNCHANGED <<live, handle, kernelSeq, waiting, signal_fence>>
      /\ LooseType
  BY DEF SubmitLock, Goto, At, Lock, seqVars, listVars, semVars, CsInvariant, SeqInvariant
<1>2. PICK h \in Heads : h = <<c, r>> /\ h[1] = c /\ next[h] \in Nodes \cup {NoNode}
  <2>1. <<c, r>> \in Heads /\ next[<<c, r>>] \in Nodes \cup {NoNode}
    BY <1>1, NodesApart DEF Heads, LooseType, Nodes
  <2> QED
    BY <2>1
<1>3. PICK X \in SUBSET FenceType : X = Awaited(h)
  BY <1>1 DEF LooseType, Awaited
<1>4. call' = [call EXCEPT ![t] = FreshSubmission(c, r, next[h], X)]
  BY <1>2, <1>3 DEF SubmitLock, FreshSubmission, Awaited
<1>5. /\ Moves(t) /\ pc'[t] = "submit"
      /\ call'[t] = [context |-> c, ring |-> r, sem |-> next[h], tmp |-> NoNode,
                     dependencies |-> {}, seq_no |-> 0, expected |-> X]
  <2>1. Moves(t) /\ pc'[t] = "submit" /\ call'[t] = FreshSubmission(c, r, next[h], X)
    BY <1>1, <1>4 DEF LooseType, Moves
  <2>2. FreshSubmission(c, r, next[h], X) =
           [context |-> c, ring |-> r, sem |-> next[h], tmp |-> NoNode,
            dependencies |-> {}, seq_no |-> 0, expected |-> X]
    BY <1>2, <1>3, NewSubmission
  <2> QED
    BY <2>1, <2>2
<1>6. Head(t)' = h /\ Work(t)' = [ring |-> h, dependencies |-> X, number |-> 0]
  BY <1>2, <1>5 DEF Work, Head
<1>7. Work(t) = SemaphoresOf!NoWork
  BY <1>1 DEF Work, SemaphoresOf!NoWork
<1>8. ASSUME NEW s \in Sems, waiting[s] = h PROVE ~Taken(s)
  <2> SUFFICES ASSUME NEW u \in Threads, TakenBy(u, s) PROVE FALSE
    BY DEF Taken
  <2>1. call[u].context = c
    BY <1>2, <1>8 DEF TakenBy, Head
  <2>2. ~FreeingCtx(u)
    BY <1>1, <2>1 DEF CsInvariant, CallsSound
  <2> QED
    BY <1>1, <2>1, <2>2, NotBusy DEF TakenBy
<1>9. SemaphoresOf!WaitingFor(h) = {s \in Sems : waiting[s] = h}
  <2>1. \A s \in Sems : RingOf(s) = h <=> waiting[s] = h
    BY <1>8, NodesApart DEF RingOf
  <2> QED
    BY <2>1, SeenValues DEF SemaphoresOf!WaitingFor
<1>10. X = {FencesCarried[s] : s \in SemaphoresOf!WaitingFor(h)}
  <2>1. \A s \in {s \in Sems : waiting[s] = h} : FencesCarried[s] = signalled[s]
    BY <1>8, WaitersSeen, SeenValues
  <2> QED
    BY <1>3, <1>9, <2>1 DEF Awaited
<1>11. \A s \in Sems : ~TakenBy(t, s) /\ (TakenBy(t, s)' <=> waiting[s] = h)
                       /\ ~Settling(t, s) /\ ~Settling(t, s)'
  BY <1>1, <1>5, <1>6 DEF TakenBy, FreeingCtx, Settling
<1>12. ASSUME NEW s \in Sems
       PROVE  /\ FenceOf(s)' = IF waiting[s] = h THEN NoFence ELSE FenceOf(s)
              /\ RingOf(s)' = IF waiting[s] = h THEN NoNode ELSE RingOf(s)
  <2>1. CASE waiting[s] = h
    <3>1. Taken(s)'
      BY <1>1, <1>2, <1>11, <2>1, NodesApart DEF Taken
    <3> QED
      BY <2>1, <3>1, NothingCarriedNext
  <2>2. CASE waiting[s] # h
    BY <1>1, <1>5, <1>11, <2>2, SemaphoreFrame
  <2> QED
    BY <2>1, <2>2
<1>13. SemaphoresOf!Spend(SemaphoresOf!WaitingFor(h))
  <2>1. FencesCarried' = [s \in Sems |-> IF s \in {s1 \in Sems : waiting[s1] = h}
                                         THEN NoFence ELSE FencesCarried[s]]
    BY <1>12, SeenValues
  <2>2. RingsWaiting' = [s \in Sems |-> IF s \in {s1 \in Sems : waiting[s1] = h}
                                        THEN NoNode ELSE RingsWaiting[s]]
    BY <1>12, SeenValues
  <2> QED
    BY <1>9, <2>1, <2>2 DEF SemaphoresOf!Spend
<1>14. WorkOfThreads' = [WorkOfThreads EXCEPT ![t] =
          [ring |-> <<c, r>>, number |-> 0,
           dependencies |-> {FencesCarried[s] : s \in SemaphoresOf!WaitingFor(<<c, r>>)}]]
  <2>1. \A u \in Threads \ {t} : Work(u)' = Work(u)
    BY <1>5, WorkFrame
  <2>2. Work(t)' = [ring |-> <<c, r>>, number |-> 0,
           dependencies |-> {FencesCarried[s] : s \in SemaphoresOf!WaitingFor(<<c, r>>)}]
    BY <1>2, <1>6, <1>10
  <2> QED
    BY <2>1, <2>2, SeenValues
<1>15. ~SemaphoresOf!BusyWith(c) /\ WorkOfThreads[t] = SemaphoresOf!NoWork
  BY <1>1, <1>7, NotBusy, SeenValues
<1> QED
  BY <1>1, <1>2, <1>13, <1>14, <1>15 DEF SemaphoresOf!Take

(* When a submission has walked to the end of its list nothing is on it.    *)
LEMMA ListTaken ==
  ASSUME CsInvariant, NEW t \in Threads, pc[t] = "submit", call[t].sem = Head(t)
  PROVE  /\ \A s \in Sems : ~TakenBy(t, s)
         /\ call[t].dependencies = call[t].expected
<1>1. Head(t) \in Heads /\ Active(Head(t)[1]) /\ next[Head(t)] = Head(t)
  BY HeadOfCall DEF CsInvariant, SubmittersSound, Submitting
<1>2. \A s \in Sems : waiting[s] # Head(t)
  BY <1>1, ListEmpty DEF CsInvariant, SeqInvariant
<1>3. Awaited(Head(t)) = {}
  BY <1>2 DEF Awaited
<1> QED
  BY <1>2, <1>3 DEF CsInvariant, SubmissionsSound, TakenBy, FreeingCtx

LEMMA SubmitKernelSeen ==
  ASSUME CsInvariant, NEW t \in Threads, SubmitKernel(t)
  PROVE  SemaphoresOf!Submit(t)
<1>1. /\ pc[t] = "submit" /\ pc' = [pc EXCEPT ![t] = "submitted"]
      /\ call[t].sem = Head(t)
      /\ UNCHANGED <<live, handle, waiting, signal_fence>>
      /\ LooseType
  BY DEF SubmitKernel, Goto, At, seqVars, listVars, semVars, CsInvariant, SeqInvariant
<1>2. PICK h \in Heads : h = Head(t)
  BY <1>1, HeadOfCall
<1>3. PICK n \in Nat : n = kernelSeq[h]
  BY <1>1 DEF LooseType
<1>4. /\ kernelSeq' = [kernelSeq EXCEPT ![h] = n + 1]
      /\ call' = [call EXCEPT ![t].seq_no = n + 1]
  BY <1>2, <1>3 DEF SubmitKernel
<1>5. /\ call'[t].context = call[t].context /\ call'[t].ring = call[t].ring
      /\ call'[t].dependencies = call[t].dependencies /\ call'[t].seq_no = n + 1
      /\ \A u \in Threads \ {t} : call'[u] = call[u]
  <2>1. call[t] \in CallType
    BY <1>1 DEF LooseType
  <2>2. /\ call'[t] = [call[t] EXCEPT !.seq_no = n + 1]
        /\ \A u \in Threads \ {t} : call'[u] = call[u]
    BY <1>1, <1>4 DEF LooseType
  <2> QED
    BY <2>1, <2>2 DEF CallType
<1>6. Moves(t) /\ pc'[t] = "submitted" /\ Head(t)' = h
  BY <1>1, <1>2, <1>5 DEF Moves, LooseType, Head
<1>7. /\ \A s \in Sems : ~TakenBy(t, s)
      /\ call[t].dependencies = call[t].expected
  BY <1>1, ListTaken
<1>8. \A s \in Sems : ~TakenBy(t, s)' /\ ~Settling(t, s) /\ ~Settling(t, s)'
  BY <1>1, <1>6 DEF TakenBy, FreeingCtx, Settling
<1>9. \A s \in Sems : FenceOf(s)' = FenceOf(s) /\ RingOf(s)' = RingOf(s)
  BY <1>1, <1>6, <1>7, <1>8, SemaphoreFrame
<1>10. FencesCarried' = FencesCarried /\ RingsWaiting' = RingsWaiting
  BY <1>9, SeenValues
<1>11. /\ Work(t) = [ring |-> h, dependencies |-> call[t].dependencies, number |-> 0]
       /\ Work(t)' = [ring |-> h, dependencies |-> call[t].dependencies, number |-> n + 1]
  BY <1>1, <1>2, <1>5, <1>6, <1>7 DEF Work
<1>12. Work(t)' = [Work(t) EXCEPT !.number = n + 1]
  BY <1>11
<1>13. WorkOfThreads' = [WorkOfThreads EXCEPT ![t] = [WorkOfThreads[t] EXCEPT !.number = n + 1]]
  <2>1. \A u \in Threads \ {t} : Work(u)' = Work(u)
    BY <1>6, WorkFrame
  <2> QED
    BY <1>12, <2>1, SeenValues
<1>14. WorkOfThreads[t] = Work(t)
  BY SeenValues
<1>15. WorkOfThreads[t] # SemaphoresOf!NoWork
  <2>1. Work(t).ring # NoNode
    BY <1>11, NodesApart
  <2> QED
    BY <1>14, <2>1 DEF SemaphoresOf!NoWork
<1>16. WorkOfThreads[t].ring = h /\ WorkOfThreads[t].number = 0
  BY <1>11, <1>14
<1>17. kernelSeq' = [kernelSeq EXCEPT ![WorkOfThreads[t].ring] = kernelSeq[WorkOfThreads[t].ring] + 1]
  BY <1>3, <1>4, <1>16
<1>18. WorkOfThreads' = [WorkOfThreads EXCEPT ![t].number = kernelSeq[WorkOfThreads[t].ring] + 1]
  BY <1>3, <1>13, <1>16
<1> QED
  BY <1>1, <1>10, <1>15, <1>16, <1>17, <1>18 DEF SemaphoresOf!Submit

(* A submission ends, with nothing left on its list.                       *)
LEMMA SubmissionLeaves ==
  ASSUME CsInvariant, NEW t \in Threads, Submitting(t), \A s \in Sems : ~TakenBy(t, s),
         Return(t), UNCHANGED <<live, handle, kernelSeq, waiting, signal_fence>>
  PROVE  SemaphoresOf!Leave(t)
<1>1. Moves(t) /\ pc'[t] = "idle"
  BY OneMoves DEF Return, Goto, CsInvariant, SeqInvariant
<1>2. \A s \in Sems : ~TakenBy(t, s)' /\ ~Settling(t, s) /\ ~Settling(t, s)'
  BY <1>1 DEF TakenBy, FreeingCtx, Settling, Submitting
<1>3. \A s \in Sems : FenceOf(s)' = FenceOf(s) /\ RingOf(s)' = RingOf(s)
  BY <1>1, <1>2, SemaphoreFrame
<1>4. FencesCarried' = FencesCarried /\ RingsWaiting' = RingsWaiting
  BY <1>3, SeenValues
<1>5. Work(t)' = SemaphoresOf!NoWork
  BY <1>1 DEF Work, SemaphoresOf!NoWork
<1>6. WorkOfThreads' = [WorkOfThreads EXCEPT ![t] = SemaphoresOf!NoWork]
  <2>1. \A u \in Threads \ {t} : Work(u)' = Work(u)
    BY <1>1, WorkFrame
  <2> QED
    BY <1>5, <2>1, SeenValues
<1>7. WorkOfThreads[t] # SemaphoresOf!NoWork
  <2>1. pc[t] # "idle" /\ Work(t).ring = Head(t)
    BY DEF Submitting, Work
  <2>2. Work(t).ring # NoNode
    BY <2>1, HeadOfCall, NodesApart
  <2> QED
    BY <2>2, SeenValues DEF SemaphoresOf!NoWork
<1> QED
  BY <1>4, <1>6, <1>7 DEF SemaphoresOf!Leave

LEMMA SubmitFailsSeen ==
  ASSUME CsInvariant, NEW t \in Threads, SubmitFails(t)
  PROVE  SemaphoresOf!Leave(t)
<1>1. /\ pc[t] = "submit" /\ call[t].sem = Head(t) /\ Return(t) /\ Submitting(t)
      /\ UNCHANGED <<live, handle, kernelSeq, waiting, signal_fence>>
  BY DEF SubmitFails, At, seqVars, listVars, semVars, Submitting
<1> QED
  BY <1>1, ListTaken, SubmissionLeaves

LEMMA SubmitReturnSeen ==
  ASSUME CsInvariant, NEW t \in Threads, SubmitReturn(t)
  PROVE  SemaphoresOf!Leave(t)
<1>1. /\ pc[t] = "submitted" /\ Return(t) /\ Submitting(t)
      /\ UNCHANGED <<live, handle, kernelSeq, waiting, signal_fence>>
  BY DEF SubmitReturn, At, seqVars, listVars, semVars, Submitting
<1>2. \A s \in Sems : ~TakenBy(t, s)
  BY <1>1 DEF TakenBy, FreeingCtx
<1> QED
  BY <1>1, <1>2, SubmissionLeaves

LEMMA CtxCreateSeen ==
  ASSUME CsInvariant, NEW t \in Threads, NEW c \in Ctxs, CtxCreate(t, c)
  PROVE  SemaphoresOf!Open(c)
<1>1. /\ c \notin live /\ live' = live \cup {c} /\ \A u \in Threads : call[u].context # c
      /\ kernelSeq' = [h \in Heads |-> IF h[1] = c THEN 0 ELSE kernelSeq[h]]
      /\ UNCHANGED <<handle, waiting, signal_fence, pc, call>>
  BY DEF CtxCreate, semVars
<1>2. ~SemaphoresOf!BusyWith(c)
  BY <1>1, NotBusy
<1>3. ASSUME NEW s \in Sems, s \in handle \/ RingOf(s) # NoNode, FenceOf(s).context = c
      PROVE  FALSE
  <2>1. c # NoCtx /\ NoFence.context = NoCtx
    BY CsContextAssumption DEF NoFence
  <2>2. Carries(s) /\ signal_fence[s].context = c
    BY <1>3, <2>1 DEF FenceOf
  <2>3. ~Taken(s) /\ Settled(s)
    BY <2>2, CarriesSettled
  <2>4. s \in handle \/ waiting[s] # NoNode
    BY <1>3, <2>3 DEF RingOf
  <2>5. ASSUME waiting[s] # NoNode, waiting[s][1] \notin live PROVE FALSE
    <3>1. Emptying(waiting[s])
      BY <2>5 DEF CsInvariant, WaitersSound
    <3>2. PICK u \in Threads : FreeingCtx(u) /\ call[u].context = waiting[s][1]
      BY <3>1 DEF Emptying
    <3>3. waiting[s] \in Heads
      BY <2>5 DEF CsInvariant, SeqInvariant, LooseType
    <3>4. waiting[s] \in {call[u].context} \X Rings
      BY <3>2, <3>3 DEF Heads
    <3> QED
      BY <2>3, <2>5, <3>2, <3>4 DEF Taken, TakenBy
  <2>6. signal_fence[s].context \in live
    BY <2>1, <2>2, <2>4, <2>5 DEF CsInvariant, FencesSound
  <2> QED
    BY <1>1, <2>2, <2>6
<1>4. \A s \in Sems : s \in handle \/ RingsWaiting[s] # NoNode => FencesCarried[s].context # c
  BY <1>3, SeenValues
<1>5. \A s \in Sems : FenceOf(s)' = FenceOf(s) /\ RingOf(s)' = RingOf(s)
  BY <1>1, StandingSeen
<1>6. FencesCarried' = FencesCarried /\ RingsWaiting' = RingsWaiting
  BY <1>5, SeenValues
<1>7. WorkOfThreads' = WorkOfThreads
  <2>1. \A u \in Threads : Work(u)' = Work(u)
    BY <1>1 DEF Work, Head
  <2> QED
    BY <2>1, SeenValues
<1> QED
  BY <1>1, <1>2, <1>4, <1>6, <1>7 DEF SemaphoresOf!Open, Heads, Rings

LEMMA CtxFreeSeen ==
  ASSUME CsInvariant, NEW t \in Threads, NEW c \in Ctxs, CtxFree(t, c)
  PROVE  SemaphoresOf!Close(c)
<1>1. /\ pc[t] = "idle" /\ pc' = [pc EXCEPT ![t] = "ctx_free"]
      /\ c \in live /\ live' = live \ {c} /\ \A u \in Threads : call[u].context # c
      /\ call' = [call EXCEPT ![t] = Fresh(c, 1, next[<<c, 1>>])]
      /\ UNCHANGED <<handle, kernelSeq, waiting, signal_fence>>
      /\ LooseType
  BY DEF CtxFree, Goto, At, Fresh, seqVars, listVars, semVars, CsInvariant, SeqInvariant
<1>2. ~SemaphoresOf!BusyWith(c)
  BY <1>1, NotBusy
<1>3. next[<<c, 1>>] \in Nodes \cup {NoNode}
  BY <1>1, Empties, NodesApart DEF Heads, LooseType, Nodes
<1>4. Moves(t) /\ pc'[t] = "ctx_free" /\ call'[t].context = c
  <2>1. Moves(t) /\ pc'[t] = "ctx_free" /\ call'[t] = Fresh(c, 1, next[<<c, 1>>])
    BY <1>1 DEF LooseType, Moves
  <2>2. Fresh(c, 1, next[<<c, 1>>]).context = c
    BY <1>3, Empties, NewCall
  <2> QED
    BY <2>1, <2>2
<1>5. ASSUME NEW s \in Sems, waiting[s] \in {c} \X Rings PROVE ~Taken(s)
  <2>1. waiting[s][1] = c
    BY <1>5
  <2> QED
    BY <1>1, <1>5, <2>1 DEF Taken, TakenBy, Head
<1>6. \A s \in Sems : RingOf(s) \in {c} \X Rings <=> waiting[s] \in {c} \X Rings
  BY <1>5, NodesApart DEF RingOf, Heads
<1>7. \A s \in Sems : ~TakenBy(t, s) /\ (TakenBy(t, s)' <=> waiting[s] \in {c} \X Rings)
                      /\ ~Settling(t, s) /\ ~Settling(t, s)'
  BY <1>1, <1>4 DEF TakenBy, FreeingCtx, Settling
<1>8. ASSUME NEW s \in Sems
      PROVE  /\ FenceOf(s)' = IF RingOf(s) \in {c} \X Rings THEN NoFence ELSE FenceOf(s)
             /\ RingOf(s)' = IF RingOf(s) \in {c} \X Rings THEN NoNode ELSE RingOf(s)
  <2>1. CASE waiting[s] \in {c} \X Rings
    <3>1. Taken(s)'
      BY <1>1, <1>7, <2>1, NodesApart DEF Taken, Heads
    <3> QED
      BY <1>6, <2>1, <3>1, NothingCarriedNext
  <2>2. CASE waiting[s] \notin {c} \X Rings
    BY <1>1, <1>4, <1>6, <1>7, <2>2, SemaphoreFrame
  <2> QED
    BY <2>1, <2>2
<1>9. SemaphoresOf!Spend({s \in Sems : RingsWaiting[s] \in SemaphoresOf!RingsOf(c)})
  <2>1. SemaphoresOf!RingsOf(c) = {c} \X Rings
    BY DEF SemaphoresOf!RingsOf, Rings
  <2>2. {s \in Sems : RingsWaiting[s] \in SemaphoresOf!RingsOf(c)} = {s \in Sems : RingOf(s) \in {c} \X Rings}
    BY <2>1, SeenValues
  <2>3. FencesCarried' = [s \in Sems |-> IF s \in {p \in Sems : RingOf(p) \in {c} \X Rings}
                                         THEN NoFence ELSE FencesCarried[s]]
    BY <1>8, SeenValues
  <2>4. RingsWaiting' = [s \in Sems |-> IF s \in {p \in Sems : RingOf(p) \in {c} \X Rings}
                                        THEN NoNode ELSE RingsWaiting[s]]
    BY <1>8, SeenValues
  <2> QED
    BY <2>2, <2>3, <2>4 DEF SemaphoresOf!Spend
<1>10. WorkOfThreads' = WorkOfThreads
  <2>1. Work(t)' = Work(t)
    BY <1>1, <1>4 DEF Work
  <2>2. \A u \in Threads : Work(u)' = Work(u)
    BY <1>4, <2>1, WorkFrame
  <2> QED
    BY <2>2, SeenValues
<1> QED
  BY <1>1, <1>2, <1>9, <1>10 DEF SemaphoresOf!Close

LEMMA InitialSeen == Init => SemaphoresOf!SemaphoresInit
<1> SUFFICES ASSUME Init PROVE SemaphoresOf!SemaphoresInit
  OBVIOUS
<1>1. \A t \in Threads : pc[t] = "idle" /\ Work(t) = SemaphoresOf!NoWork
  BY DEF Init, Work, SemaphoresOf!NoWork
<1>2. \A s \in Sems : signal_fence[s].context = NoCtx /\ waiting[s] = NoNode
  BY DEF Init, NoFence
<1>3. \A s \in Sems : FenceOf(s) = NoFence /\ RingOf(s) = NoNode
  BY <1>2, NothingCarried
<1>4. FencesCarried = [s \in Sems |-> NoFence] /\ RingsWaiting = [s \in Sems |-> NoNode]
  BY <1>3, SeenValues
<1>5. WorkOfThreads = [t \in Threads |-> SemaphoresOf!NoWork]
  BY <1>1, SeenValues
<1>6. live = {} /\ handle = {} /\ kernelSeq = [h \in Ctxs \X (1 .. NumRings) |-> 0]
  BY DEF Init, Heads, Rings
<1> QED
  BY <1>4, <1>5, <1>6 DEF SemaphoresOf!SemaphoresInit

(* Every step of careful clients is a step of semaphores, or unseen.       *)
LEMMA StepSeen ==
  ASSUME Careful = TRUE
  PROVE  CsInvariant /\ [Next]_vars => [SemaphoresOf!SemaphoresNext]_Seen
<1> SUFFICES ASSUME CsInvariant, [Next]_vars PROVE SemaphoresOf!SemaphoresNext \/ UNCHANGED Seen
  OBVIOUS
<1>0. CsInvariant'
  BY StepKeeps
<1>1. CASE UNCHANGED vars
  <2>1. UNCHANGED <<live, handle, kernelSeq, waiting, signal_fence, pc, call>>
    BY <1>1 DEF vars, seqVars, listVars, semVars
  <2>2. \A s \in Sems : FenceOf(s)' = FenceOf(s) /\ RingOf(s)' = RingOf(s)
    BY <2>1, StandingSeen
  <2>3. \A t \in Threads : Work(t)' = Work(t)
    BY <2>1 DEF Work, Head
  <2> QED
    BY <2>1, <2>2, <2>3, SeenValues DEF Seen
<1>2. ASSUME NEW t \in Threads, Begin(t)
      PROVE  SemaphoresOf!SemaphoresNext \/ UNCHANGED Seen
  <2>1. CASE \E s \in Sems : CreateSemaphore(t, s)
    BY <2>1, CreateSemaphoreSeen DEF SemaphoresOf!SemaphoresNext
  <2>2. CASE \E s \in Sems : DestroySemaphore(t, s)
    BY <2>2, DestroySemaphoreSeen DEF SemaphoresOf!SemaphoresNext
  <2>3. CASE \E c \in Ctxs, r \in Rings, s \in Sems : SignalCheck(t, c, r, s)
    BY <2>3, SignalCheckSeen
  <2>4. CASE \E c \in Ctxs, r \in Rings, s \in Sems : WaitCheck(t, c, r, s)
    BY <2>4, WaitCheckSeen
  <2>5. CASE \E c \in Ctxs, r \in Rings : SubmitLock(t, c, r)
    BY <2>5, SubmitLockSeen DEF SemaphoresOf!SemaphoresNext, Rings
  <2>6. CASE \E c \in Ctxs : CtxCreate(t, c)
    BY <2>6, CtxCreateSeen DEF SemaphoresOf!SemaphoresNext
  <2>7. CASE \E c \in Ctxs : CtxFree(t, c)
    BY <2>7, CtxFreeSeen DEF SemaphoresOf!SemaphoresNext
  <2> QED
    BY <1>2, <2>1, <2>2, <2>3, <2>4, <2>5, <2>6, <2>7 DEF Begin
<1>3. ASSUME NEW t \in Threads, Proceed(t)
      PROVE  SemaphoresOf!SemaphoresNext \/ UNCHANGED Seen
  <2>1. CASE SignalSet(t)
    BY <2>1, SignalSetSeen DEF SemaphoresOf!SemaphoresNext, Rings
  <2>2. CASE WaitAdd(t)
    BY <2>2, WaitAddSeen DEF SemaphoresOf!SemaphoresNext, Rings
  <2>3. CASE SubmitKernel(t)
    BY <2>3, SubmitKernelSeen DEF SemaphoresOf!SemaphoresNext
  <2>4. CASE SubmitFails(t) \/ SubmitReturn(t)
    BY <2>4, SubmitFailsSeen, SubmitReturnSeen DEF SemaphoresOf!SemaphoresNext
  <2>5. CASE SignalLock(t) \/ SubmitTake(t) \/ SubmitReset(t) \/ CtxFreeTake(t)
             \/ CtxFreeReset(t) \/ CtxFreeNext(t) \/ CtxFreeRing(t) \/ CtxFreeReturn(t)
    BY <1>0, <2>5, SignalLockSeen, SubmitTakeSeen, SubmitResetSeen, CtxFreeTakeSeen,
       CtxFreeResetSeen, CtxFreeNextSeen, CtxFreeRingSeen, CtxFreeReturnSeen
  <2> QED
    BY <1>3, <2>1, <2>2, <2>3, <2>4, <2>5 DEF Proceed
<1> QED
  BY <1>1, <1>2, <1>3 DEF Next

(* The calls of careful clients do what semaphores promise: a fence goes   *)
(* from the ring that signals to the next submission of the ring that      *)
(* waits, once and whole, whatever the calls of other threads do between   *)
(* two steps of the walk that takes it, and though the wait list has only  *)
(* its context's mutex and the semaphore none.                             *)
THEOREM ContextsImplementSemaphores ==
  ASSUME Careful = TRUE
  PROVE  Spec => ImplementsSemaphores
<1>1. Init => SemaphoresOf!SemaphoresInit
  BY InitialSeen
<1>2. CsInvariant /\ [Next]_vars => [SemaphoresOf!SemaphoresNext]_Seen
  BY StepSeen
<1>3. Spec => []CsInvariant
  BY ContextsAlways
<1> QED
  BY <1>1, <1>2, <1>3, PTL
     DEF Spec, ImplementsSemaphores, SemaphoresOf!SemaphoresSpec, SemaphoresOf!semaphoresVars, Seen

=============================================================================
