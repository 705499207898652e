----------------------------- MODULE Semaphores -----------------------------
(***************************************************************************)
(* What the semaphores of command submission promise, without lists, locks *)
(* or counts: a semaphore carries the fence of one submission, at most one *)
(* at a time, to the next submission of the ring that waits for it.  That  *)
(* submission takes all the fences that wait for its ring, at once, and    *)
(* the kernel is given those and no others.                                *)
(***************************************************************************)
EXTENDS Integers

CONSTANTS
    Sems,
    Ctxs,
    NumRings,   \* the rings of a context
    Threads,    \* who can be making a submission
    NoFence,
    NoRing

VARIABLES
    open,       \* the contexts clients may use
    owned,      \* the semaphores clients have
    fence,      \* fence[s]: what s carries, or NoFence
    ring,       \* ring[s]: the ring that waits for s, or NoRing
    submitted,  \* submitted[h]: the submissions made to the ring h
    work        \* work[t]: the submission t is making, or NoWork

semaphoresVars == <<open, owned, submitted, work, ring, fence>>

RingsOf(c) == {c} \X (1 .. NumRings)

(* number is 0 until the kernel has been given the submission.             *)
NoWork == [ring |-> NoRing, dependencies |-> {}, number |-> 0]

WaitingFor(h) == {s \in Sems : ring[s] = h}

BusyWith(c) == \E t \in Threads : work[t].ring \in RingsOf(c)

SemaphoresInit ==
    /\ open = {} /\ owned = {}
    /\ fence = [s \in Sems |-> NoFence]
    /\ ring = [s \in Sems |-> NoRing]
    /\ submitted = [h \in Ctxs \X (1 .. NumRings) |-> 0]
    /\ work = [t \in Threads |-> NoWork]

(* A semaphore that carries a fence is not given to anybody anew.          *)
Create(s) ==
    /\ s \notin owned /\ fence[s] = NoFence
    /\ owned' = owned \cup {s}
    /\ UNCHANGED <<open, fence, ring, submitted, work>>

(* A semaphore that is destroyed carries its fence on.                     *)
Destroy(s) ==
    /\ s \in owned
    /\ owned' = owned \ {s}
    /\ UNCHANGED <<open, fence, ring, submitted, work>>

(* s carries the last submission made to the ring h.                       *)
Signal(s, c, r) ==
    /\ s \in owned /\ c \in open
    /\ fence[s] = NoFence
    /\ fence' = [fence EXCEPT ![s] =
          [context |-> c, ring |-> r, fence |-> submitted[<<c, r>>]]]
    /\ UNCHANGED <<open, owned, ring, submitted, work>>

Wait(s, c, r) ==
    /\ s \in owned /\ c \in open
    /\ fence[s] # NoFence /\ ring[s] = NoRing
    /\ ring' = [ring EXCEPT ![s] = <<c, r>>]
    /\ UNCHANGED <<open, owned, fence, submitted, work>>

(* The semaphores of S have done their work, whatever becomes of it.       *)
Spend(S) ==
    /\ fence' = [s \in Sems |-> IF s \in S THEN NoFence ELSE fence[s]]
    /\ ring' = [s \in Sems |-> IF s \in S THEN NoRing ELSE ring[s]]

(* A submission is begun; a context is at one submission at a time.        *)
Take(t, c, r) ==
    /\ c \in open /\ work[t] = NoWork /\ ~BusyWith(c)
    /\ work' = [work EXCEPT ![t] =
          [ring |-> <<c, r>>, number |-> 0,
           dependencies |-> {fence[s] : s \in WaitingFor(<<c, r>>)}]]
    /\ Spend(WaitingFor(<<c, r>>))
    /\ UNCHANGED <<open, owned, submitted>>

(* The kernel is given it, with all it depends on.                         *)
Submit(t) ==
    LET h == work[t].ring IN
    /\ work[t] # NoWork /\ work[t].number = 0
    /\ submitted' = [submitted EXCEPT ![h] = @ + 1]
    /\ work' = [work EXCEPT ![t].number = submitted[h] + 1]
    /\ UNCHANGED <<open, owned, fence, ring>>

(* It has been made, or the kernel has refused it.                         *)
Leave(t) ==
    /\ work[t] # NoWork
    /\ work' = [work EXCEPT ![t] = NoWork]
    /\ UNCHANGED <<open, owned, fence, ring, submitted>>

(* The numbers of a context begin anew, when nothing that clients have or  *)
(* that is waited for stands for one of the old ones.                      *)
Open(c) ==
    /\ c \notin open /\ ~BusyWith(c)
    /\ \A s \in Sems : s \in owned \/ ring[s] # NoRing => fence[s].context # c
    /\ open' = open \cup {c}
    /\ submitted' = [h \in Ctxs \X (1 .. NumRings) |->
                        IF h[1] = c THEN 0 ELSE submitted[h]]
    /\ UNCHANGED <<owned, fence, ring, work>>

(* Nobody will wait any more for what waits for its rings.                 *)
Close(c) ==
    /\ c \in open /\ ~BusyWith(c)
    /\ open' = open \ {c}
    /\ Spend({s \in Sems : ring[s] \in RingsOf(c)})
    /\ UNCHANGED <<owned, submitted, work>>

(* Most steps of a call change nothing here; TLC tries disjuncts in order. *)
SemaphoresNext ==
    \/ UNCHANGED semaphoresVars
    \/ \E t \in Threads : Submit(t) \/ Leave(t)
    \/ \E t \in Threads, c \in Ctxs, r \in 1 .. NumRings : Take(t, c, r)
    \/ \E c \in Ctxs : Open(c) \/ Close(c)
    \/ \E s \in Sems : Create(s) \/ Destroy(s)
    \/ \E s \in Sems, c \in Ctxs, r \in 1 .. NumRings : Signal(s, c, r) \/ Wait(s, c, r)

SemaphoresSpec == SemaphoresInit /\ [][SemaphoresNext]_semaphoresVars
=============================================================================
