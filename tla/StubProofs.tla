----------------------------- MODULE StubProofs -----------------------------
(***************************************************************************)
(* Theorems about the stub backend, for any number of threads, descriptors *)
(* and handles: FdMapper, whose descriptor table and the descriptors of    *)
(* the process stay in step; and StubBackend, which implements FdMapper,   *)
(* numbers things once and finds the buffer behind every GPU address.      *)
(*                                                                         *)
(* FdsAccounted and ExportedImportable are not inductive.  An export must  *)
(* know that nobody else was given its number and that no entry waits      *)
(* under it (OpenersApart), a close that only its thread is between close  *)
(* and erase (ClosersHoldLock).                                            *)
(***************************************************************************)
EXTENDS StubBackend, Counting

(* What is between open and the table: a number nobody else was given.     *)
OpenersApart ==
    /\ \A t \in Threads : pc[t] = "opened" =>
          /\ arg[t].entry \in FdMapEntry
          /\ arg[t].fd \in Fds => arg[t].fd \in openFds /\ exported[arg[t].fd] = NoEntry
    /\ \A t, u \in Threads :
          pc[t] = "opened" /\ pc[u] = "opened" /\ t # u /\ arg[t].fd = arg[u].fd =>
             arg[t].fd = NoFd

(* What is between close and erase: the holder of the lock, with a number  *)
(* that no client has before the entry is gone.                            *)
ClosersHoldLock ==
    \A t \in Threads :
        /\ pc[t] = "closing" <=> sFdMapLock = t
        /\ pc[t] = "closing" => arg[t].fd \in Fds /\ exported[arg[t].fd] = NoEntry

FdInvariant ==
    /\ FdTypeOK
    /\ OpenersApart
    /\ ClosersHoldLock
    /\ FdsAccounted
    /\ ExportedImportable

-----------------------------------------------------------------------------
(* FdMapper: the types. *)

LEMMA FdInitTypes == FdInit => FdTypeOK
  BY FdMapperAssumption, NoEntryAssumption
     DEF FdInit, FdTypeOK, MapKeys, NoArg

LEMMA FdNextTypes == FdTypeOK /\ [FdNext]_fdVars => FdTypeOK'
<1> SUFFICES ASSUME FdTypeOK, [FdNext]_fdVars PROVE FdTypeOK'
  OBVIOUS
<1> USE DEF FdTypeOK, MapKeys, NoArg
<1>0. CASE UNCHANGED fdVars
  BY <1>0 DEF fdVars
<1>1. ASSUME NEW t \in Threads, NEW entry \in FdMapEntry, OpenDevNull(t, entry) PROVE FdTypeOK'
  <2>1. PICK fd \in IF openFds = Fds THEN {NoFd} ELSE Fds \ openFds :
           /\ openFds' = openFds \cup ({fd} \ {NoFd})
           /\ arg' = [arg EXCEPT ![t] = [fd |-> fd, entry |-> entry]]
    BY <1>1 DEF OpenDevNull
  <2>2. fd \in Fds \cup {NoFd}
    OBVIOUS
  <2>3. /\ openFds' \in SUBSET Fds
        /\ arg' \in [Threads -> [fd : Fds \cup {NoFd}, entry : FdMapEntry \cup {NoEntry}]]
    BY <2>1, <2>2
  <2> QED
    BY <1>1, <2>3 DEF OpenDevNull
<1>2. ASSUME NEW t \in Threads, drmFdMapHandle(t) PROVE FdTypeOK'
  <2>1. /\ arg[t].fd \in Fds \cup {NoFd} /\ arg[t].entry \in FdMapEntry \cup {NoEntry}
    OBVIOUS
  <2>2. sFdMap' \in [Fds \cup {NoFd} -> FdMapEntry \cup {NoEntry}]
    BY <1>2, <2>1 DEF drmFdMapHandle, Emplaced
  <2>3. exported' \in [Fds -> FdMapEntry \cup {NoEntry}]
    BY <1>2, <2>1 DEF drmFdMapHandle
  <2> QED
    BY <1>2, <2>2, <2>3 DEF drmFdMapHandle
<1>3. ASSUME NEW t \in Threads, NEW type \in HandleType, NEW fd \in Fds,
             drmFdUnmapHandle(t, type, fd)
      PROVE  FdTypeOK'
  <2>1. CASE sFdMap[fd] = NoEntry \/ sFdMap[fd].type # type
    BY <1>3, <2>1 DEF drmFdUnmapHandle
  <2>2. CASE ~(sFdMap[fd] = NoEntry \/ sFdMap[fd].type # type)
    <3>1. sFdMap[fd] \in FdMapEntry
      BY <2>2
    <3>2. \E handle \in {sFdMap[fd].handle} \cup Garbage :
             arg' = [arg EXCEPT ![t] = [fd |-> fd, entry |-> [type |-> type, handle |-> handle]]]
      BY <1>3, <2>2 DEF drmFdUnmapHandle
    <3>3. PICK handle \in Handles :
             arg' = [arg EXCEPT ![t] = [fd |-> fd, entry |-> [type |-> type, handle |-> handle]]]
      BY <3>1, <3>2, FdMapperAssumption DEF FdMapEntry
    <3>4. [type |-> type, handle |-> handle] \in FdMapEntry
      BY DEF FdMapEntry
    <3>5. arg' \in [Threads -> [fd : Fds \cup {NoFd}, entry : FdMapEntry \cup {NoEntry}]]
      BY <3>3, <3>4
    <3> QED
      BY <1>3, <2>2, <3>5 DEF drmFdUnmapHandle
  <2> QED
    BY <2>1, <2>2
<1>4. ASSUME NEW t \in Threads, ImportReturns(t) PROVE FdTypeOK'
  BY <1>4 DEF ImportReturns
<1>5. ASSUME NEW t \in Threads, NEW fd \in Fds, drmFdClose(t, fd) PROVE FdTypeOK'
  BY <1>5 DEF drmFdClose
<1>6. ASSUME NEW t \in Threads, EraseClosed(t) PROVE FdTypeOK'
  BY <1>6 DEF EraseClosed
<1> QED
  BY <1>0, <1>1, <1>2, <1>3, <1>4, <1>5, <1>6 DEF FdNext, Held

(* Every variable of the descriptor table keeps its type.                  *)
THEOREM FdTypeCorrect == FdSpec => []FdTypeOK
  BY FdInitTypes, FdNextTypes, PTL DEF FdSpec

-----------------------------------------------------------------------------
(* FdMapper: the invariant, action by action. *)

LEMMA FdInitSound == FdInit => FdInvariant
<1> SUFFICES ASSUME FdInit PROVE FdInvariant
  OBVIOUS
<1>1. FdTypeOK
  BY FdInitTypes
<1>2. OpenersApart /\ ClosersHoldLock
  BY FdMapperAssumption DEF FdInit, OpenersApart, ClosersHoldLock
<1>3. FdsAccounted /\ ExportedImportable
  BY DEF FdInit, FdsAccounted, ExportedImportable, Opening, MapKeys
<1> QED
  BY <1>1, <1>2, <1>3 DEF FdInvariant

LEMMA StutterSound == FdInvariant /\ UNCHANGED fdVars => FdInvariant'
  BY DEF FdInvariant, fdVars, FdTypeOK, OpenersApart, ClosersHoldLock, FdsAccounted,
         ExportedImportable, Opening, Closing

(* The new number is no client's and under way to no other thread.         *)
LEMMA OpenDevNullSound ==
  ASSUME FdInvariant, FdTypeOK', NEW t \in Threads, NEW entry \in FdMapEntry,
         OpenDevNull(t, entry)
  PROVE  FdInvariant'
<1> USE DEF FdInvariant, FdTypeOK, MapKeys
<1>1. PICK fd \in IF openFds = Fds THEN {NoFd} ELSE Fds \ openFds :
         /\ openFds' = openFds \cup ({fd} \ {NoFd})
         /\ arg' = [arg EXCEPT ![t] = [fd |-> fd, entry |-> entry]]
  BY DEF OpenDevNull
<1>2. /\ pc[t] = "idle" /\ pc' = [pc EXCEPT ![t] = "opened"]
      /\ UNCHANGED <<sFdMap, sFdMapLock, exported, spent>>
  BY DEF OpenDevNull
<1>3. fd \in Fds => fd \notin openFds /\ exported[fd] = NoEntry
  BY <1>1, FdMapperAssumption DEF FdsAccounted
<1>4. /\ arg'[t] = [fd |-> fd, entry |-> entry] /\ pc'[t] = "opened"
      /\ \A u \in Threads \ {t} : arg'[u] = arg[u] /\ pc'[u] = pc[u]
  BY <1>1, <1>2
<1>5. fd \in Fds => openFds' = openFds \cup {fd}
  BY <1>1, FdMapperAssumption
<1>6. fd = NoFd \/ fd \in Fds
  BY <1>1
<1>7. fd = NoFd => openFds' = openFds
  BY <1>1
<1>8. OpenersApart'
  BY <1>2, <1>3, <1>4, <1>5, <1>6, <1>7 DEF OpenersApart
<1>9. ClosersHoldLock'
  BY <1>2, <1>4 DEF ClosersHoldLock
<1>10. \A f \in Fds : /\ Opening(f)' <=> Opening(f) \/ f = fd
                      /\ Closing(f)' <=> Closing(f)
  BY <1>2, <1>4 DEF Opening, Closing
<1>11. FdsAccounted'
  BY <1>2, <1>5, <1>6, <1>7, <1>10 DEF FdsAccounted
<1>12. ExportedImportable'
  BY <1>2, <1>10 DEF ExportedImportable
<1> QED
  BY <1>8, <1>9, <1>11, <1>12

(* With the lock free nobody is between close and erase, so no entry waits *)
(* under the number.                                                       *)
LEMMA MapHandleSound ==
  ASSUME FdInvariant, FdTypeOK', NEW t \in Threads, drmFdMapHandle(t)
  PROVE  FdInvariant'
<1> USE DEF FdInvariant, FdTypeOK, MapKeys
<1> DEFINE fd == arg[t].fd
           entry == arg[t].entry
<1>1. /\ pc[t] = "opened" /\ sFdMapLock = NoThread
      /\ sFdMap' = Emplaced(sFdMap, fd, entry)
      /\ exported' = [f \in Fds |-> IF f = fd THEN entry ELSE exported[f]]
      /\ spent' = spent \ {fd}
      /\ arg' = [arg EXCEPT ![t] = NoArg] /\ pc' = [pc EXCEPT ![t] = "idle"]
      /\ UNCHANGED <<sFdMapLock, openFds>>
  BY DEF drmFdMapHandle
<1>2. \A u \in Threads : pc[u] # "closing"
  BY <1>1, FdMapperAssumption DEF ClosersHoldLock
<1>3. entry \in FdMapEntry /\ entry # NoEntry
  BY <1>1, NoEntryAssumption DEF OpenersApart
<1>4. fd \in Fds => fd \in openFds /\ exported[fd] = NoEntry /\ sFdMap[fd] = NoEntry
  BY <1>1, <1>2 DEF OpenersApart, ExportedImportable, Closing
<1>5. \A f \in Fds : sFdMap'[f] = IF f = fd THEN entry ELSE sFdMap[f]
  BY <1>1, <1>4 DEF Emplaced
<1>6. /\ arg'[t] = NoArg /\ pc'[t] = "idle"
      /\ \A u \in Threads \ {t} : arg'[u] = arg[u] /\ pc'[u] = pc[u]
  BY <1>1
<1>7. \A u \in Threads \ {t} : pc[u] = "opened" => arg[u].fd # fd \/ fd \notin Fds
  BY <1>1, FdMapperAssumption DEF OpenersApart
<1>8. OpenersApart'
  BY <1>1, <1>6, <1>7 DEF OpenersApart
<1>9. ClosersHoldLock'
  BY <1>1, <1>2, <1>6 DEF ClosersHoldLock
<1>10. \A f \in Fds : /\ Opening(f)' <=> Opening(f) /\ f # fd
                      /\ ~Closing(f)' /\ ~Closing(f)
  BY <1>1, <1>2, <1>6, <1>7 DEF Opening, Closing
<1>11. fd \in Fds => Opening(fd)
  BY <1>1 DEF Opening
<1>12. FdsAccounted'
  BY <1>1, <1>3, <1>4, <1>5, <1>10, <1>11 DEF FdsAccounted
<1>13. ExportedImportable'
  <2>1. \A f \in Fds : f \in spent' <=> f \in spent /\ f # fd
    BY <1>1
  <2>2. \A f \in Fds : exported'[f] = IF f = fd THEN entry ELSE exported[f]
    BY <1>1
  <2> QED
    BY <1>3, <1>5, <1>10, <2>1, <2>2 DEF ExportedImportable
<1> QED
  BY <1>8, <1>9, <1>12, <1>13

LEMMA UnmapHandleSound ==
  ASSUME FdInvariant, FdTypeOK', NEW t \in Threads, NEW type \in HandleType, NEW fd \in Held,
         drmFdUnmapHandle(t, type, fd)
  PROVE  FdInvariant'
<1> USE DEF FdInvariant, FdTypeOK, MapKeys
<1>1. fd \in Fds /\ exported[fd] # NoEntry
  BY DEF Held
<1>2. CASE sFdMap[fd] = NoEntry \/ sFdMap[fd].type # type
  BY <1>2, StutterSound DEF drmFdUnmapHandle, fdVars
<1>3. CASE ~(sFdMap[fd] = NoEntry \/ sFdMap[fd].type # type)
  <2>1. /\ pc[t] = "idle"
        /\ sFdMap' = [sFdMap EXCEPT ![fd] = NoEntry]
        /\ spent' = spent \cup {fd}
        /\ pc' = [pc EXCEPT ![t] = "imported"]
        /\ UNCHANGED <<sFdMapLock, openFds, exported>>
    BY <1>3 DEF drmFdUnmapHandle
  <2>2. \A u \in Threads \ {t} : arg'[u] = arg[u]
    BY <1>3 DEF drmFdUnmapHandle
  <2>3. /\ pc'[t] = "imported" /\ \A u \in Threads \ {t} : pc'[u] = pc[u]
    BY <2>1
  <2>4. OpenersApart'
    BY <2>1, <2>2, <2>3 DEF OpenersApart
  <2>5. ClosersHoldLock'
    BY <2>1, <2>2, <2>3 DEF ClosersHoldLock
  <2>6. \A f \in Fds : (Opening(f)' <=> Opening(f)) /\ (Closing(f)' <=> Closing(f))
    BY <2>1, <2>2, <2>3 DEF Opening, Closing
  <2>7. \A f \in Fds : sFdMap'[f] = IF f = fd THEN NoEntry ELSE sFdMap[f]
    BY <1>1, <2>1
  <2>8. FdsAccounted'
    BY <2>1, <2>6, <2>7 DEF FdsAccounted
  <2>9. ExportedImportable'
    BY <1>1, <2>1, <2>6, <2>7 DEF ExportedImportable
  <2> QED
    BY <2>4, <2>5, <2>8, <2>9
<1> QED
  BY <1>2, <1>3

LEMMA ImportReturnsSound ==
  ASSUME FdInvariant, FdTypeOK', NEW t \in Threads, ImportReturns(t)
  PROVE  FdInvariant'
<1> USE DEF FdInvariant, FdTypeOK, MapKeys
<1>1. /\ pc[t] = "imported" /\ pc'[t] = "idle"
      /\ \A u \in Threads \ {t} : arg'[u] = arg[u] /\ pc'[u] = pc[u]
      /\ UNCHANGED <<sFdMap, sFdMapLock, openFds, exported, spent>>
  BY DEF ImportReturns
<1>2. \A f \in Fds : (Opening(f)' <=> Opening(f)) /\ (Closing(f)' <=> Closing(f))
  BY <1>1 DEF Opening, Closing
<1>3. OpenersApart'
  <2>1. \A u \in Threads : pc'[u] = "opened" => pc[u] = "opened" /\ arg'[u] = arg[u]
    BY <1>1
  <2>2. \A u \in Threads : pc[u] = "opened" =>
           /\ arg[u].entry \in FdMapEntry
           /\ arg[u].fd \in Fds => arg[u].fd \in openFds /\ exported[arg[u].fd] = NoEntry
    BY DEF OpenersApart
  <2>3. \A u, v \in Threads :
           pc[u] = "opened" /\ pc[v] = "opened" /\ u # v /\ arg[u].fd = arg[v].fd =>
              arg[u].fd = NoFd
    BY DEF OpenersApart
  <2>4. openFds' = openFds /\ exported' = exported
    BY <1>1
  <2> QED
    BY <2>1, <2>2, <2>3, <2>4, ZenonT(30) DEF OpenersApart
<1>4. ClosersHoldLock'
  BY <1>1 DEF ClosersHoldLock
<1>5. FdsAccounted' /\ ExportedImportable'
  BY <1>1, <1>2 DEF FdsAccounted, ExportedImportable
<1> QED
  BY <1>3, <1>4, <1>5

(* A careful client finds the lock free.  What it closes leaves openFds;   *)
(* the entry, if there is one, stays until erase.                          *)
LEMMA CloseSound ==
  ASSUME Careful, FdInvariant, FdTypeOK', NEW t \in Threads, NEW fd \in Held, drmFdClose(t, fd)
  PROVE  FdInvariant'
<1> USE DEF FdInvariant, FdTypeOK, MapKeys
<1>1. fd \in Fds /\ exported[fd] # NoEntry
  BY DEF Held
<1>2. /\ pc[t] = "idle" /\ sFdMapLock = NoThread
      /\ openFds' = openFds \ {fd}
      /\ exported' = [exported EXCEPT ![fd] = NoEntry]
      /\ spent' = spent \ {fd}
      /\ UNCHANGED sFdMap
  BY DEF drmFdClose
<1>3. \A u \in Threads : pc[u] # "closing"
  BY <1>2, FdMapperAssumption DEF ClosersHoldLock
<1>4. \A u \in Threads : pc[u] = "opened" => arg[u].fd # fd
  BY <1>1 DEF OpenersApart
<1>5. \A f \in Fds : exported'[f] = IF f = fd THEN NoEntry ELSE exported[f]
  BY <1>2
<1>6. CASE sFdMap[fd] # NoEntry
  <2>1. /\ sFdMapLock' = t
        /\ pc' = [pc EXCEPT ![t] = "closing"]
        /\ arg' = [arg EXCEPT ![t] = [fd |-> fd, entry |-> NoEntry]]
    BY <1>6 DEF drmFdClose
  <2>2. /\ pc'[t] = "closing" /\ arg'[t].fd = fd
        /\ \A u \in Threads \ {t} : pc'[u] = pc[u] /\ arg'[u] = arg[u]
    BY <2>1
  <2>3. OpenersApart'
    <3>1. \A u \in Threads : pc'[u] = "opened" =>
             pc[u] = "opened" /\ arg'[u] = arg[u] /\ arg[u].fd # fd
      BY <1>4, <2>2
    <3> QED
      BY <1>2, <1>5, <3>1 DEF OpenersApart
  <2>4. ClosersHoldLock'
    BY <1>1, <1>3, <1>5, <2>1, <2>2 DEF ClosersHoldLock
  <2>5. \A f \in Fds : (Opening(f)' <=> Opening(f)) /\ (Closing(f)' <=> f = fd) /\ ~Closing(f)
    BY <1>2, <1>3, <2>2 DEF Opening, Closing
  <2>6. ~Opening(fd)
    BY <1>4 DEF Opening
  <2>7. FdsAccounted'
    BY <1>1, <1>2, <1>5, <2>5, <2>6 DEF FdsAccounted
  <2>8. ExportedImportable'
    BY <1>1, <1>2, <1>5, <2>5 DEF ExportedImportable
  <2> QED
    BY <2>3, <2>4, <2>7, <2>8
<1>7. CASE sFdMap[fd] = NoEntry
  <2>1. UNCHANGED <<sFdMapLock, pc, arg>>
    BY <1>7 DEF drmFdClose
  <2>2. OpenersApart'
    BY <1>2, <1>4, <1>5, <2>1 DEF OpenersApart
  <2>3. ClosersHoldLock'
    BY <1>3, <2>1 DEF ClosersHoldLock
  <2>4. \A f \in Fds : (Opening(f)' <=> Opening(f)) /\ ~Closing(f)' /\ ~Closing(f)
    BY <1>3, <2>1 DEF Opening, Closing
  <2>5. ~Opening(fd)
    BY <1>4 DEF Opening
  <2>6. FdsAccounted'
    BY <1>1, <1>2, <1>5, <1>7, <2>4, <2>5 DEF FdsAccounted
  <2>7. ExportedImportable'
    BY <1>1, <1>2, <1>5, <1>7, <2>4 DEF ExportedImportable
  <2> QED
    BY <2>2, <2>3, <2>6, <2>7
<1> QED
  BY <1>6, <1>7

(* The number may already be open again, for an export that waits for the  *)
(* lock; its entry is the old one, and goes.                               *)
LEMMA EraseSound ==
  ASSUME FdInvariant, FdTypeOK', NEW t \in Threads, EraseClosed(t)
  PROVE  FdInvariant'
<1> USE DEF FdInvariant, FdTypeOK, MapKeys
<1> DEFINE fd == arg[t].fd
<1>1. /\ pc[t] = "closing"
      /\ sFdMap' = [sFdMap EXCEPT ![fd] = NoEntry]
      /\ sFdMapLock' = NoThread
      /\ pc' = [pc EXCEPT ![t] = "idle"]
      /\ arg' = [arg EXCEPT ![t] = NoArg]
      /\ UNCHANGED <<openFds, exported, spent>>
  BY DEF EraseClosed
<1>2. fd \in Fds /\ exported[fd] = NoEntry /\ sFdMapLock = t
  BY <1>1 DEF ClosersHoldLock
<1>3. \A u \in Threads \ {t} : pc[u] # "closing"
  BY <1>2 DEF ClosersHoldLock
<1>4. /\ pc'[t] = "idle" /\ \A u \in Threads \ {t} : pc'[u] = pc[u] /\ arg'[u] = arg[u]
  BY <1>1
<1>5. \A f \in Fds : sFdMap'[f] = IF f = fd THEN NoEntry ELSE sFdMap[f]
  BY <1>1
<1>6. \A f \in Fds : /\ Opening(f)' <=> Opening(f)
                     /\ ~Closing(f)'
                     /\ Closing(f) <=> f = fd
  BY <1>1, <1>3, <1>4 DEF Opening, Closing
<1>7. OpenersApart'
  BY <1>1, <1>4 DEF OpenersApart
<1>8. ClosersHoldLock'
  BY <1>1, <1>3, <1>4, FdMapperAssumption DEF ClosersHoldLock
<1>9. FdsAccounted'
  BY <1>1, <1>5, <1>6 DEF FdsAccounted
<1>10. ExportedImportable'
  BY <1>1, <1>2, <1>5, <1>6 DEF ExportedImportable
<1> QED
  BY <1>7, <1>8, <1>9, <1>10

LEMMA FdNextSound ==
  ASSUME Careful, FdInvariant, [FdNext]_fdVars
  PROVE  FdInvariant'
<1>1. FdTypeOK'
  BY FdNextTypes DEF FdInvariant
<1> QED
  BY <1>1, StutterSound, OpenDevNullSound, MapHandleSound, UnmapHandleSound,
     ImportReturnsSound, CloseSound, EraseSound DEF FdNext

(* The entry an import takes is the one its own export made, because       *)
(* nothing imported before is left in the table; the test of the type does *)
(* the rest.  What is read through it afterwards plays no part.            *)
LEMMA ImportStep ==
  ASSUME FdInvariant, [FdNext]_fdVars
  PROVE  [\A t \in Threads :
             pc[t] # "imported" /\ pc'[t] = "imported" =>
                LET fd == arg'[t].fd
                IN  /\ fd \notin spent /\ sFdMap[fd] = exported[fd]
                    /\ exported[fd].type = arg'[t].entry.type
                    /\ sFdMap'[fd] = NoEntry]_fdVars
<1> SUFFICES ASSUME FdNext, NEW t \in Threads, pc[t] # "imported", pc'[t] = "imported"
             PROVE  LET fd == arg'[t].fd
                    IN  /\ fd \notin spent /\ sFdMap[fd] = exported[fd]
                        /\ exported[fd].type = arg'[t].entry.type
                        /\ sFdMap'[fd] = NoEntry
  OBVIOUS
<1> USE DEF FdInvariant, FdTypeOK
<1>1. ASSUME NEW u \in Threads, NEW entry \in FdMapEntry, OpenDevNull(u, entry) PROVE FALSE
  BY <1>1 DEF OpenDevNull
<1>2. ASSUME NEW u \in Threads, drmFdMapHandle(u) PROVE FALSE
  BY <1>2 DEF drmFdMapHandle
<1>3. ASSUME NEW u \in Threads, ImportReturns(u) PROVE FALSE
  BY <1>3 DEF ImportReturns
<1>4. ASSUME NEW u \in Threads, NEW fd \in Held, drmFdClose(u, fd) PROVE FALSE
  BY <1>4 DEF drmFdClose
<1>5. ASSUME NEW u \in Threads, EraseClosed(u) PROVE FALSE
  BY <1>5 DEF EraseClosed
<1>6. ASSUME NEW u \in Threads, NEW fd \in Held, NEW type \in HandleType,
             drmFdUnmapHandle(u, type, fd)
      PROVE  LET own == arg'[t].fd
             IN  /\ own \notin spent /\ sFdMap[own] = exported[own]
                 /\ exported[own].type = arg'[t].entry.type
                 /\ sFdMap'[own] = NoEntry
  <2>1. fd \in Fds /\ exported[fd] # NoEntry
    BY DEF Held
  <2>2. u = t /\ sFdMap[fd] # NoEntry /\ sFdMap[fd].type = type
    BY <1>6 DEF drmFdUnmapHandle
  <2>3. fd \notin spent /\ sFdMap[fd] = exported[fd]
    BY <2>1, <2>2 DEF ExportedImportable
  <2>4. PICK handle \in {sFdMap[fd].handle} \cup Garbage :
           arg' = [arg EXCEPT ![t] = [fd |-> fd, entry |-> [type |-> type, handle |-> handle]]]
    BY <1>6, <2>2 DEF drmFdUnmapHandle
  <2>5. arg'[t].fd = fd /\ arg'[t].entry.type = type
    BY <2>4
  <2>6. sFdMap'[fd] = NoEntry
    BY <1>6, <2>1, <2>2 DEF drmFdUnmapHandle, MapKeys
  <2> QED
    BY <2>2, <2>3, <2>5, <2>6
<1> QED
  BY <1>1, <1>2, <1>3, <1>4, <1>5, <1>6 DEF FdNext

-----------------------------------------------------------------------------
(* FdMapper: the theorems. *)

(* Clients that close with drmFdClose never leak a descriptor nor leave an *)
(* entry behind one.                                                       *)
THEOREM DescriptorsAccounted ==
  ASSUME Careful
  PROVE  FdSpec => []FdsAccounted
<1>1. FdInvariant => FdsAccounted
  BY DEF FdInvariant
<1>2. FdInvariant /\ [FdNext]_fdVars => FdInvariant'
  BY FdNextSound
<1> QED
  BY <1>1, <1>2, FdInitSound, PTL DEF FdSpec

(* Nor does the reuse of a number by another thread take an entry away or  *)
(* revive an old one.                                                      *)
THEOREM ExportsImportable ==
  ASSUME Careful
  PROVE  FdSpec => []ExportedImportable
<1>1. FdInvariant => ExportedImportable
  BY DEF FdInvariant
<1>2. FdInvariant /\ [FdNext]_fdVars => FdInvariant'
  BY FdNextSound
<1> QED
  BY <1>1, <1>2, FdInitSound, PTL DEF FdSpec

(* An import consumes the entry of its own export, of its own kind and for *)
(* the first time, whatever it then reads through the freed entry.         *)
THEOREM ImportsTakeOwnEntry ==
  ASSUME Careful
  PROVE  FdSpec => ImportTakesOwnEntry
<1>1. FdInvariant /\ [FdNext]_fdVars =>
         [\A t \in Threads :
             pc[t] # "imported" /\ pc'[t] = "imported" =>
                LET fd == arg'[t].fd
                IN  /\ fd \notin spent /\ sFdMap[fd] = exported[fd]
                    /\ exported[fd].type = arg'[t].entry.type
                    /\ sFdMap'[fd] = NoEntry]_fdVars
  BY ImportStep
<1>2. FdInvariant /\ [FdNext]_fdVars => FdInvariant'
  BY FdNextSound
<1> QED
  BY <1>1, <1>2, FdInitSound, PTL DEF FdSpec, ImportTakesOwnEntry

-----------------------------------------------------------------------------
(* StubBackend: the types, and the refinement of FdMapper. *)

Number == [kind : Kinds, number : Handles, by : Threads]

Placement == [address : MapAddresses, size : MapSizes, buffer : Buffers]

CallType == [kind : Kinds \cup {"none", "cap"}, number : Nat]

(* A number that was read is one of the numbers there are. *)
StubTypeOK ==
    /\ next \in [Kinds -> Nat \ {0}]
    /\ gGpuBufferHandleTable \in [Handles -> Buffers \cup {NoBuffer}]
    /\ gGpuBufferMappingTable \in [MapAddresses -> GpuMapping \cup {NoBuffer}]
    /\ call \in [Threads -> CallType]
    /\ \A t \in Threads : call[t].kind \in Kinds => call[t].number \in 1 .. MaxNumber[call[t].kind]
    /\ owned \subseteq Number
    /\ placed \subseteq Placement

(* What the assumptions give. *)
LEMMA Numbers ==
  /\ "none" \notin Kinds /\ "cap" \notin Kinds
  /\ \A k \in Kinds : MaxNumber[k] \in Nat /\ 1 .. MaxNumber[k] \subseteq Handles
  /\ NoCall \in CallType /\ CapCall \in CallType
  /\ NoCall.kind = "none" /\ CapCall.kind = "cap"
  /\ NoBuffer \notin Buffers /\ NoBuffer \notin GpuMapping
  BY StubBackendAssumption, NoBufferAssumption DEF NoCall, CapCall, CallType

(* The tables start empty. *)
LEMMA StubInitTypes == StubInit => StubTypeOK
<1> SUFFICES ASSUME StubInit PROVE StubTypeOK
  OBVIOUS
<1> USE DEF StubInit
<1>1. next \in [Kinds -> Nat \ {0}]
  OBVIOUS
<1>2. /\ gGpuBufferHandleTable \in [Handles -> Buffers \cup {NoBuffer}]
      /\ gGpuBufferMappingTable \in [MapAddresses -> GpuMapping \cup {NoBuffer}]
  OBVIOUS
<1>3. /\ call \in [Threads -> CallType]
      /\ \A t \in Threads : call[t].kind \notin Kinds
  BY Numbers
<1> QED
  BY <1>1, <1>2, <1>3 DEF StubTypeOK

(* The steps that change no descriptor. *)
LEMMA TakeNumberTypes ==
  ASSUME StubTypeOK, NEW t \in Threads, NEW kind \in Kinds, TakeNumber(t, kind)
  PROVE  StubTypeOK' /\ UNCHANGED fdVars
<1> DEFINE x == [kind |-> kind, number |-> next[kind]]
<1>1. /\ call' = [call EXCEPT ![t] = x] /\ next[kind] <= MaxNumber[kind]
      /\ UNCHANGED fdVars
      /\ UNCHANGED <<next, gGpuBufferHandleTable, gGpuBufferMappingTable, owned, placed>>
  BY DEF TakeNumber
<1>2. x \in CallType /\ x.kind = kind /\ x.number \in 1 .. MaxNumber[kind]
  BY <1>1, Numbers DEF StubTypeOK, CallType
<1> HIDE DEF x
<1>3. /\ call' \in [Threads -> CallType]
      /\ call'[t] = x /\ \A u \in Threads \ {t} : call'[u] = call[u]
  BY <1>1, <1>2 DEF StubTypeOK
<1> QED
  BY <1>1, <1>2, <1>3 DEF StubTypeOK

(* A number that was read is a handle of the table, and the next is not 0. *)
LEMMA UseNumberTypes ==
  ASSUME StubTypeOK, NEW t \in Threads, UseNumber(t)
  PROVE  StubTypeOK' /\ UNCHANGED fdVars
<1>0. PICK kind \in Kinds : kind = call[t].kind
  BY DEF UseNumber
<1>1. PICK n \in 1 .. MaxNumber[kind] : n = call[t].number
  BY <1>0 DEF StubTypeOK
<1>2. /\ next' = [next EXCEPT ![kind] = n + 1]
      /\ gGpuBufferHandleTable' =
            [h \in Handles |->
               IF kind = "gem" /\ h = n /\ gGpuBufferHandleTable[h] = NoBuffer
               THEN [handle |-> n, by |-> t] ELSE gGpuBufferHandleTable[h]]
      /\ owned' = owned \cup {[kind |-> kind, number |-> n, by |-> t]}
      /\ call' = [call EXCEPT ![t] = NoCall]
      /\ UNCHANGED fdVars /\ UNCHANGED <<gGpuBufferMappingTable, placed>>
  BY <1>0, <1>1 DEF UseNumber, ThisGpuBuffer
<1>3. n \in Nat /\ n \in Handles /\ [handle |-> n, by |-> t] \in Buffers
      /\ [kind |-> kind, number |-> n, by |-> t] \in Number
  BY Numbers DEF Buffers, Number
<1>4. next' \in [Kinds -> Nat \ {0}]
  BY <1>2, <1>3 DEF StubTypeOK
<1>5. gGpuBufferHandleTable' \in [Handles -> Buffers \cup {NoBuffer}]
  BY <1>2, <1>3 DEF StubTypeOK
<1>6. /\ call' \in [Threads -> CallType]
      /\ \A u \in Threads : call'[u] = IF u = t THEN NoCall ELSE call[u]
  BY <1>2, Numbers DEF StubTypeOK
<1> QED
  BY <1>2, <1>3, <1>4, <1>5, <1>6, Numbers DEF StubTypeOK

(* Closing a handle only takes things away. *)
LEMMA GiveUpTypes ==
  ASSUME StubTypeOK, NEW t \in Threads, NEW o \in owned, GiveUp(t, o)
  PROVE  StubTypeOK' /\ UNCHANGED fdVars
<1>1. /\ owned' = owned \ {o}
      /\ gGpuBufferHandleTable' =
            [h \in Handles |-> IF o.kind = "gem" /\ h = o.number
                               THEN NoBuffer ELSE gGpuBufferHandleTable[h]]
      /\ UNCHANGED fdVars /\ UNCHANGED <<next, gGpuBufferMappingTable, call, placed>>
  BY DEF GiveUp, ThisGpuBuffer
<1> QED
  BY <1>1 DEF StubTypeOK

(* A mapping holds a buffer of the table. *)
LEMMA MapTypes ==
  ASSUME StubTypeOK, NEW t \in Threads, NEW o \in owned, NEW a \in MapAddresses,
         NEW size \in MapSizes, MapGpuBuffer(t, o, a, size)
  PROVE  StubTypeOK' /\ UNCHANGED fdVars
<1> DEFINE buffer == gGpuBufferHandleTable[o.number]
<1>1. /\ gGpuBufferMappingTable' =
            [b \in MapAddresses |->
               IF b = a /\ buffer # NoBuffer /\ gGpuBufferMappingTable[b] = NoBuffer
               THEN [buffer |-> buffer, size |-> size] ELSE gGpuBufferMappingTable[b]]
      /\ placed' = placed \cup
            {[address |-> a, size |-> size, buffer |-> [handle |-> o.number, by |-> o.by]]}
      /\ UNCHANGED fdVars /\ UNCHANGED <<next, gGpuBufferHandleTable, call, owned>>
  BY DEF MapGpuBuffer, ThisGpuBuffer
<1>2. o.number \in Handles /\ o.by \in Threads
  BY DEF StubTypeOK, Number
<1>3. buffer # NoBuffer => [buffer |-> buffer, size |-> size] \in GpuMapping
  BY <1>2 DEF StubTypeOK, GpuMapping
<1>4. [address |-> a, size |-> size, buffer |-> [handle |-> o.number, by |-> o.by]] \in Placement
  BY <1>2 DEF Placement, Buffers
<1> HIDE DEF buffer
<1>5. gGpuBufferMappingTable' \in [MapAddresses -> GpuMapping \cup {NoBuffer}]
  BY <1>1, <1>3 DEF StubTypeOK
<1> QED
  BY <1>1, <1>4, <1>5 DEF StubTypeOK

(* Unmapping only takes things away. *)
LEMMA UnmapTypes ==
  ASSUME StubTypeOK, NEW t \in Threads, NEW p \in placed, UnmapGpuBuffer(t, p)
  PROVE  StubTypeOK' /\ UNCHANGED fdVars
<1>1. /\ gGpuBufferMappingTable' = [gGpuBufferMappingTable EXCEPT ![p.address] = NoBuffer]
      /\ placed' = placed \ {p}
      /\ UNCHANGED fdVars /\ UNCHANGED <<next, gGpuBufferHandleTable, call, owned>>
  BY DEF UnmapGpuBuffer
<1> QED
  BY <1>1 DEF StubTypeOK

(* The steps that are calls of FdMapper.  A capability query is an export, *)
(* of a handle nobody asked for.                                           *)
LEMMA ExportTypes ==
  ASSUME StubTypeOK, NEW t \in Threads, NEW o \in owned, HandleToFD(t, o)
  PROVE  StubTypeOK' /\ FdNext
<1>1. /\ OpenDevNull(t, [type |-> o.kind, handle |-> o.number])
      /\ o.kind \in HandleType
      /\ UNCHANGED <<next, gGpuBufferHandleTable, gGpuBufferMappingTable, call, owned, placed>>
  BY DEF HandleToFD, memVars
<1>2. [type |-> o.kind, handle |-> o.number] \in FdMapEntry
  BY <1>1 DEF StubTypeOK, Number, FdMapEntry
<1> QED
  BY <1>1, <1>2 DEF StubTypeOK, FdNext

(* A capability query enters the capability as a handle of type gem. *)
LEMMA GetCapTypes ==
  ASSUME StubTypeOK, NEW t \in Threads, NEW cap \in Capabilities, GetCap(t, cap)
  PROVE  StubTypeOK' /\ FdNext
<1>1. /\ OpenDevNull(t, [type |-> "gem", handle |-> cap])
      /\ call' = [call EXCEPT ![t] = CapCall]
      /\ UNCHANGED <<next, gGpuBufferHandleTable, gGpuBufferMappingTable, owned, placed>>
  BY DEF GetCap
<1>2. [type |-> "gem", handle |-> cap] \in FdMapEntry
  BY StubBackendAssumption DEF FdMapEntry, HandleType
<1>3. /\ call' \in [Threads -> CallType]
      /\ \A u \in Threads : call'[u] = IF u = t THEN CapCall ELSE call[u]
  BY <1>1, Numbers DEF StubTypeOK
<1> QED
  BY <1>1, <1>2, <1>3, Numbers DEF StubTypeOK, FdNext

(* Both kinds of export return. *)
LEMMA DescriptorTypes ==
  ASSUME StubTypeOK, NEW t \in Threads, DescriptorReturned(t)
  PROVE  StubTypeOK' /\ FdNext
<1>1. /\ drmFdMapHandle(t)
      /\ call' = [call EXCEPT ![t] = NoCall]
      /\ UNCHANGED <<next, gGpuBufferHandleTable, gGpuBufferMappingTable, owned, placed>>
  BY DEF DescriptorReturned
<1>2. /\ call' \in [Threads -> CallType]
      /\ \A u \in Threads : call'[u] = IF u = t THEN NoCall ELSE call[u]
  BY <1>1, Numbers DEF StubTypeOK
<1> QED
  BY <1>1, <1>2, Numbers DEF StubTypeOK, FdNext

LEMMA ImportTypes ==
  ASSUME StubTypeOK, NEW t \in Threads
  PROVE  /\ \A fd \in Known, type \in HandleType : FDToHandle(t, fd, type) => StubTypeOK' /\ FdNext
         /\ HandleReturned(t) => StubTypeOK' /\ FdNext
         /\ \A fd \in Known : CloseFd(t, fd) => StubTypeOK' /\ FdNext
         /\ FdClosed(t) => StubTypeOK' /\ FdNext
<1>1. UNCHANGED memVars => StubTypeOK'
  BY DEF memVars, StubTypeOK
<1>2. Known \subseteq Held
  BY DEF Known
<1> QED
  BY <1>1, <1>2 DEF FDToHandle, HandleReturned, CloseFd, FdClosed, FdNext

(* Every call of the stub is one of FdMapper, or leaves it alone. *)
LEMMA StubNextTypes == StubTypeOK /\ [StubNext]_stubVars => StubTypeOK' /\ [FdNext]_fdVars
<1> SUFFICES ASSUME StubTypeOK, [StubNext]_stubVars PROVE StubTypeOK' /\ [FdNext]_fdVars
  OBVIOUS
<1>1. CASE UNCHANGED stubVars
  <2>1. UNCHANGED fdVars /\ UNCHANGED memVars
    BY <1>1 DEF stubVars
  <2> QED
    BY <2>1 DEF memVars, StubTypeOK
<1>2. CASE StubNext
  BY <1>2, TakeNumberTypes, UseNumberTypes, GiveUpTypes, MapTypes, UnmapTypes, ExportTypes,
     GetCapTypes, DescriptorTypes, ImportTypes DEF StubNext
<1> QED
  BY <1>1, <1>2

(* The tables hold what they are declared to hold. *)
LEMMA StubTypeCorrect == StubSpec => []StubTypeOK
  BY StubInitTypes, StubNextTypes, PTL DEF StubSpec

(* The stub's exports, imports and capability queries use the descriptor   *)
(* table as its clients may: what holds of FdMapper holds of the stub.     *)
THEOREM StubImplementsFdMapper == StubSpec => FdSpec
<1>1. StubInit => FdInit
  BY DEF StubInit
<1> QED
  BY <1>1, StubInitTypes, StubNextTypes, PTL DEF StubSpec, FdSpec

(* So no call of the stub leaks a descriptor or leaves an entry behind one, *)
THEOREM StubDescriptorsAccounted ==
  ASSUME Careful
  PROVE  StubSpec => []FdsAccounted
  BY StubImplementsFdMapper, DescriptorsAccounted, PTL

(* nor takes an entry away or revives an old one,                          *)
THEOREM StubExportsImportable ==
  ASSUME Careful
  PROVE  StubSpec => []ExportedImportable
  BY StubImplementsFdMapper, ExportsImportable, PTL

(* and an import consumes the entry of its own export, once.               *)
THEOREM StubImportsTakeOwnEntry ==
  ASSUME Careful
  PROVE  StubSpec => ImportTakesOwnEntry
  BY StubImplementsFdMapper, ImportsTakeOwnEntry, PTL

-----------------------------------------------------------------------------
(* StubBackend: numbers.  HandlesResolve is not inductive: a number is safe *)
(* to use only while no other thread can read it (it is still the counter, *)
(* and one thread at a time has read one), every number given out is below *)
(* the counter, and so is every handle in the table.                       *)

NumbersApart ==
    /\ \A t \in Threads : call[t].kind \in Kinds => call[t].number = next[call[t].kind]
    /\ \A t, u \in Threads : call[t].kind \in Kinds /\ call[u].kind \in Kinds => t = u
    /\ \A o \in owned : o.number < next[o.kind]
    /\ \A h \in Handles :
          gGpuBufferHandleTable[h] # NoBuffer => "gem" \in Kinds /\ h < next["gem"]

HandlesInvariant == StubTypeOK /\ NumbersApart /\ HandlesResolve

(* Nothing is numbered yet. *)
LEMMA HandlesInit == StubInit => HandlesInvariant
<1> SUFFICES ASSUME StubInit PROVE NumbersApart /\ HandlesResolve
  BY StubInitTypes DEF HandlesInvariant
<1>1. /\ \A t \in Threads : call[t] = NoCall
      /\ owned = {} /\ \A h \in Handles : gGpuBufferHandleTable[h] = NoBuffer
  BY DEF StubInit
<1> QED
  BY <1>1, Numbers DEF NumbersApart, HandlesResolve

(* A call that numbers nothing, and at most lets a thread go. *)
LEMMA HandlesFrame ==
  ASSUME HandlesInvariant, StubTypeOK', UNCHANGED <<next, gGpuBufferHandleTable, owned>>,
         \A u \in Threads : call'[u] = call[u] \/ call'[u].kind \notin Kinds
  PROVE  HandlesInvariant'
<1>1. next' = next /\ gGpuBufferHandleTable' = gGpuBufferHandleTable /\ owned' = owned
  OBVIOUS
<1>2. HandlesResolve'
  BY <1>1 DEF HandlesInvariant, HandlesResolve, ThisGpuBuffer
<1>3. NumbersApart'
  BY <1>1 DEF HandlesInvariant, NumbersApart
<1> QED
  BY <1>2, <1>3 DEF HandlesInvariant

(* Reading a counter: no other thread has read one. *)
LEMMA HandlesTakeNumber ==
  ASSUME Serial, HandlesInvariant, NEW t \in Threads, NEW kind \in Kinds, TakeNumber(t, kind)
  PROVE  HandlesInvariant'
<1> DEFINE x == [kind |-> kind, number |-> next[kind]]
<1>1. /\ Quiet /\ call' = [call EXCEPT ![t] = x]
      /\ next' = next /\ gGpuBufferHandleTable' = gGpuBufferHandleTable /\ owned' = owned
  BY DEF TakeNumber
<1>2. x.kind = kind /\ x.number = next[kind]
  OBVIOUS
<1> HIDE DEF x
<1>3. StubTypeOK /\ StubTypeOK' /\ HandlesResolve /\ NumbersApart
  BY TakeNumberTypes DEF HandlesInvariant
<1>4. call'[t] = x /\ \A u \in Threads \ {t} : call'[u].kind \notin Kinds
  BY <1>1, <1>3 DEF StubTypeOK, Quiet
<1>5. HandlesResolve'
  BY <1>1, <1>3 DEF HandlesResolve, ThisGpuBuffer
<1>6. NumbersApart'
  BY <1>1, <1>2, <1>3, <1>4 DEF NumbersApart
<1> QED
  BY <1>3, <1>5, <1>6 DEF HandlesInvariant

(* Using the number: it is new, the handle is free, and the counter moves  *)
(* past it.                                                                *)
LEMMA HandlesUseNumber ==
  ASSUME HandlesInvariant, NEW t \in Threads, UseNumber(t)
  PROVE  HandlesInvariant'
<1>1. PICK kind \in Kinds : kind = call[t].kind
  BY DEF UseNumber
<1>2. StubTypeOK /\ StubTypeOK' /\ HandlesResolve /\ NumbersApart
  BY UseNumberTypes DEF HandlesInvariant
<1>3. PICK n \in 1 .. MaxNumber[kind] : n = call[t].number /\ n = next[kind]
  BY <1>1, <1>2 DEF StubTypeOK, NumbersApart
<1> DEFINE o == [kind |-> kind, number |-> n, by |-> t]
           b == [handle |-> n, by |-> t]
<1>4. /\ next' = [next EXCEPT ![kind] = n + 1]
      /\ gGpuBufferHandleTable' =
            [h \in Handles |->
               IF kind = "gem" /\ h = n /\ gGpuBufferHandleTable[h] = NoBuffer
               THEN b ELSE gGpuBufferHandleTable[h]]
      /\ owned' = owned \cup {o}
      /\ call' = [call EXCEPT ![t] = NoCall]
  BY <1>1, <1>3 DEF UseNumber, ThisGpuBuffer
<1>5. n \in Nat /\ n \in Handles /\ Handles \subseteq Nat
  BY Numbers, StubBackendAssumption
<1>6. /\ o.kind = kind /\ o.number = n /\ o.by = t
      /\ b = [handle |-> o.number, by |-> o.by]
  OBVIOUS
<1> HIDE DEF o, b
<1>7. /\ next'[kind] = n + 1 /\ next[kind] = n
      /\ \A k \in Kinds \ {kind} : next'[k] = next[k]
      /\ \A k \in Kinds : next[k] \in Nat
  BY <1>2, <1>3, <1>4 DEF StubTypeOK
<1>8. \A u \in Threads : call'[u].kind \notin Kinds
  <2> SUFFICES ASSUME NEW u \in Threads PROVE call'[u].kind \notin Kinds
    OBVIOUS
  <2>1. CASE u = t
    BY <2>1, <1>2, <1>4, Numbers DEF StubTypeOK
  <2>2. CASE u # t
    <3>1. call'[u] = call[u]
      BY <2>2, <1>2, <1>4 DEF StubTypeOK
    <3> QED
      BY <3>1, <2>2, <1>1, <1>2 DEF NumbersApart
  <2> QED
    BY <2>1, <2>2
<1>9. /\ \A p \in owned : p.kind \in Kinds /\ p.number \in Nat /\ p.number \in Handles
      /\ \A p \in owned : p.number < next[p.kind]
  BY <1>2, <1>5 DEF StubTypeOK, Number, NumbersApart
<1>10. kind = "gem" => gGpuBufferHandleTable[n] = NoBuffer
  <2>1. kind = "gem" /\ gGpuBufferHandleTable[n] # NoBuffer => n < n
    BY <1>2, <1>3, <1>5 DEF NumbersApart
  <2> QED
    BY <2>1, <1>5
<1>11. \A h \in Handles : gGpuBufferHandleTable'[h] =
          IF kind = "gem" /\ h = n THEN b ELSE gGpuBufferHandleTable[h]
  BY <1>4, <1>10
<1>12. NumbersApart'
  <2>1. \A p \in owned' : p.number < next'[p.kind]
    BY <1>4, <1>5, <1>6, <1>7, <1>9
  <2>2. \A h \in Handles : gGpuBufferHandleTable'[h] # NoBuffer => "gem" \in Kinds /\ h < next'["gem"]
    <3> SUFFICES ASSUME NEW h \in Handles, gGpuBufferHandleTable'[h] # NoBuffer
                 PROVE  "gem" \in Kinds /\ h < next'["gem"]
      OBVIOUS
    <3>1. CASE kind = "gem" /\ h = n
      BY <3>1, <1>5, <1>7
    <3>2. CASE ~(kind = "gem" /\ h = n)
      <4>1. "gem" \in Kinds /\ h < next["gem"]
        BY <3>2, <1>2, <1>11 DEF NumbersApart
      <4> QED
        BY <4>1, <1>5, <1>7
    <3> QED
      BY <3>1, <3>2
  <2> QED
    BY <2>1, <2>2, <1>8 DEF NumbersApart
<1>13. HandlesResolve'
  <2>1. \A p \in owned : ~(p.kind = kind /\ p.number = n)
    BY <1>5, <1>7, <1>9
  <2>2. \A p, q \in owned' : p.kind = q.kind /\ p.number = q.number => p = q
    BY <2>1, <1>2, <1>4, <1>6 DEF HandlesResolve
  <2>3. \A p \in owned' : p.kind = "gem" =>
           gGpuBufferHandleTable'[p.number] = [handle |-> p.number, by |-> p.by]
    <3>1. \A p \in owned : p.kind = "gem" =>
             gGpuBufferHandleTable'[p.number] = gGpuBufferHandleTable[p.number]
      BY <2>1, <1>9, <1>11
    <3>2. \A p \in owned : p.kind = "gem" =>
             gGpuBufferHandleTable[p.number] = [handle |-> p.number, by |-> p.by]
      BY <1>2 DEF HandlesResolve, ThisGpuBuffer
    <3>3. kind = "gem" => gGpuBufferHandleTable'[n] = [handle |-> o.number, by |-> o.by]
      BY <1>5, <1>6, <1>11
    <3> QED
      BY <3>1, <3>2, <3>3, <1>4, <1>6
  <2> QED
    BY <2>2, <2>3 DEF HandlesResolve, ThisGpuBuffer
<1> QED
  BY <1>2, <1>12, <1>13 DEF HandlesInvariant

(* Closing a handle: nobody else holds its number. *)
LEMMA HandlesGiveUp ==
  ASSUME HandlesInvariant, NEW t \in Threads, NEW o \in owned, GiveUp(t, o)
  PROVE  HandlesInvariant'
<1>1. /\ owned' = owned \ {o} /\ next' = next /\ call' = call
      /\ \A h \in Handles : gGpuBufferHandleTable'[h] =
            IF o.kind = "gem" /\ h = o.number THEN NoBuffer ELSE gGpuBufferHandleTable[h]
  BY DEF GiveUp, ThisGpuBuffer
<1>2. StubTypeOK /\ StubTypeOK' /\ HandlesResolve /\ NumbersApart
  BY GiveUpTypes DEF HandlesInvariant
<1>3. \A p \in owned : p.number \in Handles
  BY <1>2 DEF StubTypeOK, Number
<1>4. HandlesResolve'
  <2>1. \A p \in owned' : p.kind = "gem" =>
           gGpuBufferHandleTable'[p.number] = gGpuBufferHandleTable[p.number]
    BY <1>1, <1>2, <1>3 DEF HandlesResolve
  <2> QED
    BY <2>1, <1>1, <1>2 DEF HandlesResolve, ThisGpuBuffer
<1>5. NumbersApart'
  BY <1>1, <1>2 DEF NumbersApart
<1> QED
  BY <1>2, <1>4, <1>5 DEF HandlesInvariant

(* The other calls number nothing. *)
LEMMA HandlesOther ==
  ASSUME HandlesInvariant, NEW t \in Threads
  PROVE  /\ \A o \in owned, a \in MapAddresses, size \in MapSizes :
               MapGpuBuffer(t, o, a, size) => HandlesInvariant'
         /\ \A p \in placed : UnmapGpuBuffer(t, p) => HandlesInvariant'
         /\ \A o \in owned : HandleToFD(t, o) => HandlesInvariant'
         /\ \A cap \in Capabilities : GetCap(t, cap) => HandlesInvariant'
         /\ DescriptorReturned(t) => HandlesInvariant'
         /\ \A fd \in Known, type \in HandleType : FDToHandle(t, fd, type) => HandlesInvariant'
         /\ HandleReturned(t) => HandlesInvariant'
         /\ \A fd \in Known : CloseFd(t, fd) => HandlesInvariant'
         /\ FdClosed(t) => HandlesInvariant'
<1> DEFINE Same == UNCHANGED <<next, gGpuBufferHandleTable, owned>>
           Released == \A u \in Threads : call'[u] = call[u] \/ call'[u].kind \notin Kinds
<1>1. StubTypeOK
  BY DEF HandlesInvariant
<1>2. Same /\ Released /\ StubTypeOK' => HandlesInvariant'
  BY HandlesFrame
<1>3. UNCHANGED memVars => Same /\ Released
  BY DEF memVars
<1>4. ASSUME NEW o \in owned, NEW a \in MapAddresses, NEW size \in MapSizes,
             MapGpuBuffer(t, o, a, size)
      PROVE  HandlesInvariant'
  <2>1. Same /\ Released
    BY <1>4 DEF MapGpuBuffer
  <2> QED
    BY <2>1, <1>1, <1>2, <1>4, MapTypes
<1>5. ASSUME NEW p \in placed, UnmapGpuBuffer(t, p) PROVE HandlesInvariant'
  <2>1. Same /\ Released
    BY <1>5 DEF UnmapGpuBuffer
  <2> QED
    BY <2>1, <1>1, <1>2, <1>5, UnmapTypes
<1>6. ASSUME NEW o \in owned, HandleToFD(t, o) PROVE HandlesInvariant'
  <2>1. Same /\ Released
    BY <1>3, <1>6 DEF HandleToFD
  <2> QED
    BY <2>1, <1>1, <1>2, <1>6, ExportTypes
<1>7. ASSUME NEW cap \in Capabilities, GetCap(t, cap) PROVE HandlesInvariant'
  <2>1. Same /\ call' = [call EXCEPT ![t] = CapCall]
    BY <1>7 DEF GetCap
  <2>2. Released
    BY <2>1, <1>1, Numbers DEF StubTypeOK
  <2> QED
    BY <2>1, <2>2, <1>1, <1>2, <1>7, GetCapTypes
<1>8. ASSUME DescriptorReturned(t) PROVE HandlesInvariant'
  <2>1. Same /\ call' = [call EXCEPT ![t] = NoCall]
    BY <1>8 DEF DescriptorReturned
  <2>2. Released
    BY <2>1, <1>1, Numbers DEF StubTypeOK
  <2> QED
    BY <2>1, <2>2, <1>1, <1>2, <1>8, DescriptorTypes
<1>9. /\ \A fd \in Known, type \in HandleType : FDToHandle(t, fd, type) => Same /\ Released
      /\ HandleReturned(t) => Same /\ Released
      /\ \A fd \in Known : CloseFd(t, fd) => Same /\ Released
      /\ FdClosed(t) => Same /\ Released
  BY <1>3 DEF FDToHandle, HandleReturned, CloseFd, FdClosed
<1> HIDE DEF Same, Released
<1>10. /\ \A fd \in Known, type \in HandleType : FDToHandle(t, fd, type) => HandlesInvariant'
       /\ HandleReturned(t) => HandlesInvariant'
       /\ \A fd \in Known : CloseFd(t, fd) => HandlesInvariant'
       /\ FdClosed(t) => HandlesInvariant'
  BY <1>1, <1>2, <1>9, ImportTypes
<1> QED
  BY <1>4, <1>5, <1>6, <1>7, <1>8, <1>10

(* Every step keeps the numbers apart. *)
LEMMA HandlesNext ==
  ASSUME Serial
  PROVE  HandlesInvariant /\ [StubNext]_stubVars => HandlesInvariant'
<1> SUFFICES ASSUME HandlesInvariant, [StubNext]_stubVars PROVE HandlesInvariant'
  OBVIOUS
<1>1. CASE UNCHANGED stubVars
  <2>1. UNCHANGED memVars
    BY <1>1 DEF stubVars
  <2>2. StubTypeOK'
    BY StubNextTypes DEF HandlesInvariant
  <2> QED
    BY <2>1, <2>2, HandlesFrame DEF memVars
<1>2. CASE StubNext
  BY <1>2, HandlesTakeNumber, HandlesUseNumber, HandlesGiveUp, HandlesOther DEF StubNext
<1> QED
  BY <1>1, <1>2

(* Clients that number one thing at a time never get a number twice, and a *)
(* handle leads to the buffer created for it until the client closes it.   *)
THEOREM StubHandlesResolve ==
  ASSUME Serial
  PROVE  StubSpec => []HandlesResolve
<1>1. HandlesInvariant => HandlesResolve
  BY DEF HandlesInvariant
<1> QED
  BY <1>1, HandlesInit, HandlesNext, PTL DEF StubSpec

-----------------------------------------------------------------------------
(* StubBackend: mappings.  The table holds exactly what the clients have   *)
(* mapped, and no two of those ranges overlap.                             *)

MapsApart ==
    /\ \A p \in placed : gGpuBufferMappingTable[p.address] = [buffer |-> p.buffer, size |-> p.size]
    /\ \A a \in MapAddresses :
          gGpuBufferMappingTable[a] # NoBuffer => \E p \in placed : p.address = a
    /\ \A p, q \in placed : p # q => ~Overlaps(p.address, p.size, q)

MapsInvariant == HandlesInvariant /\ MapsApart

(* Nothing is mapped yet. *)
LEMMA MapsInit == StubInit => MapsInvariant
<1> SUFFICES ASSUME StubInit PROVE MapsApart
  BY HandlesInit DEF MapsInvariant
<1>1. placed = {} /\ \A a \in MapAddresses : gGpuBufferMappingTable[a] = NoBuffer
  BY DEF StubInit
<1> QED
  BY <1>1 DEF MapsApart

(* A new mapping overlaps none, so the entry of its address is free, and   *)
(* the handle it names leads to its buffer.                                *)
LEMMA MapsMap ==
  ASSUME Careful, MapsInvariant, NEW t \in Threads, NEW o \in owned, NEW a \in MapAddresses,
         NEW size \in MapSizes, MapGpuBuffer(t, o, a, size)
  PROVE  MapsApart'
<1>1. StubTypeOK /\ HandlesResolve /\ MapsApart
  BY DEF MapsInvariant, HandlesInvariant
<1> DEFINE b == [handle |-> o.number, by |-> o.by]
           n == [address |-> a, size |-> size, buffer |-> b]
           e == [buffer |-> b, size |-> size]
<1>2. b \in Buffers /\ b # NoBuffer
  BY <1>1, Numbers DEF StubTypeOK, Number, Buffers
<1>3. gGpuBufferHandleTable[o.number] = b
  BY <1>1 DEF MapGpuBuffer, HandlesResolve, ThisGpuBuffer
<1>4. /\ n.address = a /\ n.size = size /\ n.buffer = b
      /\ e = [buffer |-> n.buffer, size |-> n.size]
      /\ e \in GpuMapping
  BY <1>2 DEF GpuMapping
<1>6. /\ \A p \in placed : ~Overlaps(a, size, p)
      /\ gGpuBufferMappingTable' =
            [x \in MapAddresses |->
               IF x = a /\ b # NoBuffer /\ gGpuBufferMappingTable[x] = NoBuffer
               THEN e ELSE gGpuBufferMappingTable[x]]
      /\ placed' = placed \cup {n}
  BY <1>3 DEF MapGpuBuffer, ThisGpuBuffer
<1> HIDE DEF b, n, e
<1>7. \A p \in placed : p.address \in MapAddresses /\ p.address \in Nat /\ p.size \in Nat \ {0}
  BY <1>1, StubBackendAssumption DEF StubTypeOK, Placement
<1>8. a \in Nat /\ size \in Nat \ {0}
  BY StubBackendAssumption
<1>9. \A p \in placed : p.address # a
  BY <1>6, <1>7, <1>8 DEF Overlaps
<1>10. gGpuBufferMappingTable[a] = NoBuffer
  BY <1>1, <1>9 DEF MapsApart
<1>11. \A x \in MapAddresses : gGpuBufferMappingTable'[x] =
          IF x = a THEN e ELSE gGpuBufferMappingTable[x]
  BY <1>2, <1>6, <1>10
<1>12. \A p \in placed' :
          gGpuBufferMappingTable'[p.address] = [buffer |-> p.buffer, size |-> p.size]
  <2>1. \A p \in placed :
           gGpuBufferMappingTable'[p.address] = [buffer |-> p.buffer, size |-> p.size]
    BY <1>1, <1>7, <1>9, <1>11 DEF MapsApart
  <2>2. gGpuBufferMappingTable'[n.address] = [buffer |-> n.buffer, size |-> n.size]
    BY <1>4, <1>11
  <2> QED
    BY <2>1, <2>2, <1>6
<1>13. \A x \in MapAddresses :
          gGpuBufferMappingTable'[x] # NoBuffer => \E p \in placed' : p.address = x
  BY <1>1, <1>4, <1>6, <1>11 DEF MapsApart
<1>14. \A p, q \in placed' : p # q => ~Overlaps(p.address, p.size, q)
  <2>1. \A p \in placed : ~Overlaps(n.address, n.size, p) /\ ~Overlaps(p.address, p.size, n)
    BY <1>4, <1>6, <1>7, <1>8 DEF Overlaps
  <2>2. \A p, q \in placed : p # q => ~Overlaps(p.address, p.size, q)
    BY <1>1 DEF MapsApart
  <2> QED
    BY <2>1, <2>2, <1>6
<1> QED
  BY <1>12, <1>13, <1>14 DEF MapsApart

(* Unmapping by address takes the entry of that mapping and of no other.   *)
LEMMA MapsUnmap ==
  ASSUME MapsInvariant, NEW t \in Threads, NEW p \in placed, UnmapGpuBuffer(t, p)
  PROVE  MapsApart'
<1>1. StubTypeOK /\ MapsApart
  BY DEF MapsInvariant, HandlesInvariant
<1>2. /\ gGpuBufferMappingTable' = [gGpuBufferMappingTable EXCEPT ![p.address] = NoBuffer]
      /\ placed' = placed \ {p}
  BY DEF UnmapGpuBuffer
<1>3. \A q \in placed : q.address \in MapAddresses /\ q.address \in Nat /\ q.size \in Nat \ {0}
  BY <1>1, StubBackendAssumption DEF StubTypeOK, Placement
<1>4. \A a \in MapAddresses : gGpuBufferMappingTable'[a] =
         IF a = p.address THEN NoBuffer ELSE gGpuBufferMappingTable[a]
  BY <1>1, <1>2 DEF StubTypeOK
<1>5. \A q \in placed' : q \in placed /\ q.address # p.address
  <2> SUFFICES ASSUME NEW q \in placed, q # p PROVE q.address # p.address
    BY <1>2
  <2>1. ~Overlaps(p.address, p.size, q)
    BY <1>1 DEF MapsApart
  <2> QED
    BY <2>1, <1>3 DEF Overlaps
<1>6. \A q \in placed' :
         gGpuBufferMappingTable'[q.address] = [buffer |-> q.buffer, size |-> q.size]
  BY <1>1, <1>3, <1>4, <1>5 DEF MapsApart
<1>7. \A a \in MapAddresses :
         gGpuBufferMappingTable'[a] # NoBuffer => \E q \in placed' : q.address = a
  BY <1>1, <1>2, <1>4 DEF MapsApart
<1>8. \A q, r \in placed' : q # r => ~Overlaps(q.address, q.size, r)
  BY <1>1, <1>5 DEF MapsApart
<1> QED
  BY <1>6, <1>7, <1>8 DEF MapsApart

(* No other call maps anything. *)
LEMMA MapsOther ==
  ASSUME NEW t \in Threads
  PROVE  /\ \A kind \in Kinds : TakeNumber(t, kind) => UNCHANGED <<gGpuBufferMappingTable, placed>>
         /\ UseNumber(t) => UNCHANGED <<gGpuBufferMappingTable, placed>>
         /\ \A o \in owned : GiveUp(t, o) => UNCHANGED <<gGpuBufferMappingTable, placed>>
         /\ \A o \in owned : HandleToFD(t, o) => UNCHANGED <<gGpuBufferMappingTable, placed>>
         /\ \A cap \in Capabilities : GetCap(t, cap) => UNCHANGED <<gGpuBufferMappingTable, placed>>
         /\ DescriptorReturned(t) => UNCHANGED <<gGpuBufferMappingTable, placed>>
         /\ \A fd \in Known, type \in HandleType :
               FDToHandle(t, fd, type) => UNCHANGED <<gGpuBufferMappingTable, placed>>
         /\ HandleReturned(t) => UNCHANGED <<gGpuBufferMappingTable, placed>>
         /\ \A fd \in Known : CloseFd(t, fd) => UNCHANGED <<gGpuBufferMappingTable, placed>>
         /\ FdClosed(t) => UNCHANGED <<gGpuBufferMappingTable, placed>>
<1>1. UNCHANGED memVars => UNCHANGED <<gGpuBufferMappingTable, placed>>
  BY DEF memVars
<1>2. /\ \A kind \in Kinds : TakeNumber(t, kind) => UNCHANGED <<gGpuBufferMappingTable, placed>>
      /\ \A o \in owned : GiveUp(t, o) => UNCHANGED <<gGpuBufferMappingTable, placed>>
      /\ \A cap \in Capabilities : GetCap(t, cap) => UNCHANGED <<gGpuBufferMappingTable, placed>>
      /\ DescriptorReturned(t) => UNCHANGED <<gGpuBufferMappingTable, placed>>
  BY DEF TakeNumber, GiveUp, GetCap, DescriptorReturned
<1>3. UseNumber(t) => UNCHANGED <<gGpuBufferMappingTable, placed>>
  BY DEF UseNumber
<1>4. /\ \A o \in owned : HandleToFD(t, o) => UNCHANGED memVars
      /\ \A fd \in Known, type \in HandleType : FDToHandle(t, fd, type) => UNCHANGED memVars
      /\ HandleReturned(t) => UNCHANGED memVars
      /\ \A fd \in Known : CloseFd(t, fd) => UNCHANGED memVars
      /\ FdClosed(t) => UNCHANGED memVars
  BY DEF HandleToFD, FDToHandle, HandleReturned, CloseFd, FdClosed
<1> QED
  BY <1>1, <1>2, <1>3, <1>4

(* Every step keeps the table and the clients' mappings together. *)
LEMMA MapsNext ==
  ASSUME Serial, Careful
  PROVE  MapsInvariant /\ [StubNext]_stubVars => MapsInvariant'
<1> SUFFICES ASSUME MapsInvariant, [StubNext]_stubVars PROVE MapsApart'
  BY HandlesNext DEF MapsInvariant
<1>1. UNCHANGED <<gGpuBufferMappingTable, placed>> => MapsApart'
  BY DEF MapsInvariant, MapsApart
<1>2. CASE UNCHANGED stubVars
  <2>1. UNCHANGED memVars
    BY <1>2 DEF stubVars
  <2> QED
    BY <2>1, <1>1 DEF memVars
<1>3. CASE StubNext
  BY <1>1, <1>3, MapsMap, MapsUnmap, MapsOther DEF StubNext
<1> QED
  BY <1>2, <1>3

(* The search for the mapping that reaches an address: the last entry that *)
(* begins at or below it is there, since some mapping begins there; a      *)
(* mapping over the address is that entry, since what begins between the   *)
(* two would overlap it.                                                   *)
LEMMA SearchFinds ==
  ASSUME StubTypeOK, MapsApart, NEW a \in Nat, NEW p \in placed, p.address <= a
  PROVE  \E q \in placed :
            /\ ThisMappedGpuBuffer(a) = IF a < q.address + q.size THEN q.buffer ELSE NoBuffer
            /\ \A r \in placed : Overlaps(a, 1, r) => r = q
            /\ Overlaps(a, 1, q) <=> a < q.address + q.size
<1> DEFINE below == {b \in MapAddresses : b <= a /\ gGpuBufferMappingTable[b] # NoBuffer}
           m == Max(below)
<1>1. \A q \in placed :
         /\ q.address \in MapAddresses /\ q.address \in Nat /\ q.size \in Nat \ {0}
         /\ [buffer |-> q.buffer, size |-> q.size] \in GpuMapping
  BY StubBackendAssumption DEF StubTypeOK, Placement, GpuMapping
<1>2. \A q \in placed : gGpuBufferMappingTable[q.address] # NoBuffer
  <2> SUFFICES ASSUME NEW q \in placed PROVE gGpuBufferMappingTable[q.address] # NoBuffer
    OBVIOUS
  <2>1. gGpuBufferMappingTable[q.address] = [buffer |-> q.buffer, size |-> q.size]
    BY DEF MapsApart
  <2> QED
    BY <2>1, <1>1, Numbers
<1>3. m \in below /\ \A b \in below : m >= b
  <2>1. p.address \in below
    BY <1>1, <1>2
  <2>2. below \subseteq Nat /\ \A b \in below : b <= a
    BY StubBackendAssumption
  <2> HIDE DEF below
  <2>3. \E x \in below : \A y \in below : x >= y
    BY <2>1, <2>2, GreatestNumber
  <2> QED
    BY <2>3 DEF Max
<1>4. PICK q \in placed : q.address = m
  BY <1>3 DEF MapsApart
<1>5. m \in Nat /\ m <= a
  BY <1>1, <1>3, <1>4
<1>6. gGpuBufferMappingTable[m] = [buffer |-> q.buffer, size |-> q.size]
  BY <1>4 DEF MapsApart
<1>7. ThisMappedGpuBuffer(a) = IF a < q.address + q.size THEN q.buffer ELSE NoBuffer
  BY <1>4, <1>6 DEF ThisMappedGpuBuffer
<1>8. Overlaps(a, 1, q) <=> a < q.address + q.size
  BY <1>1, <1>4, <1>5 DEF Overlaps
<1>9. ASSUME NEW r \in placed, Overlaps(a, 1, r) PROVE r = q
  <2>0. /\ r.address \in Nat /\ r.size \in Nat \ {0}
        /\ q.address \in Nat /\ q.size \in Nat \ {0}
    BY <1>1
  <2>1. r.address <= a /\ a < r.address + r.size
    BY <2>0, <1>9 DEF Overlaps
  <2>2. r.address \in below
    BY <2>1, <1>1, <1>2
  <2>3. r.address <= q.address /\ q.address <= a
    BY <2>2, <1>1, <1>3, <1>4, <1>5
  <2>4. r # q => ~Overlaps(r.address, r.size, q)
    BY DEF MapsApart
  <2>5. Overlaps(r.address, r.size, q)
    BY <2>0, <2>1, <2>3 DEF Overlaps
  <2> QED
    BY <2>4, <2>5
<1> QED
  BY <1>7, <1>8, <1>9

(* The addresses that MapsResolve speaks of are numbers. *)
LEMMA AddressesNumbers ==
  ASSUME NEW p \in Placement
  PROVE  Min(MapAddresses) .. Max(MapAddresses) + Max(MapSizes) \subseteq Nat
<1>1. /\ MapAddresses \subseteq Nat /\ IsFiniteSet(MapAddresses) /\ MapAddresses # {}
      /\ MapSizes \subseteq Nat /\ IsFiniteSet(MapSizes) /\ MapSizes # {}
  BY StubBackendAssumption DEF Placement
<1>2. \E x \in MapAddresses : \A y \in MapAddresses : x <= y
  BY <1>1, LeastNumber
<1>3. Min(MapAddresses) \in Nat
  BY <1>1, <1>2 DEF Min
<1>4. PICK b \in Nat : \A x \in MapAddresses : x <= b
  BY <1>1, FiniteBounded
<1>5. \E x \in MapAddresses : \A y \in MapAddresses : x >= y
  BY <1>1, <1>4, GreatestNumber
<1>6. Max(MapAddresses) \in Nat
  BY <1>1, <1>5 DEF Max
<1>7. PICK c \in Nat : \A x \in MapSizes : x <= c
  BY <1>1, FiniteBounded
<1>8. \E x \in MapSizes : \A y \in MapSizes : x >= y
  BY <1>1, <1>7, GreatestNumber
<1>9. Max(MapSizes) \in Nat
  BY <1>1, <1>8 DEF Max
<1> QED
  BY <1>3, <1>6, <1>9

(* Careful clients that number one thing at a time find, at every address, *)
(* the buffer one of them mapped over it, or none.                         *)
THEOREM StubMapsResolve ==
  ASSUME Serial, Careful
  PROVE  StubSpec => []MapsResolve
<1>1. ASSUME MapsInvariant PROVE MapsResolve
  <2>1. StubTypeOK /\ MapsApart
    BY <1>1 DEF MapsInvariant, HandlesInvariant
  <2> SUFFICES ASSUME NEW a \in Min(MapAddresses) .. Max(MapAddresses) + Max(MapSizes),
                      NEW p \in placed, p.address <= a
               PROVE  LET over == {r \in placed : Overlaps(a, 1, r)}
                      IN  IF over = {} THEN ThisMappedGpuBuffer(a) = NoBuffer
                          ELSE \A r \in over : ThisMappedGpuBuffer(a) = r.buffer
    BY DEF MapsResolve
  <2>2. p \in Placement
    BY <2>1 DEF StubTypeOK
  <2>3. a \in Nat
    BY <2>2, AddressesNumbers
  <2>4. PICK q \in placed :
           /\ ThisMappedGpuBuffer(a) = IF a < q.address + q.size THEN q.buffer ELSE NoBuffer
           /\ \A r \in placed : Overlaps(a, 1, r) => r = q
           /\ Overlaps(a, 1, q) <=> a < q.address + q.size
    BY <2>1, <2>3, SearchFinds
  <2> QED
    BY <2>4
<1> QED
  BY <1>1, MapsInit, MapsNext, PTL DEF StubSpec
=============================================================================
