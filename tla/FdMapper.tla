------------------------------ MODULE FdMapper ------------------------------
(***************************************************************************)
(* The descriptor table of the stub backend (stub/fdMapper.cpp).           *)
(*                                                                         *)
(* The stub hands a buffer or a syncobj to another component as a file     *)
(* descriptor: an export opens /dev/null and enters the new number in      *)
(* sFdMap, an import looks the number up and removes the entry.  The       *)
(* descriptor is opened before sFdMapLock is taken and closed while it is  *)
(* held, so the number of a descriptor that one thread is closing may      *)
(* already belong to another thread that is exporting.                     *)
(*                                                                         *)
(* Clients are the threads of the process.  A client that Careful closes a *)
(* descriptor with drmFdClose, and with close only when drmFdClose does    *)
(* not know it (an import has removed the entry); the others may call      *)
(* close at once, which leaves the entry behind.                           *)
(***************************************************************************)
EXTENDS Naturals

CONSTANTS
    Threads,      \* threads of the process
    Fds,          \* descriptor numbers open may return
    NoFd,         \* -1, what open returns when there is none left
    Handles,      \* gem and syncobj handles
    NoEntry,      \* no entry, no descriptor
    NoThread,     \* sFdMapLock is free
    Garbage,      \* handles that the memory of a freed entry may read as
    Careful       \* clients close descriptors with drmFdClose

ASSUME FdMapperAssumption ==
    /\ NoFd \notin Fds /\ NoThread \notin Threads
    /\ Garbage \subseteq Handles /\ Careful \in BOOLEAN

HandleType == {"gem", "syncobj"}

FdMapEntry == [type : HandleType, handle : Handles]

ASSUME NoEntryAssumption == NoEntry \notin FdMapEntry

VARIABLES
    sFdMap,       \* the table, by descriptor number (or NoFd)
    sFdMapLock,   \* its mutex: the thread that holds it, or NoThread
    openFds,      \* descriptors open in the process
    pc,           \* where each thread is
    arg,          \* the descriptor and the entry of a thread inside a call
    exported,     \* what the client exported as each descriptor it still holds
    spent         \* descriptors an import has consumed

fdVars == <<sFdMap, sFdMapLock, openFds, pc, arg, exported, spent>>

MapKeys == Fds \cup {NoFd}

NoArg == [fd |-> NoFd, entry |-> NoEntry]

FdInit ==
    /\ sFdMap = [fd \in MapKeys |-> NoEntry]
    /\ sFdMapLock = NoThread
    /\ openFds = {}
    /\ pc = [t \in Threads |-> "idle"]
    /\ arg = [t \in Threads |-> NoArg]
    /\ exported = [fd \in Fds |-> NoEntry]
    /\ spent = {}

(* Descriptors that name something to a client: the export has returned    *)
(* and nobody has begun to close them.                                     *)
Held == {fd \in Fds : exported[fd] # NoEntry}

-----------------------------------------------------------------------------
(* open("/dev/null"), outside the lock.  The result is not tested: with no *)
(* descriptor left the export goes on with -1.                             *)
OpenDevNull(t, entry) ==
    /\ pc[t] = "idle"
    /\ \E fd \in IF openFds = Fds THEN {NoFd} ELSE Fds \ openFds :
          /\ openFds' = openFds \cup ({fd} \ {NoFd})
          /\ arg' = [arg EXCEPT ![t] = [fd |-> fd, entry |-> entry]]
    /\ pc' = [pc EXCEPT ![t] = "opened"]
    /\ UNCHANGED <<sFdMap, sFdMapLock, exported, spent>>

(* std::map::emplace: an entry that is already there stays. *)
Emplaced(map, fd, entry) ==
    IF map[fd] = NoEntry THEN [map EXCEPT ![fd] = entry] ELSE map

drmFdMapHandle(t) ==
    /\ pc[t] = "opened" /\ sFdMapLock = NoThread
    /\ LET fd == arg[t].fd
           entry == arg[t].entry
       IN  /\ sFdMap' = Emplaced(sFdMap, fd, entry)
           /\ exported' = [f \in Fds |-> IF f = fd THEN entry ELSE exported[f]]
           /\ spent' = spent \ {fd}
    /\ arg' = [arg EXCEPT ![t] = NoArg]
    /\ pc' = [pc EXCEPT ![t] = "idle"]
    /\ UNCHANGED <<sFdMapLock, openFds>>

(* A bug: no test of the type. *)
drmFdUnmapAnyHandle(t, type, fd) ==
    /\ pc[t] = "idle" /\ sFdMapLock = NoThread
    /\ IF sFdMap[fd] = NoEntry
       THEN UNCHANGED <<sFdMap, spent, arg, pc>>
       ELSE /\ sFdMap' = [sFdMap EXCEPT ![fd] = NoEntry]
            /\ spent' = spent \cup {fd}
            /\ arg' = [arg EXCEPT ![t] =
                          [fd |-> fd, entry |-> [sFdMap[fd] EXCEPT !.type = type]]]
            /\ pc' = [pc EXCEPT ![t] = "imported"]
    /\ UNCHANGED <<sFdMapLock, openFds, exported>>

(* The import of a held descriptor as a handle of the wanted type.  The    *)
(* handle is read through a reference to the entry that erase has freed:   *)
(* it is the exported one or any of Garbage.  The descriptor itself stays  *)
(* open: the client closes it.                                             *)
drmFdUnmapHandle(t, type, fd) ==
    /\ pc[t] = "idle" /\ sFdMapLock = NoThread
    /\ IF sFdMap[fd] = NoEntry \/ sFdMap[fd].type # type
       THEN UNCHANGED <<sFdMap, spent, arg, pc>>
       ELSE /\ sFdMap' = [sFdMap EXCEPT ![fd] = NoEntry]
            /\ spent' = spent \cup {fd}
            /\ \E handle \in {sFdMap[fd].handle} \cup Garbage :
                  arg' = [arg EXCEPT ![t] =
                             [fd |-> fd, entry |-> [type |-> type, handle |-> handle]]]
            /\ pc' = [pc EXCEPT ![t] = "imported"]
    /\ UNCHANGED <<sFdMapLock, openFds, exported>>

(* The import returns the handle. *)
ImportReturns(t) ==
    /\ pc[t] = "imported"
    /\ arg' = [arg EXCEPT ![t] = NoArg]
    /\ pc' = [pc EXCEPT ![t] = "idle"]
    /\ UNCHANGED <<sFdMap, sFdMapLock, openFds, exported, spent>>

(* A bug: the lock is given up before close. *)
drmFdCloseUnlocked(t, fd) ==
    /\ pc[t] = "idle" /\ sFdMapLock = NoThread
    /\ openFds' = openFds \ {fd}
    /\ exported' = [exported EXCEPT ![fd] = NoEntry]
    /\ spent' = spent \ {fd}
    /\ IF sFdMap[fd] # NoEntry
       THEN /\ pc' = [pc EXCEPT ![t] = "closing"]
            /\ arg' = [arg EXCEPT ![t] = [fd |-> fd, entry |-> NoEntry]]
       ELSE UNCHANGED <<pc, arg>>
    /\ UNCHANGED <<sFdMap, sFdMapLock>>

(* drmFdClose: the table is searched under the lock, which is kept over    *)
(* close and erase.  On ENOENT the client closes the descriptor itself; a  *)
(* client that is not Careful does that at once, without asking the stub.  *)
drmFdClose(t, fd) ==
    /\ pc[t] = "idle" /\ (Careful => sFdMapLock = NoThread)
    /\ openFds' = openFds \ {fd}
    /\ exported' = [exported EXCEPT ![fd] = NoEntry]
    /\ spent' = spent \ {fd}
    /\ IF Careful /\ sFdMap[fd] # NoEntry
       THEN /\ sFdMapLock' = t
            /\ pc' = [pc EXCEPT ![t] = "closing"]
            /\ arg' = [arg EXCEPT ![t] = [fd |-> fd, entry |-> NoEntry]]
       ELSE UNCHANGED <<sFdMapLock, pc, arg>>
    /\ UNCHANGED sFdMap

(* A bug: no erase. *)
EraseClosedNothing(t) ==
    /\ pc[t] = "closing"
    /\ sFdMapLock' = NoThread
    /\ pc' = [pc EXCEPT ![t] = "idle"]
    /\ arg' = [arg EXCEPT ![t] = NoArg]
    /\ UNCHANGED <<sFdMap, openFds, exported, spent>>

EraseClosed(t) ==
    /\ pc[t] = "closing"
    /\ sFdMap' = [sFdMap EXCEPT ![arg[t].fd] = NoEntry]
    /\ sFdMapLock' = NoThread
    /\ pc' = [pc EXCEPT ![t] = "idle"]
    /\ arg' = [arg EXCEPT ![t] = NoArg]
    /\ UNCHANGED <<openFds, exported, spent>>

FdNext ==
    \E t \in Threads :
        \/ \E entry \in FdMapEntry : OpenDevNull(t, entry)
        \/ drmFdMapHandle(t)
        \/ \E fd \in Held, type \in HandleType : drmFdUnmapHandle(t, type, fd)
        \/ ImportReturns(t)
        \/ \E fd \in Held : drmFdClose(t, fd)
        \/ EraseClosed(t)

FdSpec == FdInit /\ [][FdNext]_fdVars

-----------------------------------------------------------------------------
FdTypeOK ==
    /\ sFdMap \in [MapKeys -> FdMapEntry \cup {NoEntry}]
    /\ sFdMapLock \in Threads \cup {NoThread}
    /\ openFds \in SUBSET Fds
    /\ pc \in [Threads -> {"idle", "opened", "imported", "closing"}]
    /\ arg \in [Threads -> [fd : MapKeys, entry : FdMapEntry \cup {NoEntry}]]
    /\ exported \in [Fds -> FdMapEntry \cup {NoEntry}]
    /\ spent \in SUBSET Fds

Closing(fd) == \E t \in Threads : pc[t] = "closing" /\ arg[t].fd = fd

Opening(fd) == \E t \in Threads : pc[t] = "opened" /\ arg[t].fd = fd

(* Neither side leaks: a descriptor is open exactly while a client holds   *)
(* it or an export is about to return it, and an entry outlives its        *)
(* descriptor only inside drmFdClose.                                      *)
FdsAccounted ==
    /\ \A fd \in Fds : fd \in openFds <=> exported[fd] # NoEntry \/ Opening(fd)
    /\ \A fd \in Fds : sFdMap[fd] # NoEntry => fd \in openFds \/ Closing(fd)

(* Whatever other threads export and close meanwhile, an exported          *)
(* descriptor that was not imported yet has its own entry: the reuse of a  *)
(* number never loses an entry nor revives that of an earlier export.      *)
ExportedImportable ==
    \A fd \in Fds :
        /\ exported[fd] # NoEntry =>
              sFdMap[fd] = IF fd \in spent THEN NoEntry ELSE exported[fd]
        /\ exported[fd] = NoEntry /\ ~Closing(fd) => sFdMap[fd] = NoEntry

(* An import consumes the entry of its own export: one of its own kind,    *)
(* that no import has consumed before and that no reuse of the number has  *)
(* put there; it is gone afterwards.  Which handle the import then reads   *)
(* through the freed entry (fdMapper.cpp:57) is not said: any of Garbage.  *)
ImportTakesOwnEntry ==
    [][\A t \in Threads :
          pc[t] # "imported" /\ pc'[t] = "imported" =>
             LET fd == arg'[t].fd
             IN  /\ fd \notin spent /\ sFdMap[fd] = exported[fd]
                 /\ exported[fd].type = arg'[t].entry.type
                 /\ sFdMap'[fd] = NoEntry]_fdVars
=============================================================================
