------------------------------- MODULE CsSync -------------------------------
(***************************************************************************)
(* Waiting for fences, and sync files of timeline points (amdgpu_cs.c).    *)
(*                                                                         *)
(* The driver behind the accelerant knows binary payloads of syncobjs only *)
(* as sync files, so a point of a timeline goes through a temporary        *)
(* syncobj: it is created, the fence passes through it, and it is          *)
(* destroyed on every path.  Syncobjs, their points, sync files and the    *)
(* wait itself are the driver's; it may fail at any call and gives the     *)
(* number of a destroyed syncobj to the next one created, temporary or     *)
(* not.                                                                    *)
(***************************************************************************)
EXTENDS Naturals, FiniteSets

CONSTANTS
    Threads,    \* threads of the process
    Syncobjs,   \* syncobj numbers of the driver
    MaxHeld,    \* bound: syncobjs the clients hold at a time
    MaxPoint,   \* bound: points of a timeline
    Fences, NoFence,
    SyncFiles,      \* descriptors of sync files
    WordMod,    \* 2^64
    Timeouts    \* timeouts clients pass, in units of the clock

AMDGPU_TIMEOUT_INFINITE == WordMod - 1

ASSUME CsSyncAssumption ==
    /\ NoFence \notin Fences /\ Syncobjs \subseteq Nat \ {0}
    /\ MaxHeld \in Nat /\ MaxPoint \in Nat \ {0} /\ WordMod \in Nat \ {0}
    /\ Timeouts \subseteq 0..AMDGPU_TIMEOUT_INFINITE

VARIABLES
    live,     \* syncobjs of the driver
    points,   \* the fences of each; point 0 is the binary payload
    files,    \* the fence of each open sync file
    held,     \* syncobjs clients have created
    csPc,     \* where each thread is
    args,     \* arguments and locals of its call
    now       \* CLOCK_MONOTONIC

csVars == <<live, points, files, held, csPc, args, now>>

Points == 0..MaxPoint

Unset == [p \in Points |-> NoFence]

NoArgs == [op |-> "none"]

CsInit ==
    /\ live = {}
    /\ points = [s \in Syncobjs |-> Unset]
    /\ files = [f \in SyncFiles |-> NoFence]
    /\ held = {}
    /\ csPc = [t \in Threads |-> "idle"]
    /\ args = [t \in Threads |-> NoArgs]
    /\ now = 0

Go(t, label) == csPc' = [csPc EXCEPT ![t] = label]

(* A syncobj, or a sync file, that a running call was given.               *)
Used(s) == \E t \in Threads : args[t].op \in {"export", "import"} /\ args[t].syncobj = s

FileUsed(f) == \E t \in Threads : args[t].op \in {"export", "import"} /\ args[t].file = f

-----------------------------------------------------------------------------
(* What clients do with syncobjs in one call of the driver. *)

(* amdgpu_cs_create_syncobj, amdgpu_cs_create_syncobj2. *)
CreateSyncobj(t) ==
    /\ csPc[t] = "idle" /\ Cardinality(held) < MaxHeld
    /\ \E s \in Syncobjs \ live :
          /\ live' = live \cup {s}
          /\ held' = held \cup {s}
          /\ points' = [points EXCEPT ![s] = Unset]
    /\ UNCHANGED <<files, csPc, args, now>>

(* amdgpu_cs_destroy_syncobj: no call of another thread uses it.           *)
DestroySyncobj(t, s) ==
    /\ csPc[t] = "idle" /\ s \in held /\ ~Used(s)
    /\ live' = live \ {s}
    /\ held' = held \ {s}
    /\ points' = [points EXCEPT ![s] = Unset]
    /\ UNCHANGED <<files, csPc, args, now>>

(* A submission, a transfer or a signal puts a fence at a point.  A point  *)
(* of a timeline is set once; the binary payload is replaced.              *)
SetPoint(t, s, p, f) ==
    /\ csPc[t] = "idle" /\ s \in held
    /\ p = 0 \/ points[s][p] = NoFence
    /\ points' = [points EXCEPT ![s][p] = f]
    /\ UNCHANGED <<live, files, held, csPc, args, now>>

(* amdgpu_cs_syncobj_reset. *)
ResetSyncobj(t, s) ==
    /\ csPc[t] = "idle" /\ s \in held /\ ~Used(s)
    /\ points' = [points EXCEPT ![s] = Unset]
    /\ UNCHANGED <<live, files, held, csPc, args, now>>

CloseFile(t, f) ==
    /\ csPc[t] = "idle" /\ files[f] # NoFence /\ ~FileUsed(f)
    /\ files' = [files EXCEPT ![f] = NoFence]
    /\ UNCHANGED <<live, points, held, csPc, args, now>>

-----------------------------------------------------------------------------
(* amdgpu_cs_syncobj_export_sync_file2(s, p) into a new descriptor, and    *)
(* amdgpu_cs_syncobj_import_sync_file2(s, p, f). *)

(* DrmSyncobjExportSyncFile, which needs a fence and a free descriptor.    *)
ExportFile(s, f) == points[s][0] # NoFence /\ files[f] = NoFence

(* Without a point the driver does the whole.                              *)
FileCall(t, op, s, f) ==
    /\ csPc[t] = "idle" /\ s \in held
    /\ IF op = "export"
       THEN /\ ExportFile(s, f) /\ ~FileUsed(f)
            /\ files' = [files EXCEPT ![f] = points[s][0]]
            /\ UNCHANGED points
       ELSE /\ files[f] # NoFence
            /\ points' = [points EXCEPT ![s][0] = files[f]]
            /\ UNCHANGED files
    /\ UNCHANGED <<live, held, csPc, args, now>>

(* With a point the temporary syncobj is created, or the call fails.       *)
PointCall(t, op, s, p, f) ==
    /\ csPc[t] = "idle" /\ s \in held /\ p > 0 /\ ~FileUsed(f)
    /\ (files[f] = NoFence) = (op = "export")
    /\ \E binary \in Syncobjs \ live :
          /\ live' = live \cup {binary}
          /\ points' = [points EXCEPT ![binary] = Unset]
          /\ args' = [args EXCEPT ![t] =
                        [op |-> op, syncobj |-> s, point |-> p, file |-> f,
                         binary |-> binary, ok |-> FALSE]]
    /\ Go(t, "created")
    /\ UNCHANGED <<files, held, now>>

(* A bug: the call returns without going to out. *)
FillBinaryReturns(t) ==
    LET a == args[t]
        fence == IF a.op = "export" THEN points[a.syncobj][a.point] ELSE files[a.file]
    IN  /\ csPc[t] = "created"
        /\ \E ok \in {FALSE, fence # NoFence} :
              IF ok THEN points' = [points EXCEPT ![a.binary][0] = fence] /\ Go(t, "filled")
                    ELSE Go(t, "done") /\ UNCHANGED points
        /\ UNCHANGED <<live, files, held, args, now>>

(* DrmSyncobjTransfer(binary, 0, s, p), or DrmSyncobjImportSyncFile(binary,*)
(* f): the fence goes into the temporary syncobj, or the call goes to out. *)
FillBinary(t) ==
    LET a == args[t]
        fence == IF a.op = "export" THEN points[a.syncobj][a.point] ELSE files[a.file]
    IN  /\ csPc[t] = "created"
        /\ \E ok \in {FALSE, fence # NoFence} :
              IF ok THEN /\ points' = [points EXCEPT ![a.binary][0] = fence]
                         /\ Go(t, "filled")
                    ELSE Go(t, "out") /\ UNCHANGED points
        /\ UNCHANGED <<live, files, held, args, now>>

(* A bug: the sync file is made of the binary payload of the timeline.     *)
EmptyBinaryOfSyncobj(t) ==
    LET a == args[t] IN
    /\ csPc[t] = "filled" /\ a.op = "export"
    /\ IF ExportFile(a.syncobj, a.file)
       THEN /\ files' = [files EXCEPT ![a.file] = points[a.syncobj][0]]
            /\ args' = [args EXCEPT ![t].ok = TRUE]
       ELSE UNCHANGED <<files, args>>
    /\ Go(t, "out")
    /\ UNCHANGED <<live, points, held, now>>

(* DrmSyncobjExportSyncFile(binary), or DrmSyncobjTransfer(s, p, binary,   *)
(* 0): the fence leaves it.                                                *)
EmptyBinary(t) ==
    LET a == args[t]
        possible == IF a.op = "export" THEN ExportFile(a.binary, a.file)
                    ELSE points[a.syncobj][a.point] = NoFence
    IN  /\ csPc[t] = "filled"
        /\ \E ok \in {FALSE, possible} :
              /\ IF ok /\ a.op = "export"
                 THEN files' = [files EXCEPT ![a.file] = points[a.binary][0]]
                 ELSE UNCHANGED files
              /\ IF ok /\ a.op = "import"
                 THEN points' = [points EXCEPT ![a.syncobj][a.point] = points[a.binary][0]]
                 ELSE UNCHANGED points
              /\ args' = [args EXCEPT ![t].ok = ok]
        /\ Go(t, "out")
        /\ UNCHANGED <<live, held, now>>

(* out: DrmSyncobjDestroy(binary).                                         *)
DestroyBinary(t) ==
    /\ csPc[t] = "out"
    /\ live' = live \ {args[t].binary}
    /\ points' = [points EXCEPT ![args[t].binary] = Unset]
    /\ Go(t, "done")
    /\ UNCHANGED <<files, held, args, now>>

CallReturns(t) ==
    /\ csPc[t] \in {"done", "busy"}
    /\ args' = [args EXCEPT ![t] = NoArgs]
    /\ Go(t, "idle")
    /\ UNCHANGED <<live, points, files, held, now>>

-----------------------------------------------------------------------------
(* A bug: the sum is compared the wrong way round. *)
CalculateTimeoutSwapped(timeout, clock) ==
    LET sum == (timeout + clock) % WordMod
    IN  IF timeout = AMDGPU_TIMEOUT_INFINITE \/ sum > clock
        THEN AMDGPU_TIMEOUT_INFINITE ELSE sum

(* A bug: the wrap is not noticed. *)
CalculateTimeoutWraps(timeout, clock) ==
    IF timeout = AMDGPU_TIMEOUT_INFINITE THEN timeout ELSE (timeout + clock) % WordMod

(* amdgpu_cs_calculate_timeout: the sum wraps to below the current time.   *)
CalculateTimeout(timeout, clock) ==
    LET sum == (timeout + clock) % WordMod
    IN  IF timeout = AMDGPU_TIMEOUT_INFINITE \/ sum < clock
        THEN AMDGPU_TIMEOUT_INFINITE ELSE sum

(* amdgpu_cs_query_fence_status of a fence that was submitted.  A relative *)
(* timeout counts from now, or for ever when the clock fails; an absolute  *)
(* one is the deadline.                                                    *)
Wait(timeout, since, finite, deadline) ==
    [op |-> "wait", timeout |-> timeout, since |-> since, finite |-> finite,
     deadline |-> deadline]

QueryFenceStatus(t, timeout, absolute) ==
    /\ csPc[t] = "idle"
    /\ \E clockFails \in BOOLEAN :
          args' = [args EXCEPT ![t] =
             IF absolute THEN Wait(0, 0, FALSE, timeout)
             ELSE IF clockFails THEN Wait(0, 0, FALSE, AMDGPU_TIMEOUT_INFINITE)
             ELSE Wait(timeout, now, TRUE, CalculateTimeout(timeout, now))]
    /\ Go(t, "waiting")
    /\ UNCHANGED <<live, points, files, held, now>>

Due(t) == args[t].deadline # AMDGPU_TIMEOUT_INFINITE /\ now >= args[t].deadline

(* AmdgpuWaitCs returns when the fence signals, or busy when the time has  *)
(* come. *)
WaitSignalled(t) ==
    /\ csPc[t] = "waiting"
    /\ args' = [args EXCEPT ![t] = NoArgs]
    /\ Go(t, "idle")
    /\ UNCHANGED <<live, points, files, held, now>>

WaitTimesOut(t) ==
    /\ csPc[t] = "waiting" /\ Due(t)
    /\ Go(t, "busy")
    /\ UNCHANGED <<live, points, files, held, args, now>>

Tick ==
    /\ now < AMDGPU_TIMEOUT_INFINITE
    /\ now' = now + 1
    /\ UNCHANGED <<live, points, files, held, csPc, args>>

-----------------------------------------------------------------------------
CsThread(t) ==
    \/ CreateSyncobj(t)
    \/ \E s \in Syncobjs : DestroySyncobj(t, s)
    \/ \E s \in Syncobjs, p \in Points, f \in Fences : SetPoint(t, s, p, f)
    \/ \E s \in Syncobjs : ResetSyncobj(t, s)
    \/ \E f \in SyncFiles : CloseFile(t, f)
    \/ \E op \in {"export", "import"}, s \in Syncobjs, f \in SyncFiles : FileCall(t, op, s, f)
    \/ \E op \in {"export", "import"}, s \in Syncobjs, p \in Points, f \in SyncFiles :
          PointCall(t, op, s, p, f)
    \/ FillBinary(t)
    \/ EmptyBinary(t)
    \/ DestroyBinary(t)
    \/ CallReturns(t)
    \/ \E timeout \in Timeouts, absolute \in BOOLEAN : QueryFenceStatus(t, timeout, absolute)
    \/ WaitSignalled(t)
    \/ WaitTimesOut(t)

CsNext == Tick \/ \E t \in Threads : CsThread(t)

-----------------------------------------------------------------------------
(* The driver holds the syncobjs of the clients and one temporary syncobj  *)
(* for each call that is between its creation and its destruction, and no  *)
(* two of them are the same: no path leaks a temporary syncobj, destroys   *)
(* it twice or destroys one that another thread was given meanwhile.       *)
Temporaries == {t \in Threads : csPc[t] \in {"created", "filled", "out"}}

TemporariesAccounted ==
    /\ live = held \cup {args[t].binary : t \in Temporaries}
    /\ \A t \in Temporaries :
          /\ args[t].binary \notin held
          /\ \A u \in Temporaries : u # t => args[u].binary # args[t].binary

(* A call that succeeded has made the sync file and the point hold the     *)
(* same fence, whatever other threads did to the binary payload meanwhile. *)
FilesFaithful ==
    \A t \in Threads :
       csPc[t] = "done" /\ args[t].ok =>
          /\ files[args[t].file] # NoFence
          /\ files[args[t].file] = points[args[t].syncobj][args[t].point]

(* A wait that comes back busy has lasted as long as its caller asked: no  *)
(* overflow of the deadline cuts a long wait short, and one without end or *)
(* with an end beyond the clock never times out.                           *)
TimesOutInTime ==
    \A t \in Threads :
       csPc[t] = "busy" /\ args[t].finite =>
          now >= args[t].since + args[t].timeout

(* A wait with a timeout that the clock can reach ends, although the fence *)
(* may never signal.                                                       *)
WaitEnds ==
    \A t \in Threads :
       (/\ csPc[t] = "waiting" /\ args[t].finite
        /\ args[t].timeout + args[t].since < AMDGPU_TIMEOUT_INFINITE)
       ~> csPc[t] # "waiting"
=============================================================================
