---------------------------- MODULE SessionProofs ----------------------------
(***************************************************************************)
(* Theorems about Session, for any number of threads, syncobjs, sync       *)
(* files, directory entries and lines: what a step of the session is to    *)
(* each of its parts, and for each part the invariant its property needs.  *)
(***************************************************************************)
EXTENDS Session, Counting, TLAPS

(* A step of the session is a step of one part, and leaves the others      *)
(* alone: an invariant of a part is an invariant of the session.           *)
LEMMA SessionSteps ==
  [Next]_vars =>
     /\ [EnumNext]_enumVars /\ [ProbeNext]_probeVars /\ [CallNext]_callVars
     /\ [CsNext]_csVars /\ [DiagNext]_diagVars
<1> SUFFICES ASSUME [Next]_vars
             PROVE  /\ [EnumNext]_enumVars /\ [ProbeNext]_probeVars /\ [CallNext]_callVars
                    /\ [CsNext]_csVars /\ [DiagNext]_diagVars
  OBVIOUS
<1>1. CASE UNCHANGED vars
  BY <1>1 DEF vars
<1>2. CASE Diagnose
  BY <1>2 DEF Diagnose
<1>3. CASE Enumerate
  BY <1>3 DEF Enumerate
<1>4. CASE Initialize
  BY <1>4 DEF Initialize
<1>5. CASE Ask
  BY <1>5 DEF Ask
<1>6. CASE Synchronize
  <2>1. CsNext /\ UNCHANGED <<enumVars, probeVars, callVars, diagVars>>
    BY <1>6 DEF Synchronize, Others
  <2> QED
    BY <2>1
<1> QED
  BY <1>1, <1>2, <1>3, <1>4, <1>5, <1>6 DEF Next

-----------------------------------------------------------------------------
(* CsSync: the types. *)

Times == 0 .. AMDGPU_TIMEOUT_INFINITE

FileLabels == {"created", "filled", "out", "done"}

WaitLabels == {"waiting", "busy"}

FileArgs ==
    [op : {"export", "import"}, syncobj : Syncobjs, point : 1 .. MaxPoint,
     file : SyncFiles, binary : Syncobjs, ok : BOOLEAN]

WaitArgs ==
    [op : {"wait"}, timeout : Times, since : Times, finite : BOOLEAN, deadline : Times]

(* The arguments that go with where a thread is.                           *)
CallTyped(label, a) ==
    \/ label \in FileLabels /\ a \in FileArgs
    \/ label \in WaitLabels /\ a \in WaitArgs
    \/ label = "idle" /\ a = NoArgs

CsTypeOK ==
    /\ live \subseteq Syncobjs /\ held \subseteq Syncobjs
    /\ points \in [Syncobjs -> [Points -> Fences \cup {NoFence}]]
    /\ files \in [SyncFiles -> Fences \cup {NoFence}]
    /\ csPc \in [Threads -> FileLabels \cup WaitLabels \cup {"idle"}]
    /\ args \in [Threads -> FileArgs \cup WaitArgs \cup {NoArgs}]
    /\ now \in Times
    /\ \A t \in Threads : CallTyped(csPc[t], args[t])

(* What the assumptions give. *)
LEMMA Words ==
  /\ WordMod \in Nat \ {0} /\ AMDGPU_TIMEOUT_INFINITE = WordMod - 1
  /\ MaxPoint \in Nat /\ Timeouts \subseteq Times /\ 0 \in Times
  /\ Unset \in [Points -> Fences \cup {NoFence}] /\ 0 \in Points
  /\ \A p \in Points : Unset[p] = NoFence
  BY CsSyncAssumption DEF AMDGPU_TIMEOUT_INFINITE, Times, Unset, Points

(* The client has opened nothing and waits for nothing. *)
LEMMA CsInitTypes == CsInit => CsTypeOK
<1> SUFFICES ASSUME CsInit PROVE CsTypeOK
  OBVIOUS
<1>1. \A t \in Threads : csPc[t] = "idle" /\ args[t] = NoArgs
  BY DEF CsInit
<1>2. /\ live \subseteq Syncobjs /\ held \subseteq Syncobjs
      /\ points \in [Syncobjs -> [Points -> Fences \cup {NoFence}]]
      /\ files \in [SyncFiles -> Fences \cup {NoFence}]
      /\ csPc \in [Threads -> FileLabels \cup WaitLabels \cup {"idle"}]
      /\ args \in [Threads -> FileArgs \cup WaitArgs \cup {NoArgs}]
      /\ now \in Times
  BY Words DEF CsInit
<1> QED
  BY <1>1, <1>2 DEF CsTypeOK, CallTyped

(* A thread goes on, with arguments that fit.                              *)
LEMMA ThreadMoves ==
  ASSUME CsTypeOK, NEW t \in Threads, NEW label, NEW a, CallTyped(label, a),
         csPc' = [csPc EXCEPT ![t] = label], args' = [args EXCEPT ![t] = a]
  PROVE  /\ csPc' \in [Threads -> FileLabels \cup WaitLabels \cup {"idle"}]
         /\ args' \in [Threads -> FileArgs \cup WaitArgs \cup {NoArgs}]
         /\ \A u \in Threads : CallTyped(csPc'[u], args'[u])
         /\ csPc'[t] = label /\ args'[t] = a
         /\ \A u \in Threads \ {t} : csPc'[u] = csPc[u] /\ args'[u] = args[u]
<1>1. label \in FileLabels \cup WaitLabels \cup {"idle"}
  BY DEF CallTyped
<1>2. a \in FileArgs \cup WaitArgs \cup {NoArgs}
  BY DEF CallTyped
<1>3. /\ csPc' \in [Threads -> FileLabels \cup WaitLabels \cup {"idle"}]
      /\ csPc'[t] = label /\ \A u \in Threads \ {t} : csPc'[u] = csPc[u]
  BY <1>1 DEF CsTypeOK
<1>4. /\ args' \in [Threads -> FileArgs \cup WaitArgs \cup {NoArgs}]
      /\ args'[t] = a /\ \A u \in Threads \ {t} : args'[u] = args[u]
  BY <1>2 DEF CsTypeOK
<1>5. \A u \in Threads : CallTyped(csPc[u], args[u])
  BY DEF CsTypeOK
<1> QED
  BY <1>3, <1>4, <1>5

(* The fences of one syncobj are replaced.                                 *)
LEMMA PointsReplaced ==
  ASSUME CsTypeOK, NEW s \in Syncobjs, NEW v \in [Points -> Fences \cup {NoFence}],
         points' = [points EXCEPT ![s] = v]
  PROVE  /\ points' \in [Syncobjs -> [Points -> Fences \cup {NoFence}]]
         /\ points'[s] = v
         /\ \A r \in Syncobjs \ {s} : points'[r] = points[r]
  BY DEF CsTypeOK

(* One fence is replaced.                                                  *)
PointPut(s, p, f) == points' = [points EXCEPT ![s][p] = f]

LEMMA PointReplaced ==
  ASSUME CsTypeOK, NEW s \in Syncobjs, NEW p \in Points, NEW f \in Fences \cup {NoFence},
         PointPut(s, p, f)
  PROVE  /\ points' \in [Syncobjs -> [Points -> Fences \cup {NoFence}]]
         /\ points'[s][p] = f
         /\ \A q \in Points \ {p} : points'[s][q] = points[s][q]
         /\ \A r \in Syncobjs \ {s} : points'[r] = points[r]
<1> DEFINE v == [points[s] EXCEPT ![p] = f]
<1>1. points \in [Syncobjs -> [Points -> Fences \cup {NoFence}]]
  BY DEF CsTypeOK
<1>2. /\ v \in [Points -> Fences \cup {NoFence}]
      /\ v[p] = f /\ \A q \in Points \ {p} : v[q] = points[s][q]
  BY <1>1
<1>3. points' = [points EXCEPT ![s] = v]
  BY DEF PointPut
<1> HIDE DEF v
<1> QED
  BY <1>2, <1>3, PointsReplaced

(* A sync file is made or closed.                                          *)
LEMMA FileReplaced ==
  ASSUME CsTypeOK, NEW f \in SyncFiles, NEW v \in Fences \cup {NoFence},
         files' = [files EXCEPT ![f] = v]
  PROVE  /\ files' \in [SyncFiles -> Fences \cup {NoFence}]
         /\ files'[f] = v
         /\ \A g \in SyncFiles \ {f} : files'[g] = files[g]
  BY DEF CsTypeOK

-----------------------------------------------------------------------------
(* CsSync: sync files.  Neither TemporariesAccounted nor FilesFaithful is  *)
(* inductive.  The syncobj a call was given is still the client's and      *)
(* nobody else's call makes or closes its file (CallsApart); and the fence *)
(* of a call that will succeed is the same in the temporary syncobj as     *)
(* where it came from (CallSound), which keeps it, since a point is set    *)
(* once.                                                                   *)

Running(t) == csPc[t] \in FileLabels

CallsApart ==
    /\ \A t \in Threads : Running(t) => args[t].syncobj \in held
    /\ \A t, u \in Threads : Running(t) /\ Running(u) /\ t # u => args[t].file # args[u].file

PointOf(a) == points[a.syncobj][a.point]

PayloadOf(a) == points[a.binary][0]

FileOf(a) == files[a.file]

CallSound(t) ==
    /\ csPc[t] \in {"created", "filled"} => ~args[t].ok
    /\ csPc[t] = "filled" /\ args[t].op = "export" =>
          PointOf(args[t]) # NoFence /\ PayloadOf(args[t]) = PointOf(args[t])
    /\ csPc[t] = "filled" /\ args[t].op = "import" =>
          FileOf(args[t]) # NoFence /\ PayloadOf(args[t]) = FileOf(args[t])
    /\ csPc[t] \in {"out", "done"} /\ args[t].ok =>
          FileOf(args[t]) # NoFence /\ FileOf(args[t]) = PointOf(args[t])

FilesInvariant ==
    /\ CsTypeOK
    /\ TemporariesAccounted
    /\ CallsApart
    /\ \A t \in Threads : CallSound(t)

(* What the types say of a call that runs.                                 *)
LEMMA RunningTypes ==
  ASSUME CsTypeOK, NEW t \in Threads
  PROVE  /\ Running(t) <=> args[t].op \in {"export", "import"}
         /\ Running(t) => args[t] \in FileArgs
         /\ csPc[t] = "idle" => args[t] = NoArgs
         /\ t \in Temporaries => Running(t)
         /\ csPc[t] \in {"created", "filled", "out"} => t \in Temporaries
<1>1. CallTyped(csPc[t], args[t])
  BY DEF CsTypeOK
<1>2. args[t] \in FileArgs => args[t].op \in {"export", "import"}
  BY DEF FileArgs
<1>3. args[t] \in WaitArgs => args[t].op = "wait"
  BY DEF WaitArgs
<1>4. NoArgs.op = "none"
  BY DEF NoArgs
<1> QED
  BY <1>1, <1>2, <1>3, <1>4 DEF CallTyped, Running, FileLabels, WaitLabels, Temporaries

(* A call keeps what it knows while the others leave its file alone, its   *)
(* temporary syncobj, and its point once it is set.                        *)
LEMMA CallSoundKept ==
  ASSUME NEW u \in Threads, CallSound(u), csPc'[u] = csPc[u], args'[u] = args[u],
         files'[args[u].file] = files[args[u].file],
         PointOf(args[u]) # NoFence =>
            points'[args[u].syncobj][args[u].point] = PointOf(args[u]),
         csPc[u] = "filled" => points'[args[u].binary][0] = PayloadOf(args[u])
  PROVE  CallSound(u)'
  BY DEF CallSound, PointOf, PayloadOf, FileOf

(* A thread that runs no file call knows nothing.                          *)
LEMMA CallSoundIdle ==
  ASSUME NEW t \in Threads, csPc'[t] \notin FileLabels
  PROVE  CallSound(t)'
  BY DEF CallSound, FileLabels

(* What every call that runs can count on.                                 *)
LEMMA RunningSound ==
  ASSUME FilesInvariant, NEW u \in Threads, Running(u)
  PROVE  /\ args[u].syncobj \in held /\ args[u].syncobj \in live /\ args[u].syncobj \in Syncobjs
         /\ args[u].point \in Points \ {0} /\ args[u].file \in SyncFiles
         /\ args[u].binary \in Syncobjs /\ args[u].ok \in BOOLEAN
         /\ args[u].op \in {"export", "import"}
         /\ Used(args[u].syncobj) /\ FileUsed(args[u].file)
         /\ csPc[u] \in {"created", "filled", "out"} =>
               args[u].binary \in live /\ args[u].binary \notin held
         /\ CallSound(u)
<1>1. args[u] \in FileArgs /\ args[u].op \in {"export", "import"}
  BY RunningTypes DEF FilesInvariant
<1>2. args[u].syncobj \in held /\ held \subseteq live
  BY DEF FilesInvariant, CallsApart, TemporariesAccounted
<1>3. args[u].point \in Points \ {0}
  BY <1>1, Words DEF FileArgs, Points
<1>4. csPc[u] \in {"created", "filled", "out"} =>
         args[u].binary \in live /\ args[u].binary \notin held
  BY DEF FilesInvariant, TemporariesAccounted, Temporaries
<1> QED
  BY <1>1, <1>2, <1>3, <1>4 DEF FileArgs, Used, FileUsed, FilesInvariant

(* What a step does to the file, the point and the temporary syncobj of a  *)
(* call it is not part of.                                                 *)
Untouched(u) ==
    /\ files'[args[u].file] = files[args[u].file]
    /\ PointOf(args[u]) # NoFence => points'[args[u].syncobj][args[u].point] = PointOf(args[u])
    /\ csPc[u] = "filled" => points'[args[u].binary][0] = PayloadOf(args[u])

(* A step that no file call is part of. *)
LEMMA FilesKept ==
  ASSUME FilesInvariant, CsTypeOK', TemporariesAccounted',
         \A u \in Threads : csPc'[u] = csPc[u] /\ args'[u] = args[u],
         \A u \in Threads : Running(u) => args[u].syncobj \in held' /\ Untouched(u)
  PROVE  FilesInvariant'
<1>1. \A u \in Threads : Running(u)' <=> Running(u)
  BY DEF Running
<1>2. CallsApart'
  BY <1>1 DEF FilesInvariant, CallsApart
<1>3. ASSUME NEW u \in Threads PROVE CallSound(u)'
  <2>1. CASE Running(u)
    BY <2>1, CallSoundKept DEF FilesInvariant, Untouched
  <2>2. CASE ~Running(u)
    BY <2>2, CallSoundIdle DEF Running
  <2> QED
    BY <2>1, <2>2
<1> QED
  BY <1>2, <1>3 DEF FilesInvariant

(* A syncobj the driver has not given out yet.                             *)
LEMMA FilesCreate ==
  ASSUME FilesInvariant, NEW t \in Threads, CreateSyncobj(t)
  PROVE  FilesInvariant'
<1>1. PICK s \in Syncobjs \ live :
         /\ live' = live \cup {s} /\ held' = held \cup {s}
         /\ points' = [points EXCEPT ![s] = Unset]
  BY DEF CreateSyncobj
<1>2. files' = files /\ csPc' = csPc /\ args' = args /\ now' = now
  BY DEF CreateSyncobj
<1>3. CsTypeOK
  BY DEF FilesInvariant
<1>4. /\ points' \in [Syncobjs -> [Points -> Fences \cup {NoFence}]]
      /\ \A r \in Syncobjs \ {s} : points'[r] = points[r]
  BY <1>1, <1>3, PointsReplaced, Words
<1>5. CsTypeOK'
  BY <1>1, <1>2, <1>3, <1>4 DEF CsTypeOK
<1>6. TemporariesAccounted'
  BY <1>1, <1>2 DEF FilesInvariant, TemporariesAccounted, Temporaries
<1>7. ASSUME NEW u \in Threads, Running(u) PROVE args[u].syncobj \in held' /\ Untouched(u)
  <2>1. args[u].syncobj # s /\ (csPc[u] = "filled" => args[u].binary # s)
    BY <1>1, <1>7, RunningSound
  <2> QED
    BY <2>1, <1>1, <1>2, <1>4, <1>7, RunningSound DEF Untouched, PointOf, PayloadOf
<1> QED
  BY <1>2, <1>5, <1>6, <1>7, FilesKept

(* A syncobj nobody uses is destroyed.                                     *)
LEMMA FilesDestroy ==
  ASSUME FilesInvariant, NEW t \in Threads, NEW s \in Syncobjs, DestroySyncobj(t, s)
  PROVE  FilesInvariant'
<1>1. /\ s \in held /\ ~Used(s)
      /\ live' = live \ {s} /\ held' = held \ {s}
      /\ points' = [points EXCEPT ![s] = Unset]
  BY DEF DestroySyncobj
<1>2. files' = files /\ csPc' = csPc /\ args' = args /\ now' = now
  BY DEF DestroySyncobj
<1>3. CsTypeOK
  BY DEF FilesInvariant
<1>4. /\ points' \in [Syncobjs -> [Points -> Fences \cup {NoFence}]]
      /\ \A r \in Syncobjs \ {s} : points'[r] = points[r]
  BY <1>1, <1>3, PointsReplaced, Words
<1>5. CsTypeOK'
  BY <1>1, <1>2, <1>3, <1>4 DEF CsTypeOK
<1>6. TemporariesAccounted'
  BY <1>1, <1>2 DEF FilesInvariant, TemporariesAccounted, Temporaries
<1>7. ASSUME NEW u \in Threads, Running(u) PROVE args[u].syncobj \in held' /\ Untouched(u)
  <2>1. args[u].syncobj # s
    BY <1>1, <1>7, RunningSound
  <2>2. csPc[u] = "filled" => args[u].binary # s
    BY <1>1, <1>7, RunningSound
  <2> QED
    BY <2>1, <2>2, <1>1, <1>2, <1>4, <1>7, RunningSound DEF Untouched, PointOf, PayloadOf
<1> QED
  BY <1>2, <1>5, <1>6, <1>7, FilesKept

(* What a client does to a syncobj of its own leaves the calls alone, as   *)
(* long as it sets no point twice.                                         *)
LEMMA FilesPoints ==
  ASSUME FilesInvariant, NEW s \in held,
         live' = live, files' = files, held' = held, csPc' = csPc, args' = args, now' = now,
         points' \in [Syncobjs -> [Points -> Fences \cup {NoFence}]],
         \A r \in Syncobjs \ {s} : points'[r] = points[r],
         \A p \in Points \ {0} :
            Used(s) /\ points[s][p] # NoFence => points'[s][p] = points[s][p]
  PROVE  FilesInvariant'
<1>1. CsTypeOK'
  BY DEF FilesInvariant, CsTypeOK
<1>2. TemporariesAccounted'
  BY DEF FilesInvariant, TemporariesAccounted, Temporaries
<1>3. ASSUME NEW u \in Threads, Running(u) PROVE args[u].syncobj \in held' /\ Untouched(u)
  <2>1. csPc[u] = "filled" => args[u].binary # s
    BY <1>3, RunningSound
  <2>2. csPc[u] = "filled" => points'[args[u].binary][0] = PayloadOf(args[u])
    BY <2>1, <1>3, RunningSound DEF PayloadOf
  <2>3. PointOf(args[u]) # NoFence => points'[args[u].syncobj][args[u].point] = PointOf(args[u])
    <3>1. CASE args[u].syncobj = s
      BY <3>1, <1>3, RunningSound DEF PointOf
    <3>2. CASE args[u].syncobj # s
      BY <3>2, <1>3, RunningSound DEF PointOf
    <3> QED
      BY <3>1, <3>2
  <2> QED
    BY <2>2, <2>3, <1>3, RunningSound DEF Untouched
<1> QED
  BY <1>1, <1>2, <1>3, FilesKept

(* A fence is put at a free point, or replaces the binary payload.         *)
LEMMA FilesSetPoint ==
  ASSUME FilesInvariant, NEW t \in Threads, NEW s \in Syncobjs, NEW p \in Points, NEW f \in Fences,
         SetPoint(t, s, p, f)
  PROVE  FilesInvariant'
<1>1. /\ s \in held /\ (p = 0 \/ points[s][p] = NoFence)
      /\ points' = [points EXCEPT ![s][p] = f]
      /\ live' = live /\ files' = files /\ held' = held /\ csPc' = csPc /\ args' = args /\ now' = now
  BY DEF SetPoint
<1>2. /\ points' \in [Syncobjs -> [Points -> Fences \cup {NoFence}]]
      /\ \A q \in Points \ {p} : points'[s][q] = points[s][q]
      /\ \A r \in Syncobjs \ {s} : points'[r] = points[r]
  <2>1. PointPut(s, p, f) /\ CsTypeOK
    BY <1>1 DEF PointPut, FilesInvariant
  <2> QED
    BY <2>1, PointReplaced
<1>3. \A q \in Points \ {0} : points[s][q] # NoFence => points'[s][q] = points[s][q]
  BY <1>1, <1>2
<1> QED
  BY <1>1, <1>2, <1>3, FilesPoints

(* Nobody uses a syncobj that is reset.                                    *)
LEMMA FilesReset ==
  ASSUME FilesInvariant, NEW t \in Threads, NEW s \in Syncobjs, ResetSyncobj(t, s)
  PROVE  FilesInvariant'
<1>1. /\ s \in held /\ ~Used(s)
      /\ points' = [points EXCEPT ![s] = Unset]
      /\ live' = live /\ files' = files /\ held' = held /\ csPc' = csPc /\ args' = args /\ now' = now
  BY DEF ResetSyncobj
<1>2. /\ points' \in [Syncobjs -> [Points -> Fences \cup {NoFence}]]
      /\ \A r \in Syncobjs \ {s} : points'[r] = points[r]
  BY <1>1, PointsReplaced, Words DEF FilesInvariant
<1> QED
  BY <1>1, <1>2, FilesPoints

(* A sync file nobody uses changes.                                        *)
LEMMA FilesFile ==
  ASSUME FilesInvariant, NEW f \in SyncFiles, NEW v \in Fences \cup {NoFence}, ~FileUsed(f),
         files' = [files EXCEPT ![f] = v],
         live' = live, points' = points, held' = held, csPc' = csPc, args' = args, now' = now
  PROVE  FilesInvariant'
<1>1. /\ files' \in [SyncFiles -> Fences \cup {NoFence}]
      /\ \A g \in SyncFiles \ {f} : files'[g] = files[g]
  BY FileReplaced DEF FilesInvariant
<1>2. CsTypeOK'
  BY <1>1 DEF FilesInvariant, CsTypeOK
<1>3. TemporariesAccounted'
  BY DEF FilesInvariant, TemporariesAccounted, Temporaries
<1>4. ASSUME NEW u \in Threads, Running(u) PROVE args[u].syncobj \in held' /\ Untouched(u)
  <2>1. args[u].file # f /\ args[u].file \in SyncFiles
    BY <1>4, RunningSound
  <2> QED
    BY <2>1, <1>1, <1>4, RunningSound DEF Untouched, PointOf, PayloadOf
<1> QED
  BY <1>2, <1>3, <1>4, FilesKept

(* A sync file is closed.                                                  *)
LEMMA FilesCloseFile ==
  ASSUME FilesInvariant, NEW t \in Threads, NEW f \in SyncFiles, CloseFile(t, f)
  PROVE  FilesInvariant'
  BY FilesFile DEF CloseFile

(* Without a point the driver makes or reads a sync file in one call.      *)
LEMMA FilesFileCall ==
  ASSUME FilesInvariant, NEW t \in Threads, NEW op \in {"export", "import"},
         NEW s \in Syncobjs, NEW f \in SyncFiles, FileCall(t, op, s, f)
  PROVE  FilesInvariant'
<1>1. /\ s \in held
      /\ live' = live /\ held' = held /\ csPc' = csPc /\ args' = args /\ now' = now
  BY DEF FileCall
<1>2. points[s][0] \in Fences \cup {NoFence} /\ files[f] \in Fences \cup {NoFence}
  BY Words DEF FilesInvariant, CsTypeOK
<1>3. CASE op = "export"
  <2>1. ~FileUsed(f) /\ files' = [files EXCEPT ![f] = points[s][0]] /\ points' = points
    BY <1>3 DEF FileCall
  <2> QED
    BY <2>1, <1>1, <1>2, FilesFile
<1>4. CASE op = "import"
  <2>1. points' = [points EXCEPT ![s][0] = files[f]] /\ files' = files
    BY <1>4 DEF FileCall
  <2>2. /\ points' \in [Syncobjs -> [Points -> Fences \cup {NoFence}]]
        /\ \A q \in Points \ {0} : points'[s][q] = points[s][q]
        /\ \A r \in Syncobjs \ {s} : points'[r] = points[r]
    <3>1. CsTypeOK /\ s \in Syncobjs /\ 0 \in Points /\ files[f] \in Fences \cup {NoFence}
      BY <1>2, Words DEF FilesInvariant, CsTypeOK
    <3>2. PointPut(s, 0, files[f])
      BY <2>1 DEF PointPut
    <3> QED
      BY <3>1, <3>2, PointReplaced
  <2> QED
    BY <2>1, <2>2, <1>1, FilesPoints
<1> QED
  BY <1>3, <1>4

(* A step of one file call, or of one wait. *)
LEMMA FilesMoved ==
  ASSUME FilesInvariant, CsTypeOK', TemporariesAccounted', NEW t \in Threads,
         \A u \in Threads \ {t} : csPc'[u] = csPc[u] /\ args'[u] = args[u],
         \A u \in Threads \ {t} : Running(u) => args[u].syncobj \in held' /\ Untouched(u),
         csPc'[t] \in FileLabels =>
            /\ args'[t].syncobj \in held'
            /\ \A u \in Threads \ {t} : Running(u) => args[u].file # args'[t].file
            /\ CallSound(t)'
  PROVE  FilesInvariant'
<1>1. /\ \A u \in Threads \ {t} : Running(u)' <=> Running(u)
      /\ Running(t)' <=> csPc'[t] \in FileLabels
  BY DEF Running
<1>2. \A u \in Threads \ {t} :
         Running(u) => args[u].syncobj \in held /\ args[u].syncobj \in held'
  BY DEF FilesInvariant, CallsApart
<1>3. \A u, v \in Threads \ {t} : Running(u) /\ Running(v) /\ u # v => args[u].file # args[v].file
  BY DEF FilesInvariant, CallsApart
<1>4. CallsApart'
  <2>1. \A u \in Threads : Running(u)' => args'[u].syncobj \in held'
    BY <1>1, <1>2
  <2>2. \A u, v \in Threads :
           Running(u)' /\ Running(v)' /\ u # v => args'[u].file # args'[v].file
    BY <1>1, <1>3
  <2> QED
    BY <2>1, <2>2 DEF CallsApart
<1>5. ASSUME NEW u \in Threads PROVE CallSound(u)'
  <2>1. CASE u # t /\ Running(u)
    BY <2>1, CallSoundKept DEF FilesInvariant, Untouched
  <2>2. CASE u # t /\ ~Running(u)
    BY <2>2, CallSoundIdle DEF Running
  <2>3. CASE u = t
    BY <2>3, CallSoundIdle
  <2> QED
    BY <2>1, <2>2, <2>3
<1> QED
  BY <1>4, <1>5 DEF FilesInvariant

(* A call with a point is given a temporary syncobj nobody has, and a file *)
(* no other call uses.                                                     *)
LEMMA FilesPointCall ==
  ASSUME FilesInvariant, NEW t \in Threads, NEW op \in {"export", "import"}, NEW s \in Syncobjs,
         NEW p \in Points, NEW f \in SyncFiles, PointCall(t, op, s, p, f)
  PROVE  FilesInvariant'
<1>1. PICK binary \in Syncobjs \ live :
         /\ live' = live \cup {binary}
         /\ points' = [points EXCEPT ![binary] = Unset]
         /\ args' = [args EXCEPT ![t] =
                       [op |-> op, syncobj |-> s, point |-> p, file |-> f,
                        binary |-> binary, ok |-> FALSE]]
  BY DEF PointCall
<1>2. /\ csPc[t] = "idle" /\ s \in held /\ p > 0 /\ ~FileUsed(f)
      /\ csPc' = [csPc EXCEPT ![t] = "created"]
      /\ files' = files /\ held' = held /\ now' = now
  BY DEF PointCall, Go
<1> DEFINE a == [op |-> op, syncobj |-> s, point |-> p, file |-> f, binary |-> binary, ok |-> FALSE]
<1>3. /\ a \in FileArgs /\ a.syncobj = s /\ a.file = f /\ a.binary = binary /\ a.ok = FALSE
  BY <1>2, Words DEF FileArgs, Points
<1>4. args' = [args EXCEPT ![t] = a]
  BY <1>1
<1> HIDE DEF a
<1>5. CsTypeOK /\ TemporariesAccounted
  BY DEF FilesInvariant
<1>6. CallTyped("created", a)
  BY <1>3 DEF CallTyped, FileLabels
<1>7. /\ csPc' \in [Threads -> FileLabels \cup WaitLabels \cup {"idle"}]
      /\ args' \in [Threads -> FileArgs \cup WaitArgs \cup {NoArgs}]
      /\ \A u \in Threads : CallTyped(csPc'[u], args'[u])
      /\ csPc'[t] = "created" /\ args'[t] = a
      /\ \A u \in Threads \ {t} : csPc'[u] = csPc[u] /\ args'[u] = args[u]
  BY <1>2, <1>4, <1>5, <1>6, ThreadMoves
<1>8. /\ points' \in [Syncobjs -> [Points -> Fences \cup {NoFence}]]
      /\ \A r \in Syncobjs \ {binary} : points'[r] = points[r]
  BY <1>1, <1>5, PointsReplaced, Words
<1>9. CsTypeOK'
  BY <1>1, <1>2, <1>5, <1>7, <1>8 DEF CsTypeOK
<1>10. /\ \A u \in Threads : u \in Temporaries' <=> u \in Temporaries \/ u = t
       /\ t \notin Temporaries /\ Temporaries \subseteq Threads
       /\ Temporaries' \subseteq Threads
  BY <1>2, <1>7 DEF Temporaries
<1>11. \A u \in Temporaries : args'[u] = args[u] /\ args[u].binary \in live
  BY <1>5, <1>7, <1>10 DEF TemporariesAccounted
<1>12. held \subseteq live
  BY <1>5 DEF TemporariesAccounted
<1>13. TemporariesAccounted'
  <2>1. live' = held' \cup {args'[u].binary : u \in Temporaries'}
    BY <1>1, <1>2, <1>3, <1>5, <1>7, <1>10, <1>11 DEF TemporariesAccounted
  <2>2. \A u \in Temporaries' :
           /\ args'[u].binary \notin held'
           /\ \A v \in Temporaries' : v # u => args'[v].binary # args'[u].binary
    BY <1>2, <1>3, <1>5, <1>7, <1>10, <1>11, <1>12 DEF TemporariesAccounted
  <2> QED
    BY <2>1, <2>2 DEF TemporariesAccounted
<1>14. ASSUME NEW u \in Threads \ {t}, Running(u) PROVE args[u].syncobj \in held' /\ Untouched(u)
  <2>1. args[u].syncobj # binary /\ (csPc[u] = "filled" => args[u].binary # binary)
    BY <1>14, RunningSound
  <2> QED
    BY <2>1, <1>2, <1>8, <1>14, RunningSound DEF Untouched, PointOf, PayloadOf
<1>15. \A u \in Threads \ {t} : Running(u) => args[u].file # args'[t].file
  BY <1>2, <1>3, <1>7, RunningSound
<1>16. CallSound(t)'
  BY <1>3, <1>7 DEF CallSound
<1> QED
  BY <1>2, <1>3, <1>7, <1>9, <1>13, <1>14, <1>15, <1>16, FilesMoved

(* A step inside a call that keeps its arguments but for the outcome, and  *)
(* its temporary syncobj.                                                  *)
LEMMA FilesInside ==
  ASSUME FilesInvariant, NEW t \in Threads, NEW label \in {"filled", "out"}, NEW ok \in BOOLEAN,
         csPc[t] \in {"created", "filled"},
         csPc' = [csPc EXCEPT ![t] = label],
         args' = [args EXCEPT ![t] = [args[t] EXCEPT !.ok = ok]],
         live' = live, held' = held, now' = now,
         points' \in [Syncobjs -> [Points -> Fences \cup {NoFence}]],
         files' \in [SyncFiles -> Fences \cup {NoFence}],
         \A u \in Threads \ {t} : Running(u) => Untouched(u),
         args'[t].ok = ok /\ args'[t].syncobj = args[t].syncobj /\ args'[t].point = args[t].point
            /\ args'[t].file = args[t].file /\ args'[t].binary = args[t].binary
            /\ args'[t].op = args[t].op
            => CallSound(t)'
  PROVE  FilesInvariant'
<1> DEFINE a == [args[t] EXCEPT !.ok = ok]
<1>1. CsTypeOK /\ TemporariesAccounted /\ CallsApart
  BY DEF FilesInvariant
<1>2. Running(t) /\ t \in Temporaries /\ args[t] \in FileArgs
  BY <1>1, RunningTypes DEF Running, FileLabels
<1>3. /\ a \in FileArgs /\ a.ok = ok /\ a.syncobj = args[t].syncobj /\ a.point = args[t].point
      /\ a.file = args[t].file /\ a.binary = args[t].binary /\ a.op = args[t].op
  BY <1>2 DEF FileArgs
<1> HIDE DEF a
<1>4. args' = [args EXCEPT ![t] = a]
  BY DEF a
<1>5. CallTyped(label, a)
  BY <1>3 DEF CallTyped, FileLabels
<1>6. /\ csPc' \in [Threads -> FileLabels \cup WaitLabels \cup {"idle"}]
      /\ args' \in [Threads -> FileArgs \cup WaitArgs \cup {NoArgs}]
      /\ \A u \in Threads : CallTyped(csPc'[u], args'[u])
      /\ csPc'[t] = label /\ args'[t] = a
      /\ \A u \in Threads \ {t} : csPc'[u] = csPc[u] /\ args'[u] = args[u]
  BY <1>1, <1>4, <1>5, ThreadMoves
<1>7. CsTypeOK'
  BY <1>1, <1>6 DEF CsTypeOK
<1>8. Temporaries' = Temporaries /\ Temporaries \subseteq Threads
  BY <1>2, <1>6 DEF Temporaries
<1>9. \A u \in Threads : args'[u].binary = args[u].binary
  BY <1>3, <1>6
<1>10. TemporariesAccounted'
  <2>1. {args'[u].binary : u \in Temporaries'} = {args[u].binary : u \in Temporaries}
    BY <1>8, <1>9
  <2>2. \A u \in Temporaries' :
           /\ args'[u].binary \notin held'
           /\ \A v \in Temporaries' : v # u => args'[v].binary # args'[u].binary
    BY <1>1, <1>8, <1>9 DEF TemporariesAccounted
  <2> QED
    BY <2>1, <2>2, <1>1 DEF TemporariesAccounted
<1>11. \A u \in Threads \ {t} : Running(u) => args[u].syncobj \in held' /\ Untouched(u)
  BY <1>1 DEF CallsApart
<1>12. /\ args'[t].syncobj \in held'
       /\ \A u \in Threads \ {t} : Running(u) => args[u].file # args'[t].file
       /\ CallSound(t)'
  BY <1>1, <1>2, <1>3, <1>6 DEF CallsApart
<1> QED
  BY <1>6, <1>7, <1>10, <1>11, <1>12, FilesMoved

(* The fence goes into the temporary syncobj.                              *)
LEMMA FilesFill ==
  ASSUME FilesInvariant, NEW t \in Threads, FillBinary(t)
  PROVE  FilesInvariant'
<1>1. PICK a : a = args[t]
  OBVIOUS
<1> DEFINE fence == IF a.op = "export" THEN points[a.syncobj][a.point] ELSE files[a.file]
<1>2. /\ csPc[t] = "created" /\ live' = live /\ files' = files /\ held' = held
      /\ args' = args /\ now' = now
  BY DEF FillBinary
<1>3. PICK ok \in {FALSE, fence # NoFence} :
         IF ok THEN /\ points' = [points EXCEPT ![a.binary][0] = fence]
                    /\ csPc' = [csPc EXCEPT ![t] = "filled"]
         ELSE csPc' = [csPc EXCEPT ![t] = "out"] /\ UNCHANGED points
  BY <1>1 DEF FillBinary, Go
<1>4. CsTypeOK /\ Running(t) /\ a \in FileArgs
  BY <1>1, <1>2, RunningTypes DEF FilesInvariant, Running, FileLabels
<1>5. /\ a.syncobj \in Syncobjs /\ a.point \in Points \ {0} /\ a.file \in SyncFiles
      /\ a.binary \in Syncobjs /\ a.binary \notin held /\ a.syncobj \in held
      /\ a.op \in {"export", "import"} /\ a.ok = FALSE
  BY <1>1, <1>2, <1>4, RunningSound DEF CallSound
<1>6. fence \in Fences \cup {NoFence}
  BY <1>4, <1>5 DEF CsTypeOK
<1>7. args' = [args EXCEPT ![t] = [args[t] EXCEPT !.ok = FALSE]]
  <2>1. [a EXCEPT !.ok = FALSE] = a
    BY <1>4, <1>5 DEF FileArgs
  <2> QED
    BY <2>1, <1>1, <1>2, <1>4 DEF CsTypeOK
<1>8. \A u \in Threads \ {t} : Running(u) =>
         args[u].syncobj # a.binary /\ (csPc[u] = "filled" => args[u].binary # a.binary)
  <2> SUFFICES ASSUME NEW u \in Threads \ {t}, Running(u)
               PROVE  args[u].syncobj # a.binary /\ (csPc[u] = "filled" => args[u].binary # a.binary)
    OBVIOUS
  <2>1. args[u].syncobj \in held
    BY RunningSound
  <2>2. csPc[u] = "filled" => args[u].binary # a.binary
    BY <1>1, <1>2 DEF FilesInvariant, TemporariesAccounted, Temporaries
  <2> QED
    BY <2>1, <2>2, <1>5
<1>10. CASE ok
  <2>1. /\ points' = [points EXCEPT ![a.binary][0] = fence] /\ fence # NoFence
        /\ csPc' = [csPc EXCEPT ![t] = "filled"] /\ csPc'[t] = "filled"
    BY <1>3, <1>4, <1>10 DEF CsTypeOK
  <2> HIDE DEF fence
  <2>2. /\ points' \in [Syncobjs -> [Points -> Fences \cup {NoFence}]]
        /\ points'[a.binary][0] = fence
        /\ \A r \in Syncobjs \ {a.binary} : points'[r] = points[r]
    <3>1. 0 \in Points /\ CsTypeOK /\ a.binary \in Syncobjs /\ fence \in Fences \cup {NoFence}
      BY <1>4, <1>5, <1>6, Words
    <3>2. points' = [points EXCEPT ![a.binary][0] = fence]
      BY <2>1
    <3>3. PICK s \in Syncobjs : s = a.binary
      BY <3>1
    <3>4. PointPut(s, 0, fence)
      BY <3>2, <3>3 DEF PointPut
    <3>5. /\ points' \in [Syncobjs -> [Points -> Fences \cup {NoFence}]]
          /\ points'[s][0] = fence
          /\ \A r \in Syncobjs \ {s} : points'[r] = points[r]
      BY <3>1, <3>4, PointReplaced
    <3> QED
      BY <3>3, <3>5
  <2>3. \A u \in Threads \ {t} : Running(u) => Untouched(u)
    BY <2>2, <1>2, <1>8, RunningSound DEF Untouched, PointOf, PayloadOf
  <2>4. points'[a.syncobj][a.point] = points[a.syncobj][a.point]
    BY <2>2, <1>5
  <2>5. CallSound(t)'
    BY <2>1, <2>2, <2>4, <1>1, <1>2, <1>5 DEF CallSound, PointOf, PayloadOf, FileOf, fence
  <2>6. files' \in [SyncFiles -> Fences \cup {NoFence}]
    BY <1>2, <1>4 DEF CsTypeOK
  <2> QED
    BY <2>1, <2>2, <2>3, <2>5, <2>6, <1>2, <1>7, FilesInside
<1>11. CASE ~ok
  <2>1. /\ points' = points /\ csPc' = [csPc EXCEPT ![t] = "out"] /\ csPc'[t] = "out"
    BY <1>3, <1>4, <1>11 DEF CsTypeOK
  <2>2. \A u \in Threads \ {t} : Running(u) => Untouched(u)
    BY <2>1, <1>2 DEF Untouched, PointOf, PayloadOf
  <2>3. CallSound(t)'
    BY <2>1, <1>1, <1>2, <1>5 DEF CallSound
  <2>4. /\ points' \in [Syncobjs -> [Points -> Fences \cup {NoFence}]]
        /\ files' \in [SyncFiles -> Fences \cup {NoFence}]
    BY <2>1, <1>2, <1>4 DEF CsTypeOK
  <2> QED
    BY <2>1, <2>2, <2>3, <2>4, <1>2, <1>7, FilesInside
<1> QED
  BY <1>3, <1>10, <1>11

(* The fence leaves the temporary syncobj: for the new sync file, or for   *)
(* the point, which nobody has set.                                        *)
LEMMA FilesEmpty ==
  ASSUME FilesInvariant, NEW t \in Threads, EmptyBinary(t)
  PROVE  FilesInvariant'
<1>1. PICK a : a = args[t]
  OBVIOUS
<1> DEFINE possible == IF a.op = "export" THEN ExportFile(a.binary, a.file)
                       ELSE points[a.syncobj][a.point] = NoFence
<1>2. /\ csPc[t] = "filled" /\ csPc' = [csPc EXCEPT ![t] = "out"]
      /\ live' = live /\ held' = held /\ now' = now
  BY DEF EmptyBinary, Go
<1>3. PICK ok \in {FALSE, possible} :
         /\ IF ok /\ a.op = "export"
            THEN files' = [files EXCEPT ![a.file] = points[a.binary][0]]
            ELSE UNCHANGED files
         /\ IF ok /\ a.op = "import"
            THEN points' = [points EXCEPT ![a.syncobj][a.point] = points[a.binary][0]]
            ELSE UNCHANGED points
         /\ args' = [args EXCEPT ![t].ok = ok]
  BY <1>1 DEF EmptyBinary
<1>4. CsTypeOK /\ Running(t) /\ a \in FileArgs
  BY <1>1, <1>2, RunningTypes DEF FilesInvariant, Running, FileLabels
<1>5. /\ a.syncobj \in Syncobjs /\ a.point \in Points \ {0} /\ a.file \in SyncFiles
      /\ a.binary \in Syncobjs /\ a.binary \notin held /\ a.syncobj \in held
      /\ a.op \in {"export", "import"}
  BY <1>1, <1>4, <1>2, RunningSound
<1>6. /\ a.op = "export" =>
            points[a.syncobj][a.point] # NoFence /\ points[a.binary][0] = points[a.syncobj][a.point]
      /\ a.op = "import" => files[a.file] # NoFence /\ points[a.binary][0] = files[a.file]
  BY <1>1, <1>2 DEF FilesInvariant, CallSound, PointOf, PayloadOf, FileOf
<1>7. ok \in BOOLEAN /\ (ok => possible)
  BY <1>3 DEF ExportFile
<1>8. PICK fence \in Fences \cup {NoFence} : fence = points[a.binary][0]
  BY <1>4, <1>5, Words DEF CsTypeOK
<1>9. args' = [args EXCEPT ![t] = [args[t] EXCEPT !.ok = ok]]
  BY <1>3
<1>10. csPc'[t] = "out"
  BY <1>2, <1>4 DEF CsTypeOK
<1>11. \A u \in Threads \ {t} : Running(u) =>
          args[u].file # a.file /\ (csPc[u] = "filled" => args[u].binary # a.syncobj)
  <2> SUFFICES ASSUME NEW u \in Threads \ {t}, Running(u)
               PROVE  args[u].file # a.file /\ (csPc[u] = "filled" => args[u].binary # a.syncobj)
    OBVIOUS
  <2>1. args[u].file # a.file
    BY <1>1, <1>4 DEF FilesInvariant, CallsApart
  <2>2. csPc[u] = "filled" => args[u].binary \notin held
    BY RunningSound
  <2> QED
    BY <2>1, <2>2, <1>5
<1>12. CASE ok /\ a.op = "export"
  <2>1. files' = [files EXCEPT ![a.file] = fence] /\ points' = points
    BY <1>3, <1>5, <1>8, <1>12
  <2>2. /\ files' \in [SyncFiles -> Fences \cup {NoFence}]
        /\ files'[a.file] = fence
        /\ \A g \in SyncFiles \ {a.file} : files'[g] = files[g]
    BY <2>1, <1>4, <1>5, <1>8, FileReplaced
  <2>3. \A u \in Threads \ {t} : Running(u) => Untouched(u)
    BY <2>1, <2>2, <1>11, RunningSound DEF Untouched, PointOf, PayloadOf
  <2>4. files'[a.file] # NoFence /\ files'[a.file] = points'[a.syncobj][a.point]
    BY <2>1, <2>2, <1>6, <1>8, <1>12
  <2>5. /\ args'[t].ok = ok /\ args'[t].syncobj = args[t].syncobj /\ args'[t].point = args[t].point
        /\ args'[t].file = args[t].file /\ args'[t].binary = args[t].binary
        /\ args'[t].op = args[t].op
        => CallSound(t)'
    BY <2>4, <1>1, <1>10 DEF CallSound, FileOf, PointOf
  <2>6. points' \in [Syncobjs -> [Points -> Fences \cup {NoFence}]]
    BY <2>1, <1>4 DEF CsTypeOK
  <2> QED
    BY <2>2, <2>3, <2>5, <2>6, <1>2, <1>7, <1>9, FilesInside
<1>13. CASE ok /\ a.op = "import"
  <2>1. points' = [points EXCEPT ![a.syncobj][a.point] = fence] /\ files' = files
    BY <1>3, <1>5, <1>8, <1>13
  <2>2. points[a.syncobj][a.point] = NoFence
    BY <1>7, <1>13
  <2>3. a.point \in Points
    BY <1>5
  <2>4. /\ points' \in [Syncobjs -> [Points -> Fences \cup {NoFence}]]
        /\ points'[a.syncobj][a.point] = fence
        /\ \A q \in Points \ {a.point} : points'[a.syncobj][q] = points[a.syncobj][q]
        /\ \A r \in Syncobjs \ {a.syncobj} : points'[r] = points[r]
    <3>1. CsTypeOK /\ a.syncobj \in Syncobjs /\ fence \in Fences \cup {NoFence}
      BY <1>4, <1>5, <1>8
    <3>2. points' = [points EXCEPT ![a.syncobj][a.point] = fence]
      BY <2>1
    <3>3. PICK s \in Syncobjs : s = a.syncobj
      BY <3>1
    <3>4. PICK p \in Points : p = a.point
      BY <2>3
    <3>5. PICK f \in Fences \cup {NoFence} : f = fence
      BY <3>1
    <3>6. PointPut(s, p, f)
      BY <3>2, <3>3, <3>4, <3>5 DEF PointPut
    <3>7. /\ points' \in [Syncobjs -> [Points -> Fences \cup {NoFence}]]
          /\ points'[s][p] = f
          /\ \A q \in Points \ {p} : points'[s][q] = points[s][q]
          /\ \A r \in Syncobjs \ {s} : points'[r] = points[r]
      <4>1. CsTypeOK
        BY <1>4
      <4> QED
        BY <3>6, <4>1, PointReplaced
    <3> QED
      BY <3>3, <3>4, <3>5, <3>7
  <2>5. ASSUME NEW u \in Threads \ {t}, Running(u) PROVE Untouched(u)
    <3>1. csPc[u] = "filled" => points'[args[u].binary][0] = PayloadOf(args[u])
      BY <2>4, <2>5, <1>11, RunningSound DEF PayloadOf
    <3>2. ASSUME PointOf(args[u]) # NoFence
          PROVE  points'[args[u].syncobj][args[u].point] = PointOf(args[u])
      <4>1. args[u].syncobj \in Syncobjs /\ args[u].point \in Points
        BY <2>5, RunningSound
      <4>2. ~(args[u].syncobj = a.syncobj /\ args[u].point = a.point)
        BY <3>2, <2>2 DEF PointOf
      <4> QED
        BY <4>1, <4>2, <2>4 DEF PointOf
    <3> QED
      BY <3>1, <3>2, <2>1 DEF Untouched
  <2>6. files'[a.file] # NoFence /\ files'[a.file] = points'[a.syncobj][a.point]
    BY <2>1, <2>4, <1>6, <1>8, <1>13
  <2>7. /\ args'[t].ok = ok /\ args'[t].syncobj = args[t].syncobj /\ args'[t].point = args[t].point
        /\ args'[t].file = args[t].file /\ args'[t].binary = args[t].binary
        /\ args'[t].op = args[t].op
        => CallSound(t)'
    BY <2>6, <1>1, <1>10 DEF CallSound, FileOf, PointOf
  <2>8. files' \in [SyncFiles -> Fences \cup {NoFence}]
    BY <2>1, <1>4 DEF CsTypeOK
  <2> QED
    BY <2>4, <2>5, <2>7, <2>8, <1>2, <1>7, <1>9, FilesInside
<1>14. CASE ~ok
  <2>1. points' = points /\ files' = files
    BY <1>3, <1>14
  <2>2. \A u \in Threads \ {t} : Running(u) => Untouched(u)
    BY <2>1 DEF Untouched, PointOf, PayloadOf
  <2>3. args'[t].ok = ok => CallSound(t)'
    BY <1>10, <1>14 DEF CallSound
  <2>4. /\ points' \in [Syncobjs -> [Points -> Fences \cup {NoFence}]]
        /\ files' \in [SyncFiles -> Fences \cup {NoFence}]
    BY <2>1, <1>4 DEF CsTypeOK
  <2> QED
    BY <2>2, <2>3, <2>4, <1>2, <1>7, <1>9, FilesInside
<1> QED
  BY <1>5, <1>12, <1>13, <1>14

(* The temporary syncobj is destroyed, and nothing else.                   *)
LEMMA FilesDestroyBinary ==
  ASSUME FilesInvariant, NEW t \in Threads, DestroyBinary(t)
  PROVE  FilesInvariant'
<1>1. PICK a : a = args[t]
  OBVIOUS
<1>2. /\ csPc[t] = "out" /\ csPc' = [csPc EXCEPT ![t] = "done"]
      /\ live' = live \ {a.binary} /\ points' = [points EXCEPT ![a.binary] = Unset]
      /\ files' = files /\ held' = held /\ args' = args /\ now' = now
  BY <1>1 DEF DestroyBinary, Go
<1>3. CsTypeOK /\ TemporariesAccounted /\ CallsApart /\ CallSound(t)
  BY DEF FilesInvariant
<1>4. Running(t) /\ a \in FileArgs /\ t \in Temporaries
  BY <1>1, <1>2, <1>3, RunningTypes DEF Running, FileLabels
<1>5. /\ a.syncobj \in held /\ a.syncobj \in Syncobjs /\ a.binary \in Syncobjs /\ a.binary \notin held
  BY <1>1, <1>2, <1>4, RunningSound
<1>6. args' = [args EXCEPT ![t] = a] /\ CallTyped("done", a)
  BY <1>1, <1>2, <1>3, <1>4 DEF CsTypeOK, CallTyped, FileLabels
<1>7. /\ csPc' \in [Threads -> FileLabels \cup WaitLabels \cup {"idle"}]
      /\ args' \in [Threads -> FileArgs \cup WaitArgs \cup {NoArgs}]
      /\ \A u \in Threads : CallTyped(csPc'[u], args'[u])
      /\ csPc'[t] = "done" /\ args'[t] = a
      /\ \A u \in Threads \ {t} : csPc'[u] = csPc[u] /\ args'[u] = args[u]
  BY <1>2, <1>3, <1>6, ThreadMoves
<1>8. /\ points' \in [Syncobjs -> [Points -> Fences \cup {NoFence}]]
      /\ \A r \in Syncobjs \ {a.binary} : points'[r] = points[r]
  BY <1>2, <1>3, <1>5, PointsReplaced, Words
<1>9. CsTypeOK'
  BY <1>2, <1>3, <1>7, <1>8 DEF CsTypeOK
<1>10. /\ Temporaries' = Temporaries \ {t} /\ Temporaries \subseteq Threads
  BY <1>4, <1>7 DEF Temporaries
<1>11. \A u \in Temporaries \ {t} : args[u].binary # a.binary
  BY <1>1, <1>3, <1>4 DEF TemporariesAccounted
<1>12. TemporariesAccounted'
  <2>1. live' = held' \cup {args'[u].binary : u \in Temporaries'}
    BY <1>1, <1>2, <1>3, <1>5, <1>10, <1>11 DEF TemporariesAccounted
  <2>2. \A u \in Temporaries' :
           /\ args'[u].binary \notin held'
           /\ \A v \in Temporaries' : v # u => args'[v].binary # args'[u].binary
    BY <1>2, <1>3, <1>10 DEF TemporariesAccounted
  <2> QED
    BY <2>1, <2>2 DEF TemporariesAccounted
<1>13. ASSUME NEW u \in Threads \ {t}, Running(u) PROVE args[u].syncobj \in held' /\ Untouched(u)
  <2>1. args[u].syncobj \in held /\ args[u].syncobj # a.binary
    BY <1>5, <1>13, RunningSound
  <2>2. csPc[u] = "filled" => args[u].binary # a.binary
    BY <1>11 DEF Temporaries
  <2> QED
    BY <2>1, <2>2, <1>2, <1>8, <1>13, RunningSound DEF Untouched, PointOf, PayloadOf
<1>14. points'[a.syncobj] = points[a.syncobj]
  BY <1>5, <1>8
<1>15. CallSound(t)'
  BY <1>1, <1>2, <1>3, <1>7, <1>14 DEF CallSound, FileOf, PointOf
<1>16. \A u \in Threads \ {t} : Running(u) => args[u].file # args'[t].file
  BY <1>1, <1>3, <1>4, <1>7 DEF CallsApart
<1> QED
  BY <1>2, <1>5, <1>7, <1>9, <1>12, <1>13, <1>15, <1>16, FilesMoved

(* Steps that leave syncobjs and files alone: a call or a wait begins or   *)
(* ends, and time goes on.                                                 *)
LEMMA FilesOutside ==
  ASSUME FilesInvariant, NEW t \in Threads, NEW label \in WaitLabels \cup {"idle"}, NEW a,
         CallTyped(label, a), t \notin Temporaries,
         csPc' = [csPc EXCEPT ![t] = label], args' = [args EXCEPT ![t] = a],
         live' = live, points' = points, files' = files, held' = held, now' = now
  PROVE  FilesInvariant'
<1>1. CsTypeOK /\ TemporariesAccounted /\ CallsApart
  BY DEF FilesInvariant
<1>2. /\ csPc' \in [Threads -> FileLabels \cup WaitLabels \cup {"idle"}]
      /\ args' \in [Threads -> FileArgs \cup WaitArgs \cup {NoArgs}]
      /\ \A u \in Threads : CallTyped(csPc'[u], args'[u])
      /\ csPc'[t] = label /\ args'[t] = a
      /\ \A u \in Threads \ {t} : csPc'[u] = csPc[u] /\ args'[u] = args[u]
  BY <1>1, ThreadMoves
<1>3. CsTypeOK'
  BY <1>1, <1>2 DEF CsTypeOK
<1>4. Temporaries' = Temporaries /\ t \notin Temporaries /\ Temporaries \subseteq Threads
  BY <1>2 DEF Temporaries, WaitLabels
<1>5. TemporariesAccounted'
  <2>1. \A u \in Temporaries : args'[u] = args[u]
    BY <1>2, <1>4
  <2>2. {args'[u].binary : u \in Temporaries'} = {args[u].binary : u \in Temporaries}
    BY <2>1, <1>4
  <2>3. \A u \in Temporaries' :
           /\ args'[u].binary \notin held'
           /\ \A v \in Temporaries' : v # u => args'[v].binary # args'[u].binary
    BY <2>1, <1>1, <1>4 DEF TemporariesAccounted
  <2> QED
    BY <2>2, <2>3, <1>1 DEF TemporariesAccounted
<1>6. \A u \in Threads \ {t} : Running(u) => args[u].syncobj \in held' /\ Untouched(u)
  BY <1>1 DEF CallsApart, Untouched, PointOf, PayloadOf
<1>7. csPc'[t] \notin FileLabels
  BY <1>2 DEF FileLabels, WaitLabels
<1> QED
  BY <1>2, <1>3, <1>5, <1>6, <1>7, FilesMoved

(* A number is its quotient and its remainder.                             *)
LEMMA Remainder ==
  ASSUME NEW z \in Nat, NEW w \in Nat \ {0}
  PROVE  z = (w * (z \div w)) + (z % w) /\ z \div w \in Int
  BY SMT

(* The sum is the remainder of two words: below the clock it has wrapped,  *)
(* otherwise it is their sum.                                              *)
LEMMA TimeoutSum ==
  ASSUME NEW x \in Times, NEW y \in Times
  PROVE  /\ CalculateTimeout(x, y) \in Times
         /\ CalculateTimeout(x, y) # AMDGPU_TIMEOUT_INFINITE => CalculateTimeout(x, y) = x + y
<1>1. PICK w \in Nat \ {0} : w = WordMod
  BY Words
<1>2. x \in 0 .. w - 1 /\ y \in 0 .. w - 1 /\ AMDGPU_TIMEOUT_INFINITE = w - 1 /\ Times = 0 .. w - 1
  BY <1>1, Words DEF Times
<1>3. PICK r \in 0 .. w - 1 : r = (x + y) % w
  BY <1>1, <1>2
<1>4. r = x + y \/ r = x + y - w
  <2>1. PICK q \in Int : x + y = w * q + r
    <3>1. PICK z \in Nat : z = x + y
      BY <1>2
    <3>2. z = (w * (z \div w)) + r /\ z \div w \in Int
      BY <3>1, <1>1, <1>3, Remainder
    <3> QED
      BY <3>1, <3>2
  <2>2. q = 0 \/ q = 1
    <3>1. q < 0 => w * q <= - w
      BY <1>1
    <3>2. q > 1 => w * q >= 2 * w
      BY <1>1
    <3> QED
      BY <2>1, <3>1, <3>2, <1>1, <1>2, <1>3
  <2> QED
    BY <2>1, <2>2, <1>1, <1>2, <1>3
<1>5. CalculateTimeout(x, y) = IF x = w - 1 \/ r < y THEN w - 1 ELSE r
  BY <1>1, <1>2, <1>3 DEF CalculateTimeout
<1> QED
  BY <1>1, <1>2, <1>3, <1>4, <1>5

(* What a wait is told.                                                    *)
LEMMA WaitTyped ==
  ASSUME CsTypeOK, NEW timeout \in Timeouts
  PROVE  /\ Wait(0, 0, FALSE, timeout) \in WaitArgs
         /\ Wait(0, 0, FALSE, AMDGPU_TIMEOUT_INFINITE) \in WaitArgs
         /\ Wait(timeout, now, TRUE, CalculateTimeout(timeout, now)) \in WaitArgs
<1>1. timeout \in Times /\ now \in Times /\ 0 \in Times /\ AMDGPU_TIMEOUT_INFINITE \in Times
  BY Words DEF CsTypeOK, Times
<1>2. CalculateTimeout(timeout, now) \in Times
  BY <1>1, TimeoutSum
<1> QED
  BY <1>1, <1>2 DEF Wait, WaitArgs

(* What a thread waits for.                                                *)
LEMMA QueryWaits ==
  ASSUME CsTypeOK, NEW t \in Threads, NEW timeout \in Timeouts, NEW absolute \in BOOLEAN,
         QueryFenceStatus(t, timeout, absolute)
  PROVE  \E a \in WaitArgs :
            /\ args' = [args EXCEPT ![t] = a]
            /\ a.finite => a = Wait(timeout, now, TRUE, CalculateTimeout(timeout, now))
<1>1. PICK clockFails \in BOOLEAN :
         args' = [args EXCEPT ![t] =
             IF absolute THEN Wait(0, 0, FALSE, timeout)
             ELSE IF clockFails THEN Wait(0, 0, FALSE, AMDGPU_TIMEOUT_INFINITE)
             ELSE Wait(timeout, now, TRUE, CalculateTimeout(timeout, now))]
  BY DEF QueryFenceStatus
<1> DEFINE a == IF absolute THEN Wait(0, 0, FALSE, timeout)
             ELSE IF clockFails THEN Wait(0, 0, FALSE, AMDGPU_TIMEOUT_INFINITE)
             ELSE Wait(timeout, now, TRUE, CalculateTimeout(timeout, now))
<1>2. a \in WaitArgs
  BY WaitTyped
<1>3. a.finite => a = Wait(timeout, now, TRUE, CalculateTimeout(timeout, now))
  BY DEF Wait
<1>4. args' = [args EXCEPT ![t] = a]
  BY <1>1
<1> HIDE DEF a
<1> QED
  BY <1>2, <1>3, <1>4

(* Calls and waits that begin or end. *)
LEMMA FilesWaits ==
  ASSUME FilesInvariant, NEW t \in Threads
  PROVE  /\ CallReturns(t) => FilesInvariant'
         /\ \A timeout \in Timeouts, absolute \in BOOLEAN :
               QueryFenceStatus(t, timeout, absolute) => FilesInvariant'
         /\ WaitSignalled(t) => FilesInvariant'
         /\ WaitTimesOut(t) => FilesInvariant'
<1>1. CsTypeOK /\ CallTyped(csPc[t], args[t])
  BY DEF FilesInvariant, CsTypeOK
<1>2. CallTyped("idle", NoArgs)
  BY DEF CallTyped
<1>3. ASSUME CallReturns(t) PROVE FilesInvariant'
  BY <1>2, <1>3, FilesOutside DEF CallReturns, Go, Temporaries
<1>4. ASSUME NEW timeout \in Timeouts, NEW absolute \in BOOLEAN,
             QueryFenceStatus(t, timeout, absolute)
      PROVE  FilesInvariant'
  <2>1. PICK a \in WaitArgs : args' = [args EXCEPT ![t] = a]
    BY <1>1, <1>4, QueryWaits
  <2>2. CallTyped("waiting", a)
    BY DEF CallTyped, WaitLabels
  <2>3. /\ csPc' = [csPc EXCEPT ![t] = "waiting"] /\ t \notin Temporaries
        /\ live' = live /\ points' = points /\ files' = files /\ held' = held /\ now' = now
    BY <1>4 DEF QueryFenceStatus, Go, Temporaries
  <2> QED
    BY <2>1, <2>2, <2>3, FilesOutside DEF WaitLabels
<1>5. ASSUME WaitSignalled(t) PROVE FilesInvariant'
  BY <1>2, <1>5, FilesOutside DEF WaitSignalled, Go, Temporaries
<1>6. ASSUME WaitTimesOut(t) PROVE FilesInvariant'
  <2>1. /\ csPc[t] = "waiting" /\ csPc' = [csPc EXCEPT ![t] = "busy"] /\ t \notin Temporaries
        /\ live' = live /\ points' = points /\ files' = files /\ held' = held /\ now' = now
        /\ args' = args
    BY <1>6 DEF WaitTimesOut, Go, Temporaries
  <2>2. CallTyped("busy", args[t]) /\ args' = [args EXCEPT ![t] = args[t]]
    BY <2>1, <1>1 DEF CallTyped, WaitLabels, FileLabels, CsTypeOK
  <2> QED
    BY <2>1, <2>2, FilesOutside DEF WaitLabels
<1> QED
  BY <1>3, <1>4, <1>5, <1>6

(* A tick, or no step at all.                                              *)
LEMMA FilesTick ==
  ASSUME FilesInvariant, now' \in Times, UNCHANGED <<live, points, files, held, csPc, args>>
  PROVE  FilesInvariant'
<1>1. CsTypeOK'
  BY DEF FilesInvariant, CsTypeOK
<1>2. TemporariesAccounted'
  BY DEF FilesInvariant, TemporariesAccounted, Temporaries
<1>3. \A u \in Threads : Running(u) => args[u].syncobj \in held' /\ Untouched(u)
  BY DEF FilesInvariant, CallsApart, Untouched, PointOf, PayloadOf
<1> QED
  BY <1>1, <1>2, <1>3, FilesKept

(* Nothing has been opened yet.                                            *)
LEMMA FilesInit == CsInit => FilesInvariant
<1> SUFFICES ASSUME CsInit PROVE FilesInvariant
  OBVIOUS
<1>1. CsTypeOK
  BY CsInitTypes
<1>2. live = {} /\ held = {} /\ \A t \in Threads : csPc[t] = "idle"
  BY DEF CsInit
<1>3. Temporaries = {} /\ \A t \in Threads : ~Running(t)
  BY <1>2 DEF Temporaries, Running, FileLabels
<1>4. TemporariesAccounted
  BY <1>2, <1>3 DEF TemporariesAccounted
<1>5. CallsApart /\ \A t \in Threads : CallSound(t)
  BY <1>2, <1>3 DEF CallsApart, CallSound
<1> QED
  BY <1>1, <1>4, <1>5 DEF FilesInvariant

(* The clock is a word.                                                    *)
LEMMA TickTimes ==
  ASSUME CsTypeOK, Tick
  PROVE  now' \in Times /\ now' = now + 1 /\ UNCHANGED <<live, points, files, held, csPc, args>>
  BY Words DEF Tick, CsTypeOK, Times

(* Every step keeps the calls sound.                                       *)
LEMMA FilesNext == FilesInvariant /\ [CsNext]_csVars => FilesInvariant'
<1> SUFFICES ASSUME FilesInvariant, [CsNext]_csVars PROVE FilesInvariant'
  OBVIOUS
<1>1. CASE UNCHANGED csVars
  <2>1. UNCHANGED <<live, points, files, held, csPc, args>> /\ now' = now
    BY <1>1 DEF csVars
  <2> QED
    BY <2>1, FilesTick DEF FilesInvariant, CsTypeOK
<1>2. CASE Tick
  BY <1>2, TickTimes, FilesTick DEF FilesInvariant
<1>3. ASSUME NEW t \in Threads, CsThread(t) PROVE FilesInvariant'
  BY <1>3, FilesCreate, FilesDestroy, FilesSetPoint, FilesReset, FilesCloseFile, FilesFileCall,
     FilesPointCall, FilesFill, FilesEmpty, FilesDestroyBinary, FilesWaits DEF CsThread
<1> QED
  BY <1>1, <1>2, <1>3 DEF CsNext

(* A temporary syncobj lives exactly as long as the call that created it,  *)
(* on every path of every call of any number of threads.                   *)
THEOREM NoTemporaryLeaks == Spec => []TemporariesAccounted
<1>1. Init => FilesInvariant
  BY FilesInit DEF Init
<1>2. FilesInvariant /\ [Next]_vars => FilesInvariant'
  BY FilesNext, SessionSteps
<1>3. FilesInvariant => TemporariesAccounted
  BY DEF FilesInvariant
<1> QED
  BY <1>1, <1>2, <1>3, PTL DEF Spec

(* A call that succeeds leaves the same fence in the file and at the point, *)
(* whatever other threads do between its requests.                         *)
THEOREM SyncFilesFaithful == Spec => []FilesFaithful
<1>1. Init => FilesInvariant
  BY FilesInit DEF Init
<1>2. FilesInvariant /\ [Next]_vars => FilesInvariant'
  BY FilesNext, SessionSteps
<1>3. FilesInvariant => FilesFaithful
  BY DEF FilesInvariant, FilesFaithful, CallSound, FileOf, PointOf
<1> QED
  BY <1>1, <1>2, <1>3, PTL DEF Spec

-----------------------------------------------------------------------------
(* CsSync: timeouts.  A wait that came back busy has seen its deadline go  *)
(* by, and the deadline is what was calculated when the wait began.        *)

WaitSound(t) ==
    /\ csPc[t] \in WaitLabels /\ args[t].finite =>
          args[t].since <= now /\ args[t].deadline = CalculateTimeout(args[t].timeout, args[t].since)
    /\ csPc[t] = "busy" => Due(t)

WaitsInvariant == FilesInvariant /\ \A t \in Threads : WaitSound(t)

(* A wait that goes on, or a thread that does not wait.                    *)
LEMMA WaitSoundKept ==
  ASSUME CsTypeOK, CsTypeOK', now' >= now, NEW u \in Threads, WaitSound(u),
         \/ csPc'[u] = csPc[u] /\ args'[u] = args[u]
         \/ csPc'[u] \notin WaitLabels
  PROVE  WaitSound(u)'
<1>1. CASE csPc'[u] \notin WaitLabels
  BY <1>1 DEF WaitSound, WaitLabels
<1>2. CASE csPc'[u] = csPc[u] /\ args'[u] = args[u] /\ csPc[u] \in WaitLabels
  <2>1. PICK a \in WaitArgs : a = args[u]
    BY <1>2, RunningTypes DEF CsTypeOK, CallTyped, WaitLabels, FileLabels
  <2>2. a.since \in Nat /\ a.deadline \in Nat /\ now \in Nat /\ now' \in Nat
    BY Words DEF CsTypeOK, WaitArgs, Times
  <2>3. csPc[u] = "busy" => Due(u)'
    BY <1>2, <2>1, <2>2 DEF WaitSound, Due
  <2>4. a.finite => a.since <= now' /\ a.deadline = CalculateTimeout(a.timeout, a.since)
    BY <1>2, <2>1, <2>2 DEF WaitSound
  <2>5. args'[u] = a
    BY <1>2, <2>1
  <2>6. csPc'[u] \in WaitLabels /\ args'[u].finite =>
           args'[u].since <= now' /\ args'[u].deadline = CalculateTimeout(args'[u].timeout, args'[u].since)
    BY <2>4, <2>5
  <2> QED
    BY <1>2, <2>3, <2>6 DEF WaitSound, CalculateTimeout, AMDGPU_TIMEOUT_INFINITE
<1> QED
  BY <1>1, <1>2

(* Calls other than the waits.                                             *)
LEMMA OthersWait ==
  ASSUME CsTypeOK, NEW t \in Threads, CsThread(t)
  PROVE  /\ now' = now
         /\ \A u \in Threads \ {t} : csPc'[u] = csPc[u] /\ args'[u] = args[u]
         /\ \/ csPc'[t] = csPc[t] /\ args'[t] = args[t]
            \/ csPc'[t] \notin WaitLabels
            \/ \E timeout \in Timeouts, absolute \in BOOLEAN : QueryFenceStatus(t, timeout, absolute)
            \/ WaitTimesOut(t)
<1> DEFINE Same == csPc' = csPc /\ args' = args /\ now' = now
           Moves(label) == csPc' = [csPc EXCEPT ![t] = label] /\ now' = now
           Kept == \A u \in Threads \ {t} : args'[u] = args[u]
<1>1. \A label : Moves(label) => csPc'[t] = label /\ \A u \in Threads \ {t} : csPc'[u] = csPc[u]
  BY DEF CsTypeOK
<1>2. \A x : args' = [args EXCEPT ![t] = x] => Kept
  BY DEF CsTypeOK
<1>3. /\ CreateSyncobj(t) => Same
      /\ \A s \in Syncobjs : DestroySyncobj(t, s) \/ ResetSyncobj(t, s) => Same
      /\ \A s \in Syncobjs, p \in Points, f \in Fences : SetPoint(t, s, p, f) => Same
      /\ \A f \in SyncFiles : CloseFile(t, f) => Same
      /\ \A op \in {"export", "import"}, s \in Syncobjs, f \in SyncFiles : FileCall(t, op, s, f) => Same
  BY DEF CreateSyncobj, DestroySyncobj, ResetSyncobj, SetPoint, CloseFile, FileCall
<1>4. ASSUME NEW op \in {"export", "import"}, NEW s \in Syncobjs, NEW p \in Points,
             NEW f \in SyncFiles, PointCall(t, op, s, p, f)
      PROVE  Moves("created") /\ Kept
  <2>1. \E x : args' = [args EXCEPT ![t] = x]
    BY <1>4 DEF PointCall
  <2> QED
    BY <2>1, <1>2, <1>4 DEF PointCall, Go
<1>5. FillBinary(t) => (Moves("filled") \/ Moves("out")) /\ Kept
  BY DEF FillBinary, Go
<1>6. EmptyBinary(t) => Moves("out") /\ Kept
  <2> SUFFICES ASSUME EmptyBinary(t) PROVE Moves("out") /\ Kept
    OBVIOUS
  <2>1. \E ok : args' = [args EXCEPT ![t] = [args[t] EXCEPT !.ok = ok]]
    BY DEF EmptyBinary
  <2>2. Kept
    BY <2>1, <1>2
  <2> QED
    BY <2>2 DEF EmptyBinary, Go
<1>7. DestroyBinary(t) => Moves("done") /\ Kept
  BY DEF DestroyBinary, Go
<1>8. /\ CallReturns(t) => Moves("idle") /\ args' = [args EXCEPT ![t] = NoArgs]
      /\ WaitSignalled(t) => Moves("idle") /\ args' = [args EXCEPT ![t] = NoArgs]
      /\ WaitTimesOut(t) => Moves("busy") /\ args' = args
  BY DEF CallReturns, WaitSignalled, WaitTimesOut, Go
<1>9. ASSUME NEW timeout \in Timeouts, NEW absolute \in BOOLEAN,
             QueryFenceStatus(t, timeout, absolute)
      PROVE  Moves("waiting") /\ Kept
  <2>1. \E x : args' = [args EXCEPT ![t] = x]
    BY <1>9, QueryWaits
  <2> QED
    BY <2>1, <1>2, <1>9 DEF QueryFenceStatus, Go
<1>10. \/ Same
       \/ (\E label \in FileLabels \cup {"idle"} : Moves(label)) /\ Kept
       \/ WaitTimesOut(t) /\ Moves("busy") /\ Kept
       \/ /\ \E timeout \in Timeouts, absolute \in BOOLEAN : QueryFenceStatus(t, timeout, absolute)
          /\ Moves("waiting") /\ Kept
  <2> HIDE DEF Same, Moves
  <2>1. {"created", "filled", "out", "done", "idle"} = FileLabels \cup {"idle"}
    BY DEF FileLabels
  <2>2. /\ CallReturns(t) => Moves("idle") /\ Kept
        /\ WaitSignalled(t) => Moves("idle") /\ Kept
        /\ WaitTimesOut(t) => Moves("busy") /\ Kept
    BY <1>2, <1>8
  <2> HIDE DEF Kept
  <2> QED
    BY <1>3, <1>4, <1>5, <1>6, <1>7, <1>9, <2>1, <2>2 DEF CsThread
<1>11. \A label \in FileLabels \cup {"idle"} : label \notin WaitLabels
  BY DEF FileLabels, WaitLabels
<1> QED
  BY <1>1, <1>10, <1>11

(* Every step keeps the deadlines.                                         *)
LEMMA WaitsNext == WaitsInvariant /\ [CsNext]_csVars => WaitsInvariant'
<1> SUFFICES ASSUME WaitsInvariant, [CsNext]_csVars
             PROVE  FilesInvariant' /\ \A u \in Threads : WaitSound(u)'
  BY DEF WaitsInvariant
<1>1. FilesInvariant /\ FilesInvariant' /\ CsTypeOK /\ CsTypeOK' /\ \A u \in Threads : WaitSound(u)
  BY FilesNext DEF WaitsInvariant, FilesInvariant
<1>2. now \in Nat /\ now' \in Nat
  BY <1>1, Words DEF CsTypeOK, Times
<1>3. CASE UNCHANGED csVars
  <2>1. csPc' = csPc /\ args' = args /\ now' = now
    BY <1>3 DEF csVars
  <2> QED
    BY <2>1, <1>1, <1>2, WaitSoundKept
<1>4. CASE Tick
  <2>1. csPc' = csPc /\ args' = args /\ now' = now + 1
    BY <1>1, <1>4, TickTimes
  <2>2. now' >= now
    BY <2>1, <1>2
  <2> QED
    BY <2>1, <2>2, <1>1, WaitSoundKept
<1>5. ASSUME NEW t \in Threads, CsThread(t), NEW u \in Threads PROVE WaitSound(u)'
  <2>1. now' = now /\ now' >= now
    BY <1>1, <1>2, <1>5, OthersWait
  <2>2. CASE \/ csPc'[u] = csPc[u] /\ args'[u] = args[u]
             \/ csPc'[u] \notin WaitLabels
    BY <2>1, <2>2, <1>1, WaitSoundKept
  <2>3. ASSUME u = t, NEW timeout \in Timeouts, NEW absolute \in BOOLEAN,
               QueryFenceStatus(t, timeout, absolute)
        PROVE  WaitSound(u)'
    <3>1. PICK a \in WaitArgs :
             /\ args' = [args EXCEPT ![t] = a]
             /\ a.finite => a = Wait(timeout, now, TRUE, CalculateTimeout(timeout, now))
      BY <1>1, <2>3, QueryWaits
    <3>2. csPc'[t] = "waiting" /\ args'[t] = a
      BY <3>1, <2>3, <1>1 DEF QueryFenceStatus, Go, CsTypeOK
    <3>3. a.finite => a.since = now /\ a.timeout = timeout
                      /\ a.deadline = CalculateTimeout(a.timeout, a.since)
      BY <3>1 DEF Wait
    <3>4. csPc'[t] \in WaitLabels /\ args'[t].finite =>
             args'[t].since <= now' /\ args'[t].deadline = CalculateTimeout(args'[t].timeout, args'[t].since)
      BY <3>2, <3>3, <2>1, <1>2
    <3> QED
      BY <3>2, <3>4, <2>3 DEF WaitSound, CalculateTimeout, AMDGPU_TIMEOUT_INFINITE
  <2>4. ASSUME u = t, WaitTimesOut(t) PROVE WaitSound(u)'
    <3>1. /\ csPc[t] = "waiting" /\ Due(t) /\ args' = args /\ csPc'[t] = "busy"
      BY <2>4, <1>1 DEF WaitTimesOut, Go, CsTypeOK
    <3>2. Due(t)'
      BY <3>1, <2>1 DEF Due
    <3>3. csPc'[t] \in WaitLabels /\ args'[t].finite =>
             args'[t].since <= now' /\ args'[t].deadline = CalculateTimeout(args'[t].timeout, args'[t].since)
      BY <3>1, <2>1, <1>1 DEF WaitSound, WaitLabels
    <3> QED
      BY <3>2, <3>3, <2>4 DEF WaitSound, CalculateTimeout, AMDGPU_TIMEOUT_INFINITE
  <2> QED
    BY <2>2, <2>3, <2>4, <1>1, <1>5, OthersWait
<1> QED
  BY <1>1, <1>3, <1>4, <1>5 DEF CsNext

(* Nobody waits yet.                                                       *)
LEMMA WaitsInit == CsInit => WaitsInvariant
  BY FilesInit DEF CsInit, WaitsInvariant, WaitSound, WaitLabels

(* A wait comes back busy only after the time its caller asked for, for    *)
(* any timeout and any moment it may begin.                                *)
THEOREM WaitsLastLongEnough == Spec => []TimesOutInTime
<1>1. Init => WaitsInvariant
  BY WaitsInit DEF Init
<1>2. WaitsInvariant /\ [Next]_vars => WaitsInvariant'
  BY WaitsNext, SessionSteps
<1>3. ASSUME WaitsInvariant PROVE TimesOutInTime
  <2> SUFFICES ASSUME NEW t \in Threads, csPc[t] = "busy", args[t].finite
               PROVE  now >= args[t].since + args[t].timeout
    BY DEF TimesOutInTime
  <2>1. CsTypeOK /\ WaitSound(t)
    BY <1>3 DEF WaitsInvariant, FilesInvariant
  <2>2. PICK a \in WaitArgs : a = args[t]
    BY <2>1 DEF CsTypeOK, CallTyped, FileLabels
  <2>3. a.timeout \in Times /\ a.since \in Times /\ now \in Nat /\ Times \subseteq Nat
    BY <2>1, Words DEF CsTypeOK, WaitArgs, Times
  <2>4. a.deadline # AMDGPU_TIMEOUT_INFINITE /\ now >= a.deadline
    BY <2>1, <2>2 DEF WaitSound, Due
  <2>5. a.deadline = CalculateTimeout(a.timeout, a.since)
    BY <2>1, <2>2 DEF WaitSound, WaitLabels
  <2>6. a.deadline = a.timeout + a.since
    BY <2>3, <2>4, <2>5, TimeoutSum
  <2>7. PICK since \in Nat, timeout \in Nat : since = a.since /\ timeout = a.timeout
    BY <2>3
  <2>8. now >= since + timeout
    BY <2>3, <2>4, <2>6, <2>7
  <2> QED
    BY <2>2, <2>7, <2>8
<1> QED
  BY <1>1, <1>2, <1>3, PTL DEF Spec

-----------------------------------------------------------------------------
(* DeviceEnum.  DevicesAccounted is not inductive: an entry is listed once *)
(* because the loop has not read it yet (ListSound), and what is freed     *)
(* with the array is not what was found (FoundSound).                      *)

(* What a name says of the bus.                                            *)
InfoOf(e) == [slot |-> PciOf[e].slot, func |-> 0]

EnumTypeOK ==
    /\ unread \subseteq Entries
    /\ devices \in [Slots -> Device \cup {NoDevice}]
    /\ deviceCnt \in 0 .. MaxDevices
    /\ found \in Device \cup Path \cup {NoDevice}

ListSound ==
    /\ \A i \in Slots : devices[i] # NoDevice <=> i <= deviceCnt
    /\ \A i \in 1 .. deviceCnt :
          /\ devices[i].copy = "listed"
          /\ devices[i].businfo = InfoOf(devices[i].node)
          /\ enumPc = "listing" => devices[i].node \notin unread
    /\ \A i, j \in 1 .. deviceCnt : i # j => devices[i].node # devices[j].node

FoundSound ==
    /\ enumPc = "start" => deviceCnt = 0
    /\ enumPc # "found" => found = NoDevice
    /\ enumPc \in {"finding", "found"} => \E i \in 1 .. deviceCnt : devices[i].node = node
    /\ found \in Device => found.copy = "found" /\ found.businfo = InfoOf(found.node)
    /\ found \in Path => found.path = node

HeapSound == heap = {devices[i] : i \in 1 .. deviceCnt} \cup ({found} \ {NoDevice})

EnumInvariant == EnumTypeOK /\ ListSound /\ FoundSound /\ HeapSound

(* What the constants are.                                                 *)
LEMMA Names ==
  /\ MaxDevices \in Nat /\ Slots = 1 .. MaxDevices
  /\ NoDevice \notin Device /\ NoDevice \notin Path
  /\ \A d \in Device : d \notin Path
  /\ \A e \in Entries : [path |-> e] \in Path
<1>1. \A d \in Device : d \notin Path
  <2>1. \A d \in Device : DOMAIN d = {"node", "businfo", "copy"}
    BY DEF Device
  <2>2. \A d \in Path : DOMAIN d = {"path"}
    BY DEF Path
  <2> QED
    BY <2>1, <2>2
<1> QED
  BY <1>1, DeviceEnumAssumption, NoDeviceAssumption DEF Slots, Path

(* A device describes the function its entry is named after, but for the   *)
(* number of the function.                                                 *)
LEMMA DeviceFromEntry ==
  ASSUME NEW e \in Entries, NEW copy \in {"listed", "found"},
         NEW d \in drmGetDeviceInt(e, copy), d # NoDevice
  PROVE  d \in Device /\ d.node = e /\ d.copy = copy /\ d.businfo = InfoOf(e)
<1>1. PciFunctionOf(e) # NoDevice /\ d \in drmDeviceAlloc(e, PciFunctionOf(e), copy)
  BY DEF drmGetDeviceInt
<1>2. PciOf[e] # NoDevice /\ PciFunctionOf(e) = InfoOf(e)
  BY <1>1 DEF PciFunctionOf, ParseDevPciAdr, InfoOf
<1>3. InfoOf(e) \in PciFunctions
  BY <1>2, DeviceEnumAssumption DEF InfoOf, PciFunctions
<1>4. d = [node |-> e, businfo |-> InfoOf(e), copy |-> copy]
  BY <1>1, <1>2 DEF drmDeviceAlloc
<1> HIDE DEF InfoOf
<1> QED
  BY <1>3, <1>4 DEF Device

(* Nothing is listed yet.                                                  *)
LEMMA EnumInitSound == EnumInit => EnumInvariant
<1> SUFFICES ASSUME EnumInit PROVE EnumInvariant
  OBVIOUS
<1>1. /\ unread = {} /\ devices \in [Slots -> Device \cup {NoDevice}]
      /\ deviceCnt = 0 /\ found = NoDevice /\ heap = {} /\ enumPc = "start"
      /\ \A i \in Slots : devices[i] = NoDevice
  BY DEF EnumInit
<1>2. EnumTypeOK
  BY <1>1, Names DEF EnumTypeOK
<1>3. ListSound
  BY <1>1, Names DEF ListSound
<1>4. FoundSound
  BY <1>1, Names DEF FoundSound
<1>5. HeapSound
  BY <1>1 DEF HeapSound
<1> QED
  BY <1>2, <1>3, <1>4, <1>5 DEF EnumInvariant

(* Steps that change neither the array nor what was found.                 *)
LEMMA EnumKept ==
  ASSUME EnumInvariant, UNCHANGED <<devices, deviceCnt, found, heap>>, unread' \subseteq Entries,
         enumPc' = "listing" => \A i \in 1 .. deviceCnt : devices[i].node \notin unread',
         enumPc' # "start", enumPc' # "found", found = NoDevice,
         enumPc' = "finding" => \E i \in 1 .. deviceCnt : devices[i].node = node'
  PROVE  EnumInvariant'
<1>1. devices' = devices /\ deviceCnt' = deviceCnt /\ found' = found /\ heap' = heap
  OBVIOUS
<1>2. EnumTypeOK'
  BY <1>1 DEF EnumInvariant, EnumTypeOK
<1>3. ListSound'
  BY <1>1 DEF EnumInvariant, ListSound
<1>4. FoundSound'
  BY <1>1, Names DEF EnumInvariant, FoundSound
<1>5. HeapSound'
  BY <1>1 DEF EnumInvariant, HeapSound
<1> QED
  BY <1>2, <1>3, <1>4, <1>5 DEF EnumInvariant

(* A slot is filled with the device of an entry that was not read before,  *)
(* or stays empty.                                                         *)
LEMMA EnumListEntry ==
  ASSUME EnumInvariant, NEW e \in Entries, ListEntry(e)
  PROVE  EnumInvariant'
<1>1. /\ enumPc = "listing" /\ deviceCnt < MaxDevices /\ e \in unread
      /\ unread' = unread \ {e} /\ found' = found /\ enumPc' = enumPc
  BY DEF ListEntry
<1>2. PICK d \in drmGetDeviceInt(e, "listed") :
         /\ devices' = [devices EXCEPT ![deviceCnt + 1] = d]
         /\ heap' = heap \cup ({d} \ {NoDevice})
         /\ deviceCnt' = IF d = NoDevice THEN deviceCnt ELSE deviceCnt + 1
  BY DEF ListEntry
<1>3. EnumTypeOK /\ ListSound /\ FoundSound /\ HeapSound /\ found = NoDevice
  BY <1>1 DEF EnumInvariant, FoundSound
<1>4. /\ deviceCnt \in Nat /\ MaxDevices \in Nat /\ Slots = 1 .. MaxDevices
      /\ deviceCnt + 1 \in Slots
  BY <1>1, <1>3, Names DEF EnumTypeOK
<1>5. FoundSound'
  BY <1>1, <1>3, Names DEF FoundSound
<1>6. CASE d = NoDevice
  <2>1. devices[deviceCnt + 1] = NoDevice
    BY <1>3, <1>4 DEF ListSound
  <2>2. devices' = devices
    BY <2>1, <1>2, <1>3, <1>6 DEF EnumTypeOK
  <2>3. deviceCnt' = deviceCnt /\ heap' = heap
    BY <1>2, <1>6
  <2>4. UNCHANGED <<devices, deviceCnt, found, heap>>
    BY <2>2, <2>3, <1>1
  <2>5. \A i \in 1 .. deviceCnt : devices[i].node \notin unread'
    BY <1>1, <1>3 DEF ListSound
  <2>6. unread' \subseteq Entries
    BY <1>1, <1>3 DEF EnumTypeOK
  <2> QED
    BY <2>4, <2>5, <2>6, <1>1, <1>3, EnumKept
<1>7. CASE d # NoDevice
  <2>1. d \in Device /\ d.node = e /\ d.copy = "listed" /\ d.businfo = InfoOf(e)
    BY <1>2, <1>7, DeviceFromEntry
  <2>2. /\ devices' \in [Slots -> Device \cup {NoDevice}]
        /\ devices'[deviceCnt + 1] = d
        /\ \A i \in Slots \ {deviceCnt + 1} : devices'[i] = devices[i]
    BY <2>1, <1>2, <1>3, <1>4 DEF EnumTypeOK
  <2>3. deviceCnt' = deviceCnt + 1 /\ heap' = heap \cup {d}
    BY <1>2, <1>7
  <2>4. \A i \in 1 .. deviceCnt : i \in Slots \ {deviceCnt + 1}
    BY <1>1, <1>4
  <2>5. \A i \in 1 .. deviceCnt' : i \in 1 .. deviceCnt \/ i = deviceCnt + 1
    BY <2>3, <1>4
  <2>6. EnumTypeOK'
    BY <2>2, <2>3, <1>1, <1>3, <1>4 DEF EnumTypeOK
  <2>7. ListSound'
    <3>1. \A i \in Slots : devices'[i] # NoDevice <=> i <= deviceCnt'
      <4> SUFFICES ASSUME NEW i \in Slots PROVE devices'[i] # NoDevice <=> i <= deviceCnt'
        OBVIOUS
      <4>1. CASE i = deviceCnt + 1
        BY <4>1, <2>2, <2>3, <1>4, <1>7
      <4>2. CASE i # deviceCnt + 1
        BY <4>2, <2>2, <2>3, <1>3, <1>4 DEF ListSound
      <4> QED
        BY <4>1, <4>2
    <3>2. \A i \in 1 .. deviceCnt : devices[i].node \notin unread /\ devices[i].node # e
      BY <1>1, <1>3 DEF ListSound
    <3>3. \A i \in 1 .. deviceCnt' :
             /\ devices'[i].copy = "listed"
             /\ devices'[i].businfo = InfoOf(devices'[i].node)
             /\ devices'[i].node \notin unread'
      BY <3>2, <2>1, <2>2, <2>4, <2>5, <1>1, <1>3 DEF ListSound
    <3>4. \A i, j \in 1 .. deviceCnt' : i # j => devices'[i].node # devices'[j].node
      BY <3>2, <2>1, <2>2, <2>4, <2>5, <1>3 DEF ListSound
    <3> QED
      BY <3>1, <3>3, <3>4 DEF ListSound, InfoOf
  <2>8. HeapSound'
    <3>1. {devices'[i] : i \in 1 .. deviceCnt'} = {devices[i] : i \in 1 .. deviceCnt} \cup {d}
      <4>1. \A i \in 1 .. deviceCnt : devices'[i] = devices[i] /\ i \in 1 .. deviceCnt'
        BY <2>2, <2>3, <2>4, <1>4
      <4>2. deviceCnt + 1 \in 1 .. deviceCnt'
        BY <2>3, <1>4
      <4> QED
        BY <4>1, <4>2, <2>2, <2>5
    <3> QED
      BY <3>1, <2>3, <1>1, <1>3 DEF HeapSound
  <2> QED
    BY <2>6, <2>7, <2>8, <1>5 DEF EnumInvariant
<1> QED
  BY <1>6, <1>7

(* The device of the open node, its name, or nothing.                      *)
LEMMA EnumFound ==
  ASSUME EnumInvariant, enumPc = "finding", enumPc' = "found",
         UNCHANGED <<devices, deviceCnt, node>>, unread' \subseteq Entries, NEW x, found' = x,
         heap' = heap \cup ({x} \ {NoDevice}),
         \/ x = NoDevice
         \/ x \in Path /\ x.path = node
         \/ x \in Device /\ x.copy = "found" /\ x.businfo = InfoOf(x.node)
  PROVE  EnumInvariant'
<1>1. devices' = devices /\ deviceCnt' = deviceCnt /\ node' = node
  OBVIOUS
<1>2. EnumTypeOK /\ ListSound /\ FoundSound /\ HeapSound /\ found = NoDevice
  BY DEF EnumInvariant, FoundSound
<1>3. EnumTypeOK'
  BY <1>1, <1>2 DEF EnumTypeOK
<1>4. ListSound'
  BY <1>1, <1>2 DEF ListSound
<1>5. FoundSound'
  <2>1. \E i \in 1 .. deviceCnt : devices[i].node = node
    BY <1>2 DEF FoundSound
  <2>2. found' \in Device => found'.copy = "found" /\ found'.businfo = InfoOf(found'.node)
    BY Names
  <2>3. found' \in Path => found'.path = node'
    BY <1>1, Names
  <2> QED
    BY <2>1, <2>2, <2>3, <1>1 DEF FoundSound, InfoOf
<1>6. HeapSound'
  BY <1>1, <1>2 DEF HeapSound
<1> QED
  BY <1>3, <1>4, <1>5, <1>6 DEF EnumInvariant

(* The searches stop at the entry of the open node, or give up.            *)
LEMMA EnumFind ==
  ASSUME EnumInvariant, NEW e \in Entries, FindEntry(e) \/ NameEntry(e)
  PROVE  EnumInvariant'
<1>1. /\ enumPc = "finding" /\ unread' = unread \ {e}
      /\ devices' = devices /\ deviceCnt' = deviceCnt /\ node' = node
  BY DEF FindEntry, NameEntry
<1>2. EnumTypeOK /\ FoundSound /\ found = NoDevice
  BY <1>1 DEF EnumInvariant, FoundSound
<1>3. unread' \subseteq Entries
  BY <1>1, <1>2 DEF EnumTypeOK
<1>4. CASE enumPc' \in {"listed", "finding"} /\ UNCHANGED <<found, heap>>
  <2>1. \E i \in 1 .. deviceCnt : devices[i].node = node'
    BY <1>1, <1>2 DEF FoundSound
  <2> QED
    BY <2>1, <1>1, <1>2, <1>3, <1>4, EnumKept
<1>5. ASSUME NEW x, found' = x, heap' = heap \cup ({x} \ {NoDevice}), enumPc' = "found",
             e = node, x = [path |-> e] \/ x = NoDevice \/ x \in drmGetDeviceInt(e, "found")
      PROVE  EnumInvariant'
  <2>1. \/ x = NoDevice
        \/ x \in Path /\ x.path = node
        \/ x \in Device /\ x.copy = "found" /\ x.businfo = InfoOf(x.node)
    BY <1>5, Names, DeviceFromEntry
  <2> QED
    BY <2>1, <1>1, <1>3, <1>5, EnumFound
<1>6. \/ enumPc' \in {"listed", "finding"} /\ UNCHANGED <<found, heap>>
      \/ \E x : /\ found' = x /\ heap' = heap \cup ({x} \ {NoDevice}) /\ enumPc' = "found"
                /\ e = node /\ (x = [path |-> e] \/ x = NoDevice \/ x \in drmGetDeviceInt(e, "found"))
  <2>1. CASE FindEntry(e)
    BY <2>1 DEF FindEntry
  <2>2. CASE NameEntry(e)
    BY <2>2 DEF NameEntry
  <2> QED
    BY <2>1, <2>2
<1> QED
  BY <1>4, <1>5, <1>6

(* What was found is freed, and no listed device with it.                  *)
LEMMA EnumFreeFound ==
  ASSUME EnumInvariant, FreeFound
  PROVE  EnumInvariant'
<1>1. /\ enumPc = "found" /\ heap' = heap \ {found} /\ found' = NoDevice /\ unread' = {}
      /\ enumPc' = "listed" /\ devices' = devices /\ deviceCnt' = deviceCnt
  BY DEF FreeFound
<1>2. EnumTypeOK /\ ListSound /\ FoundSound /\ HeapSound
  BY DEF EnumInvariant
<1>3. \A i \in 1 .. deviceCnt : devices[i] \in Device /\ devices[i].copy = "listed"
  <2>1. \A i \in 1 .. deviceCnt : i \in Slots /\ i <= deviceCnt
    BY <1>2, Names DEF EnumTypeOK
  <2> QED
    BY <2>1, <1>2 DEF EnumTypeOK, ListSound
<1>4. \A i \in 1 .. deviceCnt : devices[i] # found
  BY <1>2, <1>3, Names DEF FoundSound, EnumTypeOK
<1>5. \A i \in 1 .. deviceCnt : devices[i] # NoDevice
  BY <1>3, Names
<1>6. HeapSound'
  BY <1>1, <1>2, <1>4, <1>5 DEF HeapSound
<1>7. EnumTypeOK'
  BY <1>1, <1>2 DEF EnumTypeOK
<1>8. ListSound'
  BY <1>1, <1>2 DEF ListSound
<1>9. FoundSound'
  BY <1>1, Names DEF FoundSound
<1> QED
  BY <1>6, <1>7, <1>8, <1>9 DEF EnumInvariant

(* The array is freed.                                                     *)
LEMMA EnumFreeListed ==
  ASSUME EnumInvariant, FreeListed
  PROVE  EnumInvariant'
<1>1. /\ enumPc = "listed"
      /\ heap' = heap \ {devices[i] : i \in 1 .. deviceCnt}
      /\ devices' = [i \in Slots |-> IF i <= deviceCnt THEN NoDevice ELSE devices[i]]
      /\ deviceCnt' = 0 /\ unread' = {} /\ enumPc' = "freed" /\ found' = found
  BY DEF FreeListed
<1>2. EnumTypeOK /\ ListSound /\ FoundSound /\ HeapSound /\ found = NoDevice
  BY <1>1 DEF EnumInvariant, FoundSound
<1>3. \A i \in Slots : devices'[i] = NoDevice
  <2> SUFFICES ASSUME NEW i \in Slots PROVE devices'[i] = NoDevice
    OBVIOUS
  <2>1. devices'[i] = IF i <= deviceCnt THEN NoDevice ELSE devices[i]
    BY <1>1
  <2>2. ~(i <= deviceCnt) => devices[i] = NoDevice
    BY <1>2 DEF ListSound
  <2> QED
    BY <2>1, <2>2
<1>4. EnumTypeOK'
  BY <1>1, <1>2, Names DEF EnumTypeOK
<1>5. ListSound'
  BY <1>1, <1>3, Names DEF ListSound
<1>6. FoundSound'
  BY <1>1, <1>2, Names DEF FoundSound
<1>7. HeapSound'
  <2>1. {devices'[i] : i \in 1 .. deviceCnt'} = {}
    BY <1>1
  <2>2. heap' = {}
    BY <1>1, <1>2 DEF HeapSound
  <2> QED
    BY <2>1, <2>2, <1>1, <1>2 DEF HeapSound
<1> QED
  BY <1>4, <1>5, <1>6, <1>7 DEF EnumInvariant

(* Every step keeps the array, the count and the heap together.            *)
LEMMA EnumNextSound == EnumInvariant /\ [EnumNext]_enumVars => EnumInvariant'
<1> SUFFICES ASSUME EnumInvariant, [EnumNext]_enumVars PROVE EnumInvariant'
  OBVIOUS
<1>1. EnumTypeOK /\ ListSound /\ FoundSound
  BY DEF EnumInvariant
<1>2. CASE UNCHANGED enumVars
  <2>1. /\ unread' = unread /\ devices' = devices /\ deviceCnt' = deviceCnt /\ found' = found
        /\ node' = node /\ heap' = heap /\ enumPc' = enumPc
    BY <1>2 DEF enumVars
  <2>2. EnumTypeOK'
    BY <2>1, <1>1 DEF EnumTypeOK
  <2>3. ListSound'
    BY <2>1, <1>1 DEF ListSound
  <2>4. FoundSound'
    BY <2>1, <1>1 DEF FoundSound
  <2>5. HeapSound'
    BY <2>1 DEF EnumInvariant, HeapSound
  <2> QED
    BY <2>2, <2>3, <2>4, <2>5 DEF EnumInvariant
<1>3. CASE ListOpen
  <2>1. /\ enumPc = "start" /\ deviceCnt = 0 /\ deviceCnt' = 0 /\ enumPc' = "listing"
        /\ unread' \subseteq Entries /\ found = NoDevice
        /\ UNCHANGED <<devices, deviceCnt, found, heap>>
    BY <1>1, <1>3 DEF ListOpen, FoundSound
  <2> QED
    BY <2>1, EnumKept
<1>4. CASE ListReturn
  <2>1. /\ enumPc' = "listed" /\ unread' = {} /\ found = NoDevice
        /\ UNCHANGED <<devices, deviceCnt, found, heap>>
    BY <1>1, <1>4 DEF ListReturn, FoundSound
  <2> QED
    BY <2>1, EnumKept
<1>5. ASSUME NEW i \in Slots, OpenNode(i) PROVE EnumInvariant'
  <2>1. /\ enumPc' = "finding" /\ unread' \subseteq Entries /\ found = NoDevice
        /\ node' = devices[i].node /\ i <= deviceCnt
        /\ UNCHANGED <<devices, deviceCnt, found, heap>>
    BY <1>1, <1>5 DEF OpenNode, FoundSound
  <2>2. i \in 1 .. deviceCnt
    BY <2>1, <1>1, Names DEF EnumTypeOK
  <2> QED
    BY <2>1, <2>2, EnumKept
<1>6. CASE FindNothing
  <2>1. /\ enumPc' = "listed" /\ unread' \subseteq Entries /\ found = NoDevice
        /\ UNCHANGED <<devices, deviceCnt, found, heap>>
    BY <1>1, <1>6 DEF FindNothing, FoundSound, EnumTypeOK
  <2> QED
    BY <2>1, EnumKept
<1> QED
  BY <1>2, <1>3, <1>4, <1>5, <1>6, EnumListEntry, EnumFind, EnumFreeFound, EnumFreeListed
     DEF EnumNext

(* Whatever fails and whatever is unplugged, the client can reach every    *)
(* device that was allocated, and each once, for any directory, any bus    *)
(* and any length of the array.                                            *)
THEOREM NoDeviceLeaks == Spec => []DevicesAccounted
<1>1. Init => EnumInvariant
  BY EnumInitSound DEF Init
<1>2. EnumInvariant /\ [Next]_vars => EnumInvariant'
  BY EnumNextSound, SessionSteps
<1>3. ASSUME EnumInvariant PROVE DevicesAccounted
  <2>1. EnumTypeOK /\ ListSound /\ HeapSound
    BY <1>3 DEF EnumInvariant
  <2>2. deviceCnt <= MaxDevices
    BY <2>1, Names DEF EnumTypeOK
  <2> QED
    BY <2>1, <2>2 DEF DevicesAccounted, ListSound, HeapSound
<1> QED
  BY <1>1, <1>2, <1>3, PTL DEF Spec

(* Two devices are equal exactly when their nodes name functions of one    *)
(* slot, and what is found for an open node is that of its device.         *)
THEOREM DevicesTellSlots == Spec => []DevicesIdentified
<1>1. Init => EnumInvariant
  BY EnumInitSound DEF Init
<1>2. EnumInvariant /\ [Next]_vars => EnumInvariant'
  BY EnumNextSound, SessionSteps
<1>3. ASSUME EnumInvariant PROVE DevicesIdentified
  <2>1. EnumTypeOK /\ ListSound /\ FoundSound /\ HeapSound
    BY <1>3 DEF EnumInvariant
  <2>2. found \in Path => \E i \in 1 .. deviceCnt : devices[i].node = found.path
    BY <2>1, Names DEF FoundSound
  <2>3. \A d \in heap \ Path : d # NoDevice /\ d.businfo = InfoOf(d.node)
    <3> SUFFICES ASSUME NEW d \in heap \ Path PROVE d # NoDevice /\ d.businfo = InfoOf(d.node)
      OBVIOUS
    <3>1. CASE \E i \in 1 .. deviceCnt : d = devices[i]
      <4>1. PICK i \in 1 .. deviceCnt : d = devices[i]
        BY <3>1
      <4>2. i \in Slots /\ i <= deviceCnt
        BY <2>1, Names DEF EnumTypeOK
      <4> QED
        BY <4>1, <4>2, <2>1 DEF ListSound
    <3>2. CASE d = found /\ found # NoDevice
      BY <3>2, <2>1 DEF FoundSound, EnumTypeOK
    <3> QED
      BY <3>1, <3>2, <2>1 DEF HeapSound
  <2>4. \A x, y : [slot |-> x, func |-> 0] = [slot |-> y, func |-> 0] <=> x = y
    <3>1. \A x : [slot |-> x, func |-> 0].slot = x
      OBVIOUS
    <3> QED
      BY <3>1
  <2>5. \A d \in heap \ Path : PciOf[d.node].slot = d.businfo.slot
    <3> SUFFICES ASSUME NEW d \in heap \ Path PROVE PciOf[d.node].slot = d.businfo.slot
      OBVIOUS
    <3>1. d.businfo = [slot |-> PciOf[d.node].slot, func |-> 0]
      BY <2>3 DEF InfoOf
    <3> QED
      BY <3>1
  <2>6. \A d, e \in heap \ Path :
           drmDevicesEqual(d, e) <=> PciOf[d.node].slot = PciOf[e.node].slot
    <3> SUFFICES ASSUME NEW d \in heap \ Path, NEW e \in heap \ Path
                 PROVE  drmDevicesEqual(d, e) <=> PciOf[d.node].slot = PciOf[e.node].slot
      OBVIOUS
    <3>1. /\ d # NoDevice /\ d.businfo = [slot |-> PciOf[d.node].slot, func |-> 0]
          /\ e # NoDevice /\ e.businfo = [slot |-> PciOf[e.node].slot, func |-> 0]
      BY <2>3 DEF InfoOf
    <3> QED
      BY <3>1, <2>4 DEF drmDevicesEqual
  <2> QED
    BY <2>2, <2>5, <2>6 DEF DevicesIdentified
<1> QED
  BY <1>1, <1>2, <1>3, PTL DEF Spec

-----------------------------------------------------------------------------
(* GpuInfo: the marketing name.  Up to the line that comes next the table  *)
(* has been blank, or has had a version and then no line that ends the     *)
(* search.                                                                 *)

Version(v) == file[v] # "blank" /\ \A i \in 1 .. v - 1 : file[i] = "blank"

NameSound ==
    /\ file \in Seq(LineKinds) /\ line \in Nat
    /\ probePc # "ready" => name = "none"
    /\ probePc = "version" => line >= 1 /\ \A i \in 1 .. line - 1 : file[i] = "blank"
    /\ probePc = "entries" =>
          \E v \in Nat \ {0} :
             /\ v < line /\ line <= Len(file) + 1 /\ Version(v)
             /\ \A i \in v + 1 .. line - 1 : file[i] \in {"blank", "other"}
    /\ NameFollowsTable

(* Nothing has been read yet.                                              *)
LEMMA NameInit == ProbeInit => NameSound
  BY DEF ProbeInit, NameSound, NameFollowsTable

(* The search has not found the GPU when it ends: no line before this one  *)
(* ended it, and this one, if there is one, is malformed.                  *)
LEMMA NotNamed ==
  ASSUME NameSound, probePc = "entries",
         line <= Len(file) => file[line] \notin {"blank", "other", "match"},
         NEW v \in 1 .. Len(file), NEW m \in 1 .. Len(file), v < m, file[m] = "match",
         Version(v), \A i \in v + 1 .. m - 1 : file[i] \in {"blank", "other"}
  PROVE  FALSE
<1>1. line \in Nat /\ Len(file) \in Nat
  BY DEF NameSound
<1>2. PICK w \in Nat \ {0} :
         /\ w < line /\ line <= Len(file) + 1 /\ Version(w)
         /\ \A i \in w + 1 .. line - 1 : file[i] \in {"blank", "other"}
  BY DEF NameSound
<1>3. v = w
  <2>1. ~(v < w)
    <3>1. v < w => v \in 1 .. w - 1
      BY <1>2
    <3> QED
      BY <3>1, <1>2 DEF Version
  <2>2. ~(w < v)
    <3>1. w < v => w \in 1 .. v - 1
      BY <1>2
    <3> QED
      BY <3>1, <1>2 DEF Version
  <2> QED
    BY <2>1, <2>2, <1>2
<1>4. ~(m < line)
  <2>1. m < line => m \in w + 1 .. line - 1
    BY <1>1, <1>2, <1>3
  <2> QED
    BY <2>1, <1>2
<1>5. ~(m = line)
  BY <1>1
<1>6. ~(line < m)
  <2>1. line < m => line \in v + 1 .. m - 1 /\ line <= Len(file)
    BY <1>1, <1>2, <1>3
  <2> QED
    BY <2>1
<1> QED
  BY <1>1, <1>4, <1>5, <1>6

(* A line of the table.                                                    *)
LEMMA NameNameLine ==
  ASSUME NameSound, NameLine
  PROVE  NameSound'
<1>1. PICK memory \in BOOLEAN :
         LET again == file[line] = "blank" \/ (memory /\ file[line] = "other")
         IN  /\ name' = IF again THEN name
                        ELSE IF ~memory THEN "no memory"
                        ELSE IF file[line] = "match" THEN "found" ELSE name
             /\ probePc' = IF again THEN "entries" ELSE "ready"
  BY DEF NameLine
<1>2. /\ probePc = "entries" /\ line <= Len(file) /\ line' = line + 1 /\ file' = file
      /\ name = "none" /\ file \in Seq(LineKinds) /\ line \in Nat /\ Len(file) \in Nat
  <2>1. probePc = "entries" /\ line <= Len(file) /\ line' = line + 1 /\ file' = file
    BY DEF NameLine
  <2>2. name = "none" /\ file \in Seq(LineKinds) /\ line \in Nat
    BY <2>1 DEF NameSound
  <2>3. Len(file) \in Nat
    BY <2>2
  <2> QED
    BY <2>1, <2>2, <2>3
<1>3. PICK v \in Nat \ {0} :
         /\ v < line /\ line <= Len(file) + 1 /\ Version(v)
         /\ \A i \in v + 1 .. line - 1 : file[i] \in {"blank", "other"}
  BY <1>2 DEF NameSound
<1>4. CASE file[line] = "blank" \/ (memory /\ file[line] = "other")
  <2>1. probePc' = "entries" /\ name' = "none"
    BY <1>1, <1>2, <1>4
  <2>2. v < line' /\ line' <= Len(file) + 1 /\ line' \in Nat
    BY <1>2, <1>3
  <2>3. \A i \in v + 1 .. line' - 1 : file[i] \in {"blank", "other"}
    <3>1. \A i \in v + 1 .. line' - 1 : i \in v + 1 .. line - 1 \/ i = line
      BY <1>2, <1>3
    <3> QED
      BY <3>1, <1>3, <1>4
  <2>4. Version(v)'
    BY <1>2, <1>3 DEF Version
  <2> QED
    BY <2>1, <2>2, <2>3, <2>4, <1>2, <1>3 DEF NameSound, NameFollowsTable
<1>5. CASE ~(file[line] = "blank" \/ (memory /\ file[line] = "other"))
  <2>1. /\ probePc' = "ready" /\ line' \in Nat
        /\ name' = IF ~memory THEN "no memory" ELSE IF file[line] = "match" THEN "found" ELSE "none"
    <3>1. ~(file[line] = "blank") /\ ~(memory /\ file[line] = "other")
      BY <1>5
    <3>2. line' \in Nat
      BY <1>2
    <3> QED
      BY <3>1, <3>2, <1>1, <1>2
  <2>2. NameFollowsTable'
    <3>1. CASE ~memory
      BY <3>1, <2>1 DEF NameFollowsTable
    <3>2. CASE memory /\ file[line] = "match"
      <4>1. v \in 1 .. Len(file) /\ line \in 1 .. Len(file)
        BY <1>2, <1>3
      <4> QED
        BY <4>1, <3>2, <2>1, <1>2, <1>3 DEF NameFollowsTable, Version
    <3>3. CASE memory /\ file[line] # "match"
      <4>1. \A u, m \in 1 .. Len(file) :
               ~(/\ u < m /\ file[m] = "match" /\ Version(u)
                 /\ \A i \in u + 1 .. m - 1 : file[i] \in {"blank", "other"})
        BY <3>3, <1>2, <1>5, NotNamed
      <4> QED
        BY <4>1, <3>3, <2>1, <1>2 DEF NameFollowsTable, Version
    <3> QED
      BY <3>1, <3>2, <3>3
  <2> QED
    BY <2>1, <2>2, <1>2 DEF NameSound
<1> QED
  BY <1>4, <1>5

(* The end of the table.                                                   *)
LEMMA NameEnd ==
  ASSUME NameSound, EndOfNames
  PROVE  NameSound'
<1>1. /\ probePc \in {"version", "entries"} /\ line > Len(file) /\ probePc' = "ready"
      /\ line' = line /\ file' = file /\ name' = "none"
      /\ file \in Seq(LineKinds) /\ line \in Nat /\ Len(file) \in Nat
  BY DEF EndOfNames, NameSound
<1>2. \A u, m \in 1 .. Len(file) :
         ~(/\ u < m /\ file[m] = "match" /\ Version(u)
           /\ \A i \in u + 1 .. m - 1 : file[i] \in {"blank", "other"})
  <2>1. CASE probePc = "version"
    <3>1. \A u \in 1 .. Len(file) : u \in 1 .. line - 1
      BY <1>1
    <3> QED
      BY <3>1, <2>1 DEF NameSound, Version
  <2>2. CASE probePc = "entries"
    BY <2>2, <1>1, NotNamed
  <2> QED
    BY <2>1, <2>2, <1>1
<1>3. NameFollowsTable'
  BY <1>1, <1>2 DEF NameFollowsTable, Version
<1> QED
  BY <1>1, <1>3 DEF NameSound

(* The version.                                                            *)
LEMMA NameVersionLine ==
  ASSUME NameSound, VersionLine
  PROVE  NameSound'
<1>1. /\ probePc = "version" /\ line <= Len(file) /\ line' = line + 1 /\ file' = file
      /\ probePc' = IF file[line] = "blank" THEN "version" ELSE "entries"
      /\ name' = "none" /\ file \in Seq(LineKinds) /\ line \in Nat /\ Len(file) \in Nat
      /\ line >= 1 /\ \A i \in 1 .. line - 1 : file[i] = "blank"
  BY DEF VersionLine, NameSound
<1>2. CASE file[line] = "blank"
  <2>1. \A i \in 1 .. line' - 1 : i \in 1 .. line - 1 \/ i = line
    BY <1>1
  <2>2. line' >= 1 /\ line' \in Nat /\ \A i \in 1 .. line' - 1 : file[i] = "blank"
    BY <2>1, <1>1, <1>2
  <2> QED
    BY <2>2, <1>1, <1>2 DEF NameSound, NameFollowsTable
<1>3. CASE file[line] # "blank"
  <2>1. PICK n \in Nat \ {0} : n = line
    BY <1>1
  <2>2. n < line' /\ line' <= Len(file') + 1 /\ line' \in Nat
    BY <2>1, <1>1
  <2>3. \A i \in n + 1 .. line' - 1 : file'[i] \in {"blank", "other"}
    BY <2>1, <1>1
  <2>4. Version(n)'
    BY <2>1, <1>1, <1>3 DEF Version
  <2>5. probePc' = "entries"
    BY <1>1, <1>3
  <2> QED
    BY <2>2, <2>3, <2>4, <2>5, <1>1 DEF NameSound, NameFollowsTable
<1> QED
  BY <1>2, <1>3

(* Every step keeps the name and the table together.                       *)
LEMMA NameNext == NameSound /\ [ProbeNext]_probeVars => NameSound'
<1> SUFFICES ASSUME NameSound, [ProbeNext]_probeVars PROVE NameSound'
  OBVIOUS
<1>1. CASE UNCHANGED probeVars
  <2>1. probePc' = probePc /\ file' = file /\ line' = line /\ name' = name
    BY <1>1 DEF probeVars
  <2>2. \A v : Version(v)' <=> Version(v)
    BY <2>1 DEF Version
  <2>3. NameFollowsTable'
    BY <2>1 DEF NameSound, NameFollowsTable
  <2>4. probePc' = "entries" =>
           \E v \in Nat \ {0} :
              /\ v < line' /\ line' <= Len(file') + 1 /\ Version(v)'
              /\ \A i \in v + 1 .. line' - 1 : file'[i] \in {"blank", "other"}
    BY <2>1, <2>2 DEF NameSound
  <2>5. /\ file' \in Seq(LineKinds) /\ line' \in Nat
        /\ probePc' # "ready" => name' = "none"
        /\ probePc' = "version" => line' >= 1 /\ \A i \in 1 .. line' - 1 : file'[i] = "blank"
    BY <2>1 DEF NameSound
  <2> QED
    BY <2>3, <2>4, <2>5 DEF NameSound
<1>2. ASSUME UNCHANGED <<file, line, name>>, probePc' \in {"asking", "failed", "names"},
             probePc # "ready"
      PROVE  NameSound'
  BY <1>2 DEF NameSound, NameFollowsTable
<1>3. ASSUME NEW driver \in {"accelerant", "stub"}, NEW family \in Families,
             NEW engines \in 1 .. MaxEngines, InitStart(driver, family, engines)
      PROVE  NameSound'
  <2>1. UNCHANGED <<file, line, name>> /\ probePc = "idle" /\ probePc' = "asking"
    BY <1>3 DEF InitStart
  <2> QED
    BY <2>1, <1>2
<1>4. CASE InitRequest
  <2>1. UNCHANGED <<file, line, name>> /\ probePc = "asking"
        /\ probePc' \in {"asking", "failed", "names"}
    BY <1>4 DEF InitRequest
  <2> QED
    BY <2>1, <1>2
<1>5. ASSUME NEW f \in NameTables, ReadNames(f) PROVE NameSound'
  <2>1. file' = f /\ f \in Seq(LineKinds) /\ line' = 1 /\ name' = "none" /\ probePc' = "version"
    BY <1>5, GpuInfoAssumption DEF ReadNames, NameSound
  <2>2. line' \in Nat /\ \A i \in 1 .. line' - 1 : FALSE
    BY <2>1
  <2>3. NameFollowsTable'
    BY <2>1 DEF NameFollowsTable
  <2> QED
    BY <2>1, <2>2, <2>3 DEF NameSound
<1>6. CASE InitReturn
  <2>1. /\ file' = <<>> /\ line' = 0 /\ name' = "none" /\ probePc' \in {"idle", "open"}
    BY <1>6 DEF InitReturn
  <2>2. file' \in Seq(LineKinds)
    BY <2>1
  <2>3. NameFollowsTable'
    BY <2>1 DEF NameFollowsTable
  <2> QED
    BY <2>1, <2>2, <2>3 DEF NameSound
<1> QED
  BY <1>1, <1>3, <1>4, <1>5, <1>6, NameVersionLine, NameNameLine, NameEnd DEF ProbeNext

(* The marketing name is the one that the first line to end the search     *)
(* gives, for any table.                                                   *)
THEOREM NameFound == Spec => []NameFollowsTable
<1>1. Init => NameSound
  BY NameInit DEF Init
<1>2. NameSound /\ [Next]_vars => NameSound'
  BY NameNext, SessionSteps
<1>3. NameSound => NameFollowsTable
  BY DEF NameSound
<1> QED
  BY <1>1, <1>2, <1>3, PTL DEF Spec

-----------------------------------------------------------------------------
(* Concatenations.  FlattenSeq is defined by a recursive function: by      *)
(* induction its result is the last of the concatenations of the first     *)
(* sequences, and holds the elements of each at the place where it begins. *)

(* The concatenations of the first i of a number of sequences. *)
IsConcat(f, ss) ==
    f = [i \in 1 .. Len(ss) |-> IF i = 1 THEN ss[i] ELSE f[i - 1] \o ss[i]]

(* The first k of them. *)
Concats(f, k, ss, S) ==
    /\ f \in [1 .. k -> Seq(S)]
    /\ f[1] = ss[1]
    /\ \A i \in 2 .. k : f[i] = f[i - 1] \o ss[i]

LEMMA ConcatsExist ==
  ASSUME NEW S, NEW ss \in Seq(Seq(S)), NEW n \in Nat, n + 1 = Len(ss)
  PROVE  \E f : Concats(f, n + 1, ss, S)
<1> DEFINE K == {k \in Nat : k <= n => \E f : Concats(f, k + 1, ss, S)}
<1>1. \A i \in 1 .. n + 1 : ss[i] \in Seq(S)
  OBVIOUS
<1>2. 0 \in K
  <2> DEFINE f == [i \in 1 .. 1 |-> ss[1]]
  <2>1. f \in [1 .. 1 -> Seq(S)] /\ f[1] = ss[1] /\ \A i \in 2 .. 1 : FALSE
    BY <1>1
  <2> HIDE DEF f
  <2>2. Concats(f, 0 + 1, ss, S)
    BY <2>1 DEF Concats
  <2> QED
    BY <2>2
<1>3. ASSUME NEW k \in Nat, k \in K
      PROVE  k + 1 \in K
  <2> SUFFICES ASSUME k + 1 <= n PROVE \E f : Concats(f, (k + 1) + 1, ss, S)
    OBVIOUS
  <2>1. PICK f : Concats(f, k + 1, ss, S)
    BY <1>3
  <2> DEFINE g == [i \in 1 .. (k + 1) + 1 |-> IF i <= k + 1 THEN f[i] ELSE f[k + 1] \o ss[k + 2]]
  <2>2. /\ \A i \in 1 .. k + 1 : f[i] \in Seq(S)
        /\ f[k + 1] \in Seq(S) /\ ss[k + 2] \in Seq(S)
    <3>1. k + 2 \in 1 .. n + 1 /\ k + 1 \in 1 .. k + 1
      OBVIOUS
    <3> QED
      BY <1>1, <2>1, <3>1 DEF Concats
  <2>3. f[k + 1] \o ss[k + 2] \in Seq(S)
    BY <2>2
  <2>4. g \in [1 .. (k + 1) + 1 -> Seq(S)]
    BY <2>2, <2>3
  <2>5. \A i \in 1 .. k + 1 : g[i] = f[i]
    OBVIOUS
  <2>6. g[k + 2] = f[k + 1] \o ss[k + 2]
    <3>1. k + 2 \in 1 .. (k + 1) + 1 /\ ~(k + 2 <= k + 1)
      OBVIOUS
    <3> QED
      BY <3>1
  <2> HIDE DEF g
  <2>7. g[1] = ss[1]
    BY <2>1, <2>5 DEF Concats
  <2>8. ASSUME NEW i \in 2 .. (k + 1) + 1 PROVE g[i] = g[i - 1] \o ss[i]
    <3>1. CASE i = k + 2
      <4>1. i - 1 = k + 1 /\ k + 1 \in 1 .. k + 1
        BY <3>1
      <4> QED
        BY <2>5, <2>6, <3>1, <4>1
    <3>2. CASE i # k + 2
      <4>1. i \in 2 .. k + 1 /\ i \in 1 .. k + 1 /\ i - 1 \in 1 .. k + 1
        BY <3>2
      <4>2. f[i] = f[i - 1] \o ss[i]
        BY <2>1, <4>1 DEF Concats
      <4> QED
        BY <2>5, <4>1, <4>2
    <3> QED
      BY <3>1, <3>2
  <2>9. Concats(g, (k + 1) + 1, ss, S)
    BY <2>4, <2>7, <2>8 DEF Concats
  <2> QED
    BY <2>9
<1>4. n \in K
  <2> HIDE DEF K
  <2> QED
    BY <1>2, <1>3, NumbersAll
<1> QED
  BY <1>4

LEMMA ConcatExists ==
  ASSUME NEW S, NEW ss \in Seq(Seq(S)), NEW n \in Nat, n + 1 = Len(ss)
  PROVE  \E f : IsConcat(f, ss)
<1>1. PICK f : Concats(f, n + 1, ss, S)
  BY ConcatsExist
<1> DEFINE h == [i \in 1 .. Len(ss) |-> IF i = 1 THEN ss[i] ELSE f[i - 1] \o ss[i]]
<1>2. ASSUME NEW i \in 1 .. n + 1 PROVE h[i] = f[i]
  <2>1. CASE i = 1
    BY <1>1, <2>1 DEF Concats
  <2>2. CASE i # 1
    <3>1. i \in 2 .. n + 1
      BY <2>2
    <3>2. f[i] = f[i - 1] \o ss[i]
      BY <1>1, <3>1 DEF Concats
    <3>3. h[i] = f[i - 1] \o ss[i]
      BY <2>2
    <3> QED
      BY <3>2, <3>3
  <2> QED
    BY <2>1, <2>2
<1>3. DOMAIN h = 1 .. n + 1 /\ f \in [1 .. n + 1 -> Seq(S)]
  BY <1>1 DEF Concats
<1>4. h = [i \in 1 .. n + 1 |-> h[i]]
  OBVIOUS
<1>5. h = f
  <2> HIDE DEF h
  <2> QED
    BY <1>2, <1>3, <1>4
<1> QED
  BY <1>5 DEF IsConcat

(* What FlattenSeq gives: the last of them. *)
LEMMA FlattenConcats ==
  ASSUME NEW S, NEW ss \in Seq(Seq(S)), NEW n \in Nat, n + 1 = Len(ss)
  PROVE  \E f : Concats(f, n + 1, ss, S) /\ FlattenSeq(ss) = f[n + 1]
<1> DEFINE g == CHOOSE f : IsConcat(f, ss)
<1>1. IsConcat(g, ss)
  BY ConcatExists
<1>2. FlattenSeq(ss) = g[n + 1]
  BY DEF FlattenSeq, IsConcat
<1> HIDE DEF g
<1>3. /\ g = [i \in 1 .. n + 1 |-> IF i = 1 THEN ss[i] ELSE g[i - 1] \o ss[i]]
      /\ \A i \in 1 .. n + 1 : ss[i] \in Seq(S)
  <2>1. g = [i \in 1 .. Len(ss) |-> IF i = 1 THEN ss[i] ELSE g[i - 1] \o ss[i]]
    BY <1>1 DEF IsConcat
  <2>2. \A i \in 1 .. n + 1 : ss[i] \in Seq(S)
    OBVIOUS
  <2> QED
    BY <2>1, <2>2, Zenon
<1>4. DOMAIN g = 1 .. n + 1 /\ g[1] = ss[1]
  BY <1>3
<1>5. ASSUME NEW i \in 2 .. n + 1 PROVE g[i] = g[i - 1] \o ss[i]
  <2>1. i \in 1 .. n + 1 /\ i # 1
    OBVIOUS
  <2> QED
    BY <1>3, <2>1
<1> DEFINE K == {k \in Nat : k <= n => g[k + 1] \in Seq(S)}
<1>6. 0 \in K
  BY <1>3, <1>4
<1>7. ASSUME NEW k \in Nat, k \in K PROVE k + 1 \in K
  <2> SUFFICES ASSUME k + 1 <= n PROVE g[(k + 1) + 1] \in Seq(S)
    OBVIOUS
  <2>1. k + 2 \in 2 .. n + 1 /\ k + 2 \in 1 .. n + 1 /\ (k + 2) - 1 = k + 1
    OBVIOUS
  <2>2. g[k + 1] \in Seq(S) /\ ss[k + 2] \in Seq(S)
    BY <1>3, <1>7, <2>1
  <2>3. g[k + 2] = g[k + 1] \o ss[k + 2]
    BY <1>5, <2>1
  <2>4. g[k + 2] \in Seq(S)
    BY <2>2, <2>3
  <2> QED
    BY <2>4
<1>8. Nat \subseteq K
  <2> HIDE DEF K
  <2> QED
    BY <1>6, <1>7, NumbersAll
<1>9. ASSUME NEW i \in 1 .. n + 1 PROVE g[i] \in Seq(S)
  <2>1. i - 1 \in Nat /\ (i - 1) + 1 = i /\ i - 1 <= n
    OBVIOUS
  <2>2. i - 1 \in K
    BY <1>8, <2>1
  <2> QED
    BY <2>1, <2>2
<1>10. g \in [1 .. n + 1 -> Seq(S)]
  BY <1>3, <1>4, <1>9
<1> QED
  BY <1>2, <1>4, <1>5, <1>10 DEF Concats

(* Where the elements of the first k sequences are in a concatenation: the *)
(* i-th begins after place at[i - 1].                                      *)
Spots(w, k, at, ss) ==
    /\ \A i \in 1 .. k : \A j \in 1 .. Len(ss[i]) :
          at[i - 1] + j \in 1 .. Len(w) /\ w[at[i - 1] + j] = ss[i][j]
    /\ \A x \in 1 .. Len(w) : \E i \in 1 .. k : \E j \in 1 .. Len(ss[i]) : x = at[i - 1] + j

LEMMA SpotsAppend ==
  ASSUME NEW S, NEW ss \in Seq(Seq(S)), NEW w \in Seq(S), NEW at, NEW k \in Nat,
         k + 1 \in 1 .. Len(ss), at[k] = Len(w), Spots(w, k, at, ss)
  PROVE  Spots(w \o ss[k + 1], k + 1, at, ss)
<1>1. PICK s \in Seq(S) : s = ss[k + 1]
  OBVIOUS
<1>2. PICK m \in Nat, l \in Nat : m = Len(w) /\ l = Len(s)
  OBVIOUS
<1> DEFINE v == w \o s
<1>3. /\ Len(v) = m + l
      /\ \A x \in 1 .. m : v[x] = w[x]
      /\ \A j \in 1 .. l : v[m + j] = s[j]
  BY <1>1, <1>2
<1> HIDE DEF v
<1>4. ASSUME NEW i \in 1 .. k + 1, NEW j \in 1 .. Len(ss[i])
      PROVE  at[i - 1] + j \in 1 .. Len(v) /\ v[at[i - 1] + j] = ss[i][j]
  <2>1. CASE i = k + 1
    <3>1. i - 1 = k /\ j \in 1 .. l /\ at[i - 1] = m
      BY <1>1, <1>2, <2>1
    <3>2. m + j \in 1 .. m + l
      BY <3>1
    <3> QED
      BY <1>1, <1>3, <2>1, <3>1, <3>2
  <2>2. CASE i # k + 1
    <3>1. i \in 1 .. k
      BY <2>2
    <3>2. at[i - 1] + j \in 1 .. m /\ w[at[i - 1] + j] = ss[i][j]
      BY <1>2, <3>1 DEF Spots
    <3>3. \A x \in 1 .. m : x \in 1 .. m + l
      OBVIOUS
    <3>4. at[i - 1] + j \in 1 .. m + l
      BY <3>2, <3>3, Zenon
    <3> QED
      BY <1>3, <3>2, <3>4
  <2> QED
    BY <2>1, <2>2
<1>5. ASSUME NEW x \in 1 .. Len(v)
      PROVE  \E i \in 1 .. k + 1 : \E j \in 1 .. Len(ss[i]) : x = at[i - 1] + j
  <2>1. CASE x <= m
    <3>1. x \in 1 .. Len(w)
      BY <1>2, <1>3, <2>1
    <3>2. PICK i \in 1 .. k : \E j \in 1 .. Len(ss[i]) : x = at[i - 1] + j
      BY <3>1 DEF Spots
    <3>3. i \in 1 .. k + 1
      OBVIOUS
    <3> QED
      BY <3>2, <3>3
  <2>2. CASE ~(x <= m)
    <3>1. x - m \in 1 .. l /\ x = m + (x - m) /\ (k + 1) - 1 = k /\ k + 1 \in 1 .. k + 1
      BY <1>2, <1>3, <2>2
    <3>2. x - m \in 1 .. Len(ss[k + 1]) /\ x = at[(k + 1) - 1] + (x - m)
      BY <1>1, <1>2, <3>1
    <3> QED
      BY <3>1, <3>2
  <2> QED
    BY <2>1, <2>2
<1> QED
  BY <1>1, <1>4, <1>5 DEF Spots, v

(* The elements of a flattened sequence are those of its parts, part after *)
(* part.                                                                   *)
LEMMA FlattenSpots ==
  ASSUME NEW S, NEW ss \in Seq(Seq(S))
  PROVE  /\ FlattenSeq(ss) \in Seq(S)
         /\ \E at \in [0 .. Len(ss) -> Nat] :
               /\ at[0] = 0 /\ at[Len(ss)] = Len(FlattenSeq(ss))
               /\ \A i \in 1 .. Len(ss) : at[i] = at[i - 1] + Len(ss[i])
               /\ Spots(FlattenSeq(ss), Len(ss), at, ss)
<1>1. CASE Len(ss) = 0
  <2> DEFINE at == [i \in 0 .. 0 |-> 0]
  <2>1. ss = <<>> /\ FlattenSeq(ss) = <<>>
    BY <1>1 DEF FlattenSeq
  <2>2. /\ at \in [0 .. 0 -> Nat] /\ at[0] = 0
        /\ \A i \in 1 .. 0 : FALSE
    OBVIOUS
  <2> HIDE DEF at
  <2>3. FlattenSeq(ss) \in Seq(S) /\ Len(FlattenSeq(ss)) = 0
    <3>1. <<>> \in Seq(S) /\ Len(<<>>) = 0
      OBVIOUS
    <3> QED
      BY <2>1, <3>1, Zenon
  <2>4. Spots(FlattenSeq(ss), 0, at, ss)
    BY <2>2, <2>3 DEF Spots
  <2> QED
    BY <1>1, <2>2, <2>3, <2>4
<1>2. CASE Len(ss) # 0
  <2>1. PICK n \in Nat : n + 1 = Len(ss)
    <3>1. Len(ss) - 1 \in Nat /\ (Len(ss) - 1) + 1 = Len(ss)
      BY <1>2
    <3> QED
      BY <3>1
  <2>2. \A i \in 1 .. n + 1 : ss[i] \in Seq(S) /\ Len(ss[i]) \in Nat
    BY <2>1
  <2>3. PICK f : Concats(f, n + 1, ss, S) /\ FlattenSeq(ss) = f[n + 1]
    BY <2>1, FlattenConcats
  <2>4. /\ f[1] = ss[1] /\ \A i \in 2 .. n + 1 : f[i] = f[i - 1] \o ss[i]
        /\ \A i \in 1 .. n + 1 : f[i] \in Seq(S) /\ Len(f[i]) \in Nat
    <3>1. f[1] = ss[1] /\ \A i \in 2 .. n + 1 : f[i] = f[i - 1] \o ss[i]
      BY <2>3 DEF Concats
    <3>2. ASSUME NEW i \in 1 .. n + 1 PROVE f[i] \in Seq(S) /\ Len(f[i]) \in Nat
      <4>1. f[i] \in Seq(S)
        BY <2>3 DEF Concats
      <4> QED
        BY <4>1
    <3> QED
      BY <3>1, <3>2
  <2> DEFINE at == [i \in 0 .. n + 1 |-> IF i = 0 THEN 0 ELSE Len(f[i])]
  <2>5. at \in [0 .. n + 1 -> Nat] /\ at[0] = 0 /\ \A i \in 1 .. n + 1 : at[i] = Len(f[i])
    <3>1. ASSUME NEW i \in 0 .. n + 1 PROVE (IF i = 0 THEN 0 ELSE Len(f[i])) \in Nat
      <4>1. i # 0 => i \in 1 .. n + 1
        OBVIOUS
      <4> QED
        BY <2>4, <4>1
    <3>2. at \in [0 .. n + 1 -> Nat]
      BY <3>1
    <3>3. at[0] = 0
      OBVIOUS
    <3>4. ASSUME NEW i \in 1 .. n + 1 PROVE at[i] = Len(f[i])
      <4>1. i # 0 /\ i \in 0 .. n + 1
        OBVIOUS
      <4> QED
        BY <4>1
    <3> QED
      BY <3>2, <3>3, <3>4
  <2> HIDE DEF at
  <2>6. ASSUME NEW i \in 1 .. n + 1 PROVE at[i] = at[i - 1] + Len(ss[i])
    <3>1. CASE i = 1
      BY <2>2, <2>4, <2>5, <3>1
    <3>2. CASE i # 1
      <4>1. i \in 2 .. n + 1 /\ i - 1 \in 1 .. n + 1
        BY <3>2
      <4>2. f[i] = f[i - 1] \o ss[i] /\ f[i - 1] \in Seq(S) /\ ss[i] \in Seq(S)
        BY <2>2, <2>4, <4>1
      <4>3. Len(f[i]) = Len(f[i - 1]) + Len(ss[i])
        BY <4>2
      <4> QED
        BY <2>5, <4>1, <4>3
    <3> QED
      BY <3>1, <3>2
  <2> DEFINE K == {k \in Nat : k <= n => Spots(f[k + 1], k + 1, at, ss)}
  <2>7. 0 \in K
    <3>1. <<>> \in Seq(S) /\ Len(<<>>) = 0 /\ at[0] = Len(<<>>)
      BY <2>5
    <3>2. Spots(<<>>, 0, at, ss)
      BY <3>1 DEF Spots
    <3>3. 0 + 1 \in 1 .. Len(ss)
      BY <2>1
    <3>4. Spots(<<>> \o ss[0 + 1], 0 + 1, at, ss)
      BY <3>1, <3>2, <3>3, SpotsAppend
    <3>5. <<>> \o ss[0 + 1] = f[0 + 1]
      BY <2>2, <2>4
    <3>6. Spots(f[0 + 1], 0 + 1, at, ss)
      BY <3>4, <3>5
    <3> QED
      BY <3>6
  <2>8. ASSUME NEW k \in Nat, k \in K PROVE k + 1 \in K
    <3> SUFFICES ASSUME k + 1 <= n PROVE Spots(f[(k + 1) + 1], (k + 1) + 1, at, ss)
      OBVIOUS
    <3>1. /\ k + 1 \in Nat /\ (k + 1) + 1 \in 1 .. Len(ss) /\ k + 1 \in 1 .. n + 1
          /\ (k + 1) + 1 \in 2 .. n + 1 /\ ((k + 1) + 1) - 1 = k + 1
      BY <2>1
    <3>2. Spots(f[k + 1], k + 1, at, ss)
      BY <2>8
    <3>3. f[k + 1] \in Seq(S) /\ at[k + 1] = Len(f[k + 1])
      BY <2>4, <2>5, <3>1
    <3>4. Spots(f[k + 1] \o ss[(k + 1) + 1], (k + 1) + 1, at, ss)
      BY <3>1, <3>2, <3>3, SpotsAppend
    <3>5. f[(k + 1) + 1] = f[k + 1] \o ss[(k + 1) + 1]
      <4> DEFINE q == (k + 1) + 1
      <4>1. q \in 2 .. n + 1 /\ q - 1 = k + 1
        BY <3>1
      <4> HIDE DEF q
      <4>2. f[q] = f[q - 1] \o ss[q]
        BY <2>4, <4>1
      <4> QED
        BY <4>1, <4>2 DEF q
    <3> QED
      BY <3>4, <3>5
  <2>9. n \in K
    <3> HIDE DEF K
    <3> QED
      BY <2>7, <2>8, NumbersAll
  <2>10. Spots(FlattenSeq(ss), n + 1, at, ss)
    BY <2>3, <2>9
  <2>11. n + 1 \in 1 .. n + 1
    OBVIOUS
  <2> QED
    BY <2>1, <2>3, <2>4, <2>5, <2>6, <2>10, <2>11
<1> QED
  BY <1>1, <1>2

LEMMA ToSetIs ==
  ASSUME NEW S, NEW s \in Seq(S)
  PROVE  /\ DOMAIN s = 1 .. Len(s) /\ Len(s) \in Nat
         /\ ToSet(s) \in SUBSET S
         /\ \A x : x \in ToSet(s) <=> \E i \in 1 .. Len(s) : s[i] = x
<1>1. DOMAIN s = 1 .. Len(s) /\ Len(s) \in Nat
  OBVIOUS
<1>2. \A i \in 1 .. Len(s) : s[i] \in S
  OBVIOUS
<1> QED
  BY <1>1, <1>2 DEF ToSet

LEMMA ToSetConcat ==
  ASSUME NEW S, NEW s \in Seq(S), NEW t \in Seq(S)
  PROVE  /\ s \o t \in Seq(S) /\ Len(s \o t) = Len(s) + Len(t)
         /\ ToSet(s \o t) = ToSet(s) \cup ToSet(t)
<1>1. PICK m \in Nat, n \in Nat : m = Len(s) /\ n = Len(t)
  OBVIOUS
<1> DEFINE w == s \o t
<1>2. /\ w \in Seq(S) /\ Len(w) = m + n
      /\ \A i \in 1 .. m : w[i] = s[i]
      /\ \A i \in 1 .. n : w[m + i] = t[i]
  BY <1>1
<1> HIDE DEF w
<1>3. ASSUME NEW x \in ToSet(w) PROVE x \in ToSet(s) \cup ToSet(t)
  <2>1. PICK i \in 1 .. m + n : w[i] = x
    BY <1>2, ToSetIs
  <2>2. CASE i <= m
    BY <1>1, <1>2, <2>1, <2>2, ToSetIs
  <2>3. CASE ~(i <= m)
    <3>1. i - m \in 1 .. n /\ m + (i - m) = i
      BY <2>3
    <3>2. w[m + (i - m)] = t[i - m]
      BY <1>2, <3>1
    <3>3. t[i - m] = x
      BY <2>1, <3>1, <3>2
    <3> QED
      BY <1>1, <3>1, <3>3, ToSetIs
  <2> QED
    BY <2>2, <2>3
<1>4. ASSUME NEW x \in ToSet(s) PROVE x \in ToSet(w)
  <2>1. PICK i \in 1 .. m : s[i] = x
    BY <1>1, ToSetIs
  <2>2. i \in 1 .. m + n /\ w[i] = x
    BY <1>2, <2>1
  <2> QED
    BY <1>2, <2>2, ToSetIs
<1>5. ASSUME NEW x \in ToSet(t) PROVE x \in ToSet(w)
  <2>1. PICK i \in 1 .. n : t[i] = x
    BY <1>1, ToSetIs
  <2>2. m + i \in 1 .. m + n
    OBVIOUS
  <2>3. w[m + i] = x
    BY <1>2, <2>1
  <2> QED
    BY <1>2, <2>2, <2>3, ToSetIs
<1> QED
  BY <1>1, <1>2, <1>3, <1>4, <1>5 DEF w

LEMMA ToSetFlatten ==
  ASSUME NEW S, NEW ss \in Seq(Seq(S))
  PROVE  /\ FlattenSeq(ss) \in Seq(S)
         /\ \A x : x \in ToSet(FlattenSeq(ss)) <=> \E i \in 1 .. Len(ss) : x \in ToSet(ss[i])
<1> DEFINE w == FlattenSeq(ss)
<1>1. w \in Seq(S)
  BY FlattenSpots
<1>2. PICK at : Spots(w, Len(ss), at, ss)
  BY FlattenSpots
<1>3. \A i \in 1 .. Len(ss) : ss[i] \in Seq(S)
  OBVIOUS
<1> HIDE DEF w
<1>4. ASSUME NEW x, x \in ToSet(w) PROVE \E i \in 1 .. Len(ss) : x \in ToSet(ss[i])
  <2>1. PICK n \in 1 .. Len(w) : w[n] = x
    BY <1>1, <1>4, ToSetIs
  <2>2. PICK i \in 1 .. Len(ss) : \E j \in 1 .. Len(ss[i]) : n = at[i - 1] + j
    BY <1>2 DEF Spots
  <2>4. PICK j \in 1 .. Len(ss[i]) : n = at[i - 1] + j
    BY <2>2
  <2>3. w[at[i - 1] + j] = ss[i][j]
    BY <1>2 DEF Spots
  <2> QED
    BY <1>3, <2>1, <2>4, <2>3, ToSetIs
<1>5. ASSUME NEW x, NEW i \in 1 .. Len(ss), x \in ToSet(ss[i]) PROVE x \in ToSet(w)
  <2>1. PICK j \in 1 .. Len(ss[i]) : ss[i][j] = x
    BY <1>3, <1>5, ToSetIs
  <2>2. at[i - 1] + j \in 1 .. Len(w) /\ w[at[i - 1] + j] = ss[i][j]
    BY <1>2 DEF Spots
  <2> QED
    BY <1>1, <2>1, <2>2, ToSetIs
<1> QED
  BY <1>1, <1>4, <1>5 DEF w

-----------------------------------------------------------------------------
(* GpuInfo: the registers.  What has been kept is what the requests made   *)
(* so far gave, and the stub has answered each of them.                    *)

Kept(n) ==
    {r \in {Requests(device.family, device.engines)[i] : i \in 1 .. n} : r.count > 0}

InfoSound ==
    /\ probePc \in {"idle", "asking", "failed", "names", "version", "entries", "ready", "open"}
    /\ probePc \in {"idle", "open"} => device = NoInfo
    /\ probePc = "idle" => info = {}
    /\ probePc \notin {"idle", "open"} =>
          /\ device \in Devices
          /\ device.driver = "stub" =>
                device.family = SI /\ device.engines = 1 /\ probePc # "failed"
    /\ probePc = "asking" =>
          /\ step \in 1 .. Len(Requests(device.family, device.engines))
          /\ info = Kept(step - 1)
    /\ probePc \in {"names", "version", "entries", "ready"} =>
          info = Kept(Len(Requests(device.family, device.engines)))

Fields ==
    {"B_ACCELERANT_IFACE_DRM", "B_ACCELERANT_IFACE_AMDGPU", "DrmVersion",
     "AMDGPU_INFO_ACCEL_WORKING", "AMDGPU_INFO_DEV_INFO", "gb_addr_cfg", "backend_disable",
     "pa_sc_raster_cfg", "pa_sc_raster_cfg1", "gb_tile_mode", "gb_macro_tile_mode",
     "mc_arb_ramcfg"}

Reads == [field : Fields, slot : Int, offset : Int, count : Int, engine : Int]

(* The reads of an initialization.                                         *)
EngineKept(family, i) ==
    {Read("backend_disable", i, \h263d, 1, i), Read("pa_sc_raster_cfg", i, \ha0d4, 1, i)}
    \cup (IF family >= CI THEN {Read("pa_sc_raster_cfg1", i, \ha0d5, 1, i)} ELSE {})

TileKept(family) ==
    {Read("gb_tile_mode", 0, \h2644, 32, -1), Read("mc_arb_ramcfg", 0, \h9d8, 1, -1)}
    \cup (IF family >= CI THEN {Read("gb_macro_tile_mode", 0, \h2664, 16, -1)} ELSE {})

AllKept(family, engines) ==
    {Read("gb_addr_cfg", 0, \h263e, 1, -1)}
    \cup (IF family < AI
          THEN TileKept(family) \cup UNION {EngineKept(family, i - 1) : i \in 1 .. engines} ELSE {})

Queries ==
    {Query("B_ACCELERANT_IFACE_DRM"), Query("B_ACCELERANT_IFACE_AMDGPU"),
     Query("DrmVersion"), Query("AMDGPU_INFO_ACCEL_WORKING"), Query("AMDGPU_INFO_DEV_INFO")}

LEMMA ReadIs ==
  ASSUME NEW f \in Fields, NEW s \in Int, NEW o \in Int, NEW c \in Int, NEW e \in Int
  PROVE  /\ Read(f, s, o, c, e) \in Reads
         /\ Read(f, s, o, c, e).field = f /\ Read(f, s, o, c, e).slot = s
         /\ Read(f, s, o, c, e).offset = o /\ Read(f, s, o, c, e).count = c
         /\ Read(f, s, o, c, e).engine = e
  BY DEF Read, Reads, Fields

LEMMA QueryIs ==
  ASSUME NEW what \in Fields
  PROVE  Query(what) \in Reads /\ Query(what).count = 0
<1>1. Read(what, 0, 0, 0, -1) \in Reads /\ Read(what, 0, 0, 0, -1).count = 0
  BY DEF Read, Reads, Fields
<1> QED
  BY <1>1 DEF Query

LEMMA ToSetOf ==
  ASSUME NEW S, NEW a \in S
  PROVE  <<a>> \in Seq(S) /\ ToSet(<<a>>) = {a}
<1>1. <<a>> \in Seq(S) /\ DOMAIN <<a>> = {1} /\ <<a>>[1] = a
  OBVIOUS
<1> QED
  BY <1>1 DEF ToSet

LEMMA ToSetOfNone ==
  ASSUME NEW S
  PROVE  <<>> \in Seq(S) /\ ToSet(<<>>) = {}
<1>1. <<>> \in Seq(S) /\ DOMAIN <<>> = {}
  OBVIOUS
<1> QED
  BY <1>1 DEF ToSet

LEMMA ToSetOfTwo ==
  ASSUME NEW S, NEW a \in S, NEW b \in S
  PROVE  <<a, b>> \in Seq(S) /\ ToSet(<<a, b>>) = {a, b}
<1>1. <<a, b>> \in Seq(S) /\ DOMAIN <<a, b>> = {1, 2} /\ <<a, b>>[1] = a /\ <<a, b>>[2] = b
  OBVIOUS
<1> QED
  BY <1>1 DEF ToSet

LEMMA ToSetOfFive ==
  ASSUME NEW S, NEW a \in S, NEW b \in S, NEW c \in S, NEW d \in S, NEW e \in S
  PROVE  <<a, b, c, d, e>> \in Seq(S) /\ ToSet(<<a, b, c, d, e>>) = {a, b, c, d, e}
<1>1. /\ <<a, b, c, d, e>> \in Seq(S) /\ DOMAIN <<a, b, c, d, e>> = {1, 2, 3, 4, 5}
      /\ <<a, b, c, d, e>>[1] = a /\ <<a, b, c, d, e>>[2] = b /\ <<a, b, c, d, e>>[3] = c
      /\ <<a, b, c, d, e>>[4] = d /\ <<a, b, c, d, e>>[5] = e
  OBVIOUS
<1> QED
  BY <1>1 DEF ToSet

LEMMA EngineReadsSet ==
  ASSUME NEW family \in Nat, NEW i \in Nat
  PROVE  EngineReads(family, i) \in Seq(Reads) /\ ToSet(EngineReads(family, i)) = EngineKept(family, i)
<1>1. /\ Read("backend_disable", i, \h263d, 1, i) \in Reads
      /\ Read("pa_sc_raster_cfg", i, \ha0d4, 1, i) \in Reads
      /\ Read("pa_sc_raster_cfg1", i, \ha0d5, 1, i) \in Reads
  <2>1. i \in Int
    OBVIOUS
  <2>2. Read("backend_disable", i, \h263d, 1, i) \in Reads
    BY <2>1 DEF Read, Reads, Fields
  <2>3. Read("pa_sc_raster_cfg", i, \ha0d4, 1, i) \in Reads
    BY <2>1 DEF Read, Reads, Fields
  <2>4. Read("pa_sc_raster_cfg1", i, \ha0d5, 1, i) \in Reads
    BY <2>1 DEF Read, Reads, Fields
  <2> QED
    BY <2>2, <2>3, <2>4
<1> DEFINE s == <<Read("backend_disable", i, \h263d, 1, i), Read("pa_sc_raster_cfg", i, \ha0d4, 1, i)>>
           t == IF family >= CI THEN <<Read("pa_sc_raster_cfg1", i, \ha0d5, 1, i)>> ELSE <<>>
<1>2. s \in Seq(Reads)
      /\ ToSet(s) = {Read("backend_disable", i, \h263d, 1, i), Read("pa_sc_raster_cfg", i, \ha0d4, 1, i)}
  BY <1>1, ToSetOfTwo
<1>3. t \in Seq(Reads)
      /\ ToSet(t) = IF family >= CI THEN {Read("pa_sc_raster_cfg1", i, \ha0d5, 1, i)} ELSE {}
  <2>1. CASE family >= CI
    BY <1>1, <2>1, ToSetOf
  <2>2. CASE ~(family >= CI)
    BY <2>2, ToSetOfNone
  <2> QED
    BY <2>1, <2>2
<1>4. EngineReads(family, i) = s \o t
  BY DEF EngineReads
<1> HIDE DEF s, t
<1>5. s \o t \in Seq(Reads) /\ ToSet(s \o t) = ToSet(s) \cup ToSet(t)
  BY <1>2, <1>3, ToSetConcat
<1> QED
  BY <1>2, <1>3, <1>4, <1>5 DEF EngineKept

LEMMA TileReadsSet ==
  ASSUME NEW family \in Nat
  PROVE  TileReads(family) \in Seq(Reads) /\ ToSet(TileReads(family)) = TileKept(family)
<1>1. /\ Read("gb_tile_mode", 0, \h2644, 32, -1) \in Reads
      /\ Read("gb_macro_tile_mode", 0, \h2664, 16, -1) \in Reads
      /\ Read("mc_arb_ramcfg", 0, \h9d8, 1, -1) \in Reads
  BY DEF Read, Reads, Fields
<1> DEFINE s == <<Read("gb_tile_mode", 0, \h2644, 32, -1)>>
           t == IF family >= CI THEN <<Read("gb_macro_tile_mode", 0, \h2664, 16, -1)>> ELSE <<>>
           u == <<Read("mc_arb_ramcfg", 0, \h9d8, 1, -1)>>
           st == s \o t
<1>2. s \in Seq(Reads) /\ ToSet(s) = {Read("gb_tile_mode", 0, \h2644, 32, -1)}
  BY <1>1, ToSetOf
<1>3. t \in Seq(Reads)
      /\ ToSet(t) = IF family >= CI THEN {Read("gb_macro_tile_mode", 0, \h2664, 16, -1)} ELSE {}
  <2>1. CASE family >= CI
    BY <1>1, <2>1, ToSetOf
  <2>2. CASE ~(family >= CI)
    BY <2>2, ToSetOfNone
  <2> QED
    BY <2>1, <2>2
<1>4. u \in Seq(Reads) /\ ToSet(u) = {Read("mc_arb_ramcfg", 0, \h9d8, 1, -1)}
  BY <1>1, ToSetOf
<1>5. TileReads(family) = st \o u
  BY DEF TileReads
<1> HIDE DEF s, t, u, st
<1>6. st \in Seq(Reads) /\ ToSet(st) = ToSet(s) \cup ToSet(t)
  BY <1>2, <1>3, ToSetConcat DEF st
<1>7. st \o u \in Seq(Reads) /\ ToSet(st \o u) = ToSet(st) \cup ToSet(u)
  BY <1>4, <1>6, ToSetConcat
<1> QED
  BY <1>2, <1>3, <1>4, <1>5, <1>6, <1>7 DEF TileKept

LEMMA RequestsSet ==
  ASSUME NEW family \in Nat, NEW engines \in Nat
  PROVE  /\ Requests(family, engines) \in Seq(Reads)
         /\ Len(Requests(family, engines)) \in Nat \ {0}
         /\ ToSet(Requests(family, engines)) = Queries \cup AllKept(family, engines)
<1> DEFINE q == <<Query("B_ACCELERANT_IFACE_DRM"), Query("B_ACCELERANT_IFACE_AMDGPU"),
                  Query("DrmVersion"), Query("AMDGPU_INFO_ACCEL_WORKING"), Query("AMDGPU_INFO_DEV_INFO")>>
           es == [i \in 1 .. engines |-> EngineReads(family, i - 1)]
           e == IF family < AI THEN FlattenSeq(es) ELSE <<>>
           g == <<Read("gb_addr_cfg", 0, \h263e, 1, -1)>>
           t == IF family < AI THEN TileReads(family) ELSE <<>>
<1>1. q \in Seq(Reads) /\ ToSet(q) = Queries /\ Len(q) = 5
  <2>1. /\ Query("B_ACCELERANT_IFACE_DRM") \in Reads /\ Query("B_ACCELERANT_IFACE_AMDGPU") \in Reads
        /\ Query("DrmVersion") \in Reads /\ Query("AMDGPU_INFO_ACCEL_WORKING") \in Reads
        /\ Query("AMDGPU_INFO_DEV_INFO") \in Reads
    BY QueryIs DEF Fields
  <2>2. Len(q) = 5
    OBVIOUS
  <2> HIDE DEF q
  <2> QED
    BY <2>1, <2>2, ToSetOfFive DEF Queries, q
<1>2. \A i \in 1 .. engines :
         /\ EngineReads(family, i - 1) \in Seq(Reads)
         /\ ToSet(EngineReads(family, i - 1)) = EngineKept(family, i - 1)
  <2>1. \A i \in 1 .. engines : i - 1 \in Nat
    OBVIOUS
  <2> QED
    BY <2>1, EngineReadsSet
<1>3. es \in Seq(Seq(Reads)) /\ Len(es) = engines
      /\ \A i \in 1 .. engines : es[i] = EngineReads(family, i - 1)
  BY <1>2
<1> HIDE DEF q, es
<1>4. /\ FlattenSeq(es) \in Seq(Reads)
      /\ ToSet(FlattenSeq(es)) = UNION {EngineKept(family, i - 1) : i \in 1 .. engines}
  <2>1. /\ FlattenSeq(es) \in Seq(Reads)
        /\ \A x : x \in ToSet(FlattenSeq(es)) <=> \E i \in 1 .. Len(es) : x \in ToSet(es[i])
    BY <1>3, ToSetFlatten
  <2>2. /\ Len(es) = engines
        /\ \A i \in 1 .. engines : ToSet(es[i]) = EngineKept(family, i - 1)
    BY <1>2, <1>3
  <2>3. \A x : x \in ToSet(FlattenSeq(es)) <=> \E i \in 1 .. engines : x \in EngineKept(family, i - 1)
    BY <2>1, <2>2, Zenon
  <2> QED
    BY <2>1, <2>3
<1>5. <<>> \in Seq(Reads) /\ ToSet(<<>>) = {}
  BY ToSetOfNone
<1>6. e \in Seq(Reads)
      /\ ToSet(e) = IF family < AI THEN UNION {EngineKept(family, i - 1) : i \in 1 .. engines} ELSE {}
  <2>1. CASE family < AI
    <3>1. e = FlattenSeq(es)
      BY <2>1
    <3> HIDE DEF e
    <3> QED
      BY <1>4, <2>1, <3>1
  <2>2. CASE ~(family < AI)
    <3>1. e = <<>>
      BY <2>2
    <3> HIDE DEF e
    <3> QED
      BY <1>5, <2>2, <3>1
  <2> QED
    BY <2>1, <2>2
<1>7. g \in Seq(Reads) /\ ToSet(g) = {Read("gb_addr_cfg", 0, \h263e, 1, -1)}
  <2>1. Read("gb_addr_cfg", 0, \h263e, 1, -1) \in Reads
    BY DEF Read, Reads, Fields
  <2> QED
    BY <2>1, ToSetOf
<1>8. t \in Seq(Reads) /\ ToSet(t) = IF family < AI THEN TileKept(family) ELSE {}
  BY <1>5, TileReadsSet
<1> DEFINE qe == q \o e
           qeg == qe \o g
           all == qeg \o t
<1>9. Requests(family, engines) = all
  BY DEF Requests, q, es
<1> HIDE DEF e, g, t
<1>10. qe \in Seq(Reads) /\ ToSet(qe) = ToSet(q) \cup ToSet(e) /\ Len(qe) = Len(q) + Len(e)
  <2>1. q \in Seq(Reads) /\ e \in Seq(Reads)
    BY <1>1, <1>6
  <2> QED
    BY <2>1, ToSetConcat
<1> HIDE DEF qe
<1>11. qeg \in Seq(Reads) /\ ToSet(qeg) = ToSet(qe) \cup ToSet(g) /\ Len(qeg) = Len(qe) + Len(g)
  BY <1>7, <1>10, ToSetConcat
<1> HIDE DEF qeg
<1>12. all \in Seq(Reads) /\ ToSet(all) = ToSet(qeg) \cup ToSet(t) /\ Len(all) = Len(qeg) + Len(t)
  BY <1>8, <1>11, ToSetConcat
<1> HIDE DEF all
<1>13. Len(Requests(family, engines)) \in Nat \ {0}
  <2>1. Len(e) \in Nat /\ Len(g) \in Nat /\ Len(t) \in Nat
    BY <1>6, <1>7, <1>8
  <2> QED
    BY <1>1, <1>9, <1>10, <1>11, <1>12, <2>1
<1> QED
  BY <1>1, <1>6, <1>7, <1>8, <1>9, <1>10, <1>11, <1>12, <1>13 DEF AllKept

(* What is kept is asked for at least once, and the queries are not kept.  *)
LEMMA DeviceTyped ==
  ASSUME device \in Devices
  PROVE  /\ device.family \in Families /\ device.family \in Nat /\ device.family >= SI
         /\ device.engines \in Nat \ {0} /\ device # NoInfo
<1>1. device.family \in Families /\ device.engines \in 1..MaxEngines
  BY DEF Devices
<1>2. /\ Families \subseteq Nat /\ MaxEngines \in Nat \ {0} /\ NoInfo \notin Devices
      /\ \A family \in Families : family >= SI
  BY GpuInfoAssumption
<1>3. device.engines \in Nat \ {0}
  BY <1>1, <1>2
<1> QED
  BY <1>1, <1>2, <1>3

LEMMA KeptAll ==
  ASSUME device \in Devices
  PROVE  Kept(Len(Requests(device.family, device.engines))) = AllKept(device.family, device.engines)
<1>1. PICK family \in Nat, engines \in Nat : family = device.family /\ engines = device.engines
  BY DeviceTyped
<1>2. PICK R \in Seq(Reads) :
         /\ R = Requests(family, engines) /\ ToSet(R) = Queries \cup AllKept(family, engines)
  BY RequestsSet
<1>3. Kept(Len(R)) = {r \in Queries \cup AllKept(family, engines) : r.count > 0}
  BY <1>1, <1>2, ToSetIs DEF Kept
<1>4. \A r \in Queries : ~(r.count > 0)
  BY QueryIs DEF Queries, Fields
<1>5. ASSUME NEW r \in AllKept(family, engines) PROVE r.count > 0
  <2>1. \A i \in Nat : \A x \in EngineKept(family, i) : x.count > 0
    BY DEF EngineKept, Read
  <2>2. \A x \in TileKept(family) : x.count > 0
    BY DEF TileKept, Read
  <2>3. Read("gb_addr_cfg", 0, \h263e, 1, -1).count > 0
    BY DEF Read
  <2>4. \A i \in 1 .. engines : i - 1 \in Nat
    OBVIOUS
  <2> QED
    BY <2>1, <2>2, <2>3, <2>4 DEF AllKept
<1> QED
  BY <1>1, <1>2, <1>3, <1>4, <1>5

(* The stub has a value for every register of an initialization.           *)
LEMMA StubKnows ==
  ASSUME NEW i \in 1 .. Len(Requests(SI, 1))
  PROVE  StubAnswers(Requests(SI, 1)[i])
<1>1. PICK r : r = Requests(SI, 1)[i]
  OBVIOUS
<1>2. r \in Queries \cup AllKept(SI, 1)
  <2>1. /\ Requests(SI, 1) \in Seq(Reads)
        /\ ToSet(Requests(SI, 1)) = Queries \cup AllKept(SI, 1)
    BY RequestsSet DEF SI
  <2> QED
    BY <1>1, <2>1, ToSetIs
<1>3. CASE r \in Queries
  <2>1. r.count = 0
    BY <1>3, QueryIs DEF Queries, Fields
  <2> QED
    BY <1>1, <2>1 DEF StubAnswers
<1>4. CASE r \in AllKept(SI, 1)
  <2>1. \/ r = Read("gb_addr_cfg", 0, \h263e, 1, -1)
        \/ r \in TileKept(SI)
        \/ r \in EngineKept(SI, 0)
    BY <1>4 DEF AllKept, SI, AI
  <2>2. \/ r.offset \in {\h263e, \h9d8, \h263d, \ha0d4} /\ r.count = 1
        \/ r.offset = \h2644 /\ r.count = 32
    BY <2>1 DEF TileKept, EngineKept, Read, SI, CI
  <2>3. ASSUME NEW k \in 0 .. (r.count - 1) PROVE r.offset + k \in StubRegisters
    <3>1. CASE r.offset \in {\h263e, \h9d8, \h263d, \ha0d4} /\ r.count = 1
      <4>1. k = 0 /\ r.offset + k = r.offset
        BY <3>1
      <4> QED
        BY <3>1, <4>1 DEF StubRegisters
    <3>2. CASE r.offset = \h2644 /\ r.count = 32
      <4>1. k \in 0 .. 31
        BY <3>2
      <4>2. r.offset + k \in \h2644 .. \h2663
        BY <3>2, <4>1
      <4> QED
        BY <4>2 DEF StubRegisters
    <3> QED
      BY <2>2, <3>1, <3>2
  <2> QED
    BY <1>1, <2>3 DEF StubAnswers
<1> QED
  BY <1>1, <1>2, <1>3, <1>4

LEMMA InfoInit == ProbeInit => InfoSound
  BY DEF ProbeInit, InfoSound

LEMMA InfoStart ==
  ASSUME InfoSound, NEW driver \in {"accelerant", "stub"}, NEW family \in Families,
         NEW engines \in 1..MaxEngines, InitStart(driver, family, engines)
  PROVE  InfoSound'
<1>1. device' \in Devices /\ device'.family = family /\ device'.engines = engines /\ device'.driver = driver
  BY DEF InitStart, Devices
<1>2. step' = 1 /\ 1 \in 1 .. Len(Requests(family, engines))
  <2>1. family \in Nat /\ engines \in Nat
    BY GpuInfoAssumption
  <2>2. Len(Requests(family, engines)) \in Nat \ {0}
    BY <2>1, RequestsSet
  <2> QED
    BY <2>2 DEF InitStart
<1>3. info' = Kept(step - 1)'
  <2>1. info' = {}
    BY DEF InitStart, InfoSound
  <2>2. (step - 1)' = 0
    BY <1>2
  <2> QED
    BY <2>1, <2>2 DEF Kept
<1>4. probePc' = "asking" /\ (driver = "stub" => family = SI /\ engines = 1)
  BY DEF InitStart
<1> QED
  BY <1>1, <1>2, <1>3, <1>4 DEF InfoSound

(* A request that succeeds adds what it gave.                              *)
LEMMA KeptMore ==
  ASSUME NEW n \in Nat,
         NEW r, r = Requests(device.family, device.engines)[n + 1]
  PROVE  Kept(n + 1) = IF r.count > 0 THEN Kept(n) \cup {r} ELSE Kept(n)
<1>1. 1 .. n + 1 = (1 .. n) \cup {n + 1}
  OBVIOUS
<1>2. {Requests(device.family, device.engines)[i] : i \in 1 .. n + 1}
        = {Requests(device.family, device.engines)[i] : i \in 1 .. n} \cup {r}
  BY <1>1
<1> QED
  BY <1>2 DEF Kept

LEMMA InfoRequested ==
  ASSUME InfoSound, InitRequest
  PROVE  InfoSound'
<1>1. PICK family \in Nat, engines \in Nat, L \in Nat :
         /\ family = device.family /\ engines = device.engines /\ L = Len(Requests(family, engines))
         /\ device \in Devices
  <2>1. device \in Devices
    BY DEF InitRequest, InfoSound
  <2>2. device.family \in Nat /\ device.engines \in Nat
    BY <2>1, DeviceTyped
  <2>3. Len(Requests(device.family, device.engines)) \in Nat
    BY <2>2, RequestsSet
  <2> QED
    BY <2>1, <2>2, <2>3
<1>2. PICK r : r = Requests(device.family, device.engines)[step]
  OBVIOUS
<1>3. PICK ok \in Answers(device, r) :
         /\ info' = IF ok /\ r.count > 0 THEN info \cup {r} ELSE info
         /\ step' = IF ok THEN step + 1 ELSE step
         /\ probePc' = IF ~ok THEN "failed" ELSE IF step = L THEN "names" ELSE "asking"
  BY <1>1, <1>2 DEF InitRequest
<1>4. step \in 1 .. L /\ info = Kept(step - 1) /\ UNCHANGED device
  BY <1>1 DEF InitRequest, InfoSound
<1>5. device.driver = "stub" => family = SI /\ engines = 1 /\ probePc' # "failed"
  <2> SUFFICES ASSUME device.driver = "stub" PROVE family = SI /\ engines = 1 /\ probePc' # "failed"
    OBVIOUS
  <2>1. family = SI /\ engines = 1
    BY <1>1 DEF InitRequest, InfoSound
  <2>2. StubAnswers(r)
    BY <1>1, <1>2, <1>4, <2>1, StubKnows
  <2>3. ok
    BY <1>3, <2>2 DEF Answers
  <2> QED
    BY <1>3, <2>1, <2>3
<1>6. ok => info' = Kept(step)
  <2>1. step - 1 \in Nat /\ (step - 1) + 1 = step
    BY <1>4
  <2>2. Kept(step) = IF r.count > 0 THEN Kept(step - 1) \cup {r} ELSE Kept(step - 1)
    BY <1>2, <2>1, KeptMore
  <2> QED
    BY <1>3, <1>4, <2>2
<1>7. \A n : Kept(n)' = {x \in {Requests(family, engines)[i] : i \in 1 .. n} : x.count > 0}
  BY <1>1, <1>4 DEF Kept
<1>8. CASE ~ok
  <2>1. probePc' = "failed"
    BY <1>3, <1>8
  <2> QED
    BY <1>1, <1>4, <1>5, <2>1 DEF InfoSound
<1>9. CASE ok /\ step = L
  <2>1. probePc' = "names" /\ info' = Kept(L)
    BY <1>3, <1>6, <1>9
  <2>2. info' = {x \in {Requests(family, engines)[i] : i \in 1 .. L} : x.count > 0}
    BY <1>1, <2>1 DEF Kept
  <2>3. info' = Kept(Len(Requests(device.family, device.engines)))'
    BY <1>1, <1>4, <2>2 DEF Kept
  <2> QED
    BY <1>1, <1>4, <1>5, <2>1, <2>3 DEF InfoSound
<1>10. CASE ok /\ step # L
  <2>1. probePc' = "asking" /\ step' = step + 1 /\ (step' - 1) = step /\ step' \in 1 .. L
    BY <1>3, <1>4, <1>10
  <2>2. info' = {x \in {Requests(family, engines)[i] : i \in 1 .. step} : x.count > 0}
    BY <1>1, <1>6, <1>10 DEF Kept
  <2>3. info' = Kept(step - 1)'
    BY <1>1, <1>4, <2>1, <2>2 DEF Kept
  <2> QED
    BY <1>1, <1>4, <1>5, <2>1, <2>3 DEF InfoSound
<1> QED
  BY <1>8, <1>9, <1>10

LEMMA InfoNext == InfoSound /\ [ProbeNext]_probeVars => InfoSound'
<1> SUFFICES ASSUME InfoSound, [ProbeNext]_probeVars PROVE InfoSound'
  OBVIOUS
<1>1. CASE UNCHANGED probeVars
  BY <1>1 DEF probeVars, InfoSound, Kept
<1>2. CASE \E driver \in {"accelerant", "stub"}, family \in Families, engines \in 1..MaxEngines :
              InitStart(driver, family, engines)
  BY <1>2, InfoStart
<1>3. CASE InitRequest
  BY <1>3, InfoRequested
<1>4. ASSUME /\ UNCHANGED <<device, step, info>>
             /\ probePc \in {"names", "version", "entries"}
             /\ probePc' \in {"version", "entries", "ready"}
      PROVE  InfoSound'
  BY <1>4 DEF InfoSound, Kept
<1>5. CASE \E f \in NameTables : ReadNames(f)
  BY <1>4, <1>5 DEF ReadNames
<1>6. CASE VersionLine
  BY <1>4, <1>6 DEF VersionLine
<1>7. CASE NameLine
  BY <1>4, <1>7 DEF NameLine
<1>8. CASE EndOfNames
  BY <1>4, <1>8 DEF EndOfNames
<1>9. CASE InitReturn
  BY <1>9 DEF InitReturn, InfoSound
<1> QED
  BY <1>1, <1>2, <1>3, <1>5, <1>6, <1>7, <1>8, <1>9 DEF ProbeNext

-----------------------------------------------------------------------------
(* The fields of what is kept are those of the family ...                  *)
LEMMA KeptFields ==
  ASSUME NEW family \in Nat, family >= SI, NEW engines \in Nat, engines >= 1
  PROVE  {r.field : r \in AllKept(family, engines)} = Expected(family)
<1> DEFINE fields == {r.field : r \in AllKept(family, engines)}
<1>1. /\ 1 \in 1 .. engines /\ 1 - 1 = 0
      /\ family \in SI..(AI - 1) <=> family < AI
      /\ family \in CI..(AI - 1) <=> family < AI /\ family >= CI
  BY DEF SI, AI, CI
<1>2. ASSUME NEW i \in Nat
      PROVE  {r.field : r \in EngineKept(family, i)} =
               {"backend_disable", "pa_sc_raster_cfg"}
                 \cup (IF family >= CI THEN {"pa_sc_raster_cfg1"} ELSE {})
  <2>1. PICK a, b, c : /\ a = Read("backend_disable", i, \h263d, 1, i)
                       /\ b = Read("pa_sc_raster_cfg", i, \ha0d4, 1, i)
                       /\ c = Read("pa_sc_raster_cfg1", i, \ha0d5, 1, i)
    OBVIOUS
  <2>2. EngineKept(family, i) = {a, b} \cup (IF family >= CI THEN {c} ELSE {})
    BY <2>1 DEF EngineKept
  <2>3. a.field = "backend_disable" /\ b.field = "pa_sc_raster_cfg" /\ c.field = "pa_sc_raster_cfg1"
    BY <2>1 DEF Read
  <2>4. CASE family >= CI
    BY <2>2, <2>3, <2>4
  <2>5. CASE ~(family >= CI)
    BY <2>2, <2>3, <2>5
  <2> QED
    BY <2>4, <2>5
<1>3. {r.field : r \in TileKept(family)} =
         {"gb_tile_mode", "mc_arb_ramcfg"}
           \cup (IF family >= CI THEN {"gb_macro_tile_mode"} ELSE {})
  <2>1. PICK a, b, c : /\ a = Read("gb_tile_mode", 0, \h2644, 32, -1)
                       /\ b = Read("mc_arb_ramcfg", 0, \h9d8, 1, -1)
                       /\ c = Read("gb_macro_tile_mode", 0, \h2664, 16, -1)
    OBVIOUS
  <2>2. TileKept(family) = {a, b} \cup (IF family >= CI THEN {c} ELSE {})
    BY <2>1 DEF TileKept
  <2>3. a.field = "gb_tile_mode" /\ b.field = "mc_arb_ramcfg" /\ c.field = "gb_macro_tile_mode"
    BY <2>1 DEF Read
  <2>4. CASE family >= CI
    BY <2>2, <2>3, <2>4
  <2>5. CASE ~(family >= CI)
    BY <2>2, <2>3, <2>5
  <2> QED
    BY <2>4, <2>5
<1>4. Read("gb_addr_cfg", 0, \h263e, 1, -1).field = "gb_addr_cfg"
  BY DEF Read
<1>5. CASE ~(family < AI)
  <2>1. AllKept(family, engines) = {Read("gb_addr_cfg", 0, \h263e, 1, -1)}
    BY <1>5 DEF AllKept
  <2>2. Expected(family) = {"gb_addr_cfg"}
    BY <1>1, <1>5 DEF Expected
  <2> QED
    BY <1>4, <2>1, <2>2
<1>6. CASE family < AI
  <2> DEFINE engine == UNION {EngineKept(family, i - 1) : i \in 1 .. engines}
  <2>1. AllKept(family, engines)
          = {Read("gb_addr_cfg", 0, \h263e, 1, -1)} \cup TileKept(family) \cup engine
    BY <1>6 DEF AllKept
  <2>2. {r.field : r \in engine} =
           {"backend_disable", "pa_sc_raster_cfg"}
             \cup (IF family >= CI THEN {"pa_sc_raster_cfg1"} ELSE {})
    <3>1. \A r \in engine : \E i \in Nat : r \in EngineKept(family, i)
      <4>1. \A i \in 1 .. engines : i - 1 \in Nat
        OBVIOUS
      <4> QED
        BY <4>1
    <3>2. \A r \in EngineKept(family, 0) : r \in engine
      BY <1>1
    <3> HIDE DEF engine
    <3>3. \A f \in {r.field : r \in EngineKept(family, 0)} : f \in {r.field : r \in engine}
      BY <3>2
    <3>4. \A f \in {r.field : r \in engine} : \E i \in Nat : f \in {r.field : r \in EngineKept(family, i)}
      BY <3>1
    <3> QED
      BY <1>2, <3>3, <3>4
  <2> HIDE DEF engine
  <2>3. fields = {"gb_addr_cfg"} \cup {r.field : r \in TileKept(family)} \cup {r.field : r \in engine}
    BY <1>4, <2>1
  <2>4. Expected(family) =
          {"gb_addr_cfg"} \cup {"backend_disable", "pa_sc_raster_cfg", "gb_tile_mode", "mc_arb_ramcfg"}
            \cup (IF family >= CI THEN {"pa_sc_raster_cfg1", "gb_macro_tile_mode"} ELSE {})
    BY <1>1, <1>6 DEF Expected
  <2> HIDE DEF fields
  <2>5. fields = Expected(family)
    BY <1>3, <2>2, <2>3, <2>4
  <2> QED
    BY <2>5 DEF fields
<1> QED
  BY <1>5, <1>6

(* ... and each value of an engine is in the slot of that engine, which is *)
(* a slot of the array when there are no more engines than slots.          *)
LEMMA KeptSlots ==
  ASSUME NEW family \in Nat, family >= SI, NEW engines \in Nat \ {0},
         family < AI => engines <= EngineSlots
  PROVE  /\ \A r \in AllKept(family, engines) :
               r.field \in PerEngine => r.slot = r.engine /\ r.slot < EngineSlots
         /\ \A f \in Expected(family) \cap PerEngine :
               {r.slot : r \in {q \in AllKept(family, engines) : q.field = f}} = 0..(engines - 1)
<1>1. ASSUME NEW r \in AllKept(family, engines), r.field \in PerEngine
      PROVE  family < AI /\ \E i \in 0 .. engines - 1 : r \in EngineKept(family, i)
  <2>1. r \notin TileKept(family) /\ r # Read("gb_addr_cfg", 0, \h263e, 1, -1)
    BY <1>1 DEF TileKept, Read, PerEngine
  <2>2. family < AI /\ r \in UNION {EngineKept(family, i - 1) : i \in 1 .. engines}
    BY <2>1 DEF AllKept
  <2>3. PICK i \in 1 .. engines : r \in EngineKept(family, i - 1)
    BY <2>2
  <2>4. i - 1 \in 0 .. engines - 1
    OBVIOUS
  <2> QED
    BY <2>2, <2>3, <2>4
<1>2. \A i \in Nat : \A r \in EngineKept(family, i) : r.slot = i /\ r.engine = i
  BY DEF EngineKept, Read
<1>3. ASSUME NEW r \in AllKept(family, engines), r.field \in PerEngine
      PROVE  r.slot = r.engine /\ r.slot \in 0 .. engines - 1
  <2>1. PICK i \in 0 .. engines - 1 : r \in EngineKept(family, i)
    BY <1>1, <1>3
  <2>2. i \in Nat
    OBVIOUS
  <2> QED
    BY <1>2, <2>1, <2>2
<1>4. ASSUME NEW f \in Expected(family) \cap PerEngine, NEW i \in 0 .. engines - 1
      PROVE  \E r \in AllKept(family, engines) : r.field = f /\ r.slot = i
  <2>1. family < AI /\ (f = "pa_sc_raster_cfg1" => family >= CI)
    BY DEF Expected, PerEngine, SI, AI, CI
  <2>2. i \in Nat /\ i + 1 \in 1 .. engines /\ (i + 1) - 1 = i
    OBVIOUS
  <2>3. f \in {"backend_disable", "pa_sc_raster_cfg", "pa_sc_raster_cfg1"}
    BY DEF PerEngine
  <2>4. \E r \in EngineKept(family, i) : r.field = f /\ r.slot = i
    <3>1. Read("backend_disable", i, \h263d, 1, i) \in EngineKept(family, i)
          /\ Read("pa_sc_raster_cfg", i, \ha0d4, 1, i) \in EngineKept(family, i)
      BY DEF EngineKept
    <3>2. f = "pa_sc_raster_cfg1" => Read("pa_sc_raster_cfg1", i, \ha0d5, 1, i) \in EngineKept(family, i)
      BY <2>1 DEF EngineKept
    <3>3. \A n, o, c, e : Read(n, i, o, c, e).field = n /\ Read(n, i, o, c, e).slot = i
      BY DEF Read
    <3> QED
      BY <2>3, <3>1, <3>2, <3>3
  <2>5. \A r \in EngineKept(family, (i + 1) - 1) : r \in AllKept(family, engines)
    BY <2>1, <2>2 DEF AllKept
  <2> QED
    BY <2>2, <2>4, <2>5
<1>5. ASSUME NEW r \in AllKept(family, engines), r.field \in PerEngine PROVE r.slot < EngineSlots
  <2>1. engines <= EngineSlots /\ r.slot \in 0 .. engines - 1
    BY <1>1, <1>3, <1>5
  <2> QED
    BY <2>1 DEF EngineSlots
<1> QED
  BY <1>3, <1>4, <1>5

LEMMA InfoSoundComplete == InfoSound => InfoComplete
<1> SUFFICES ASSUME InfoSound PROVE InfoComplete
  OBVIOUS
<1>1. StubInitializes
  BY DEF InfoSound, StubInitializes
<1>2. ASSUME probePc = "ready", EnginesFit
      PROVE  /\ {r.field : r \in info} = Expected(device.family)
             /\ \A r \in info : r.field \in PerEngine => r.slot = r.engine /\ r.slot < EngineSlots
             /\ \A f \in Expected(device.family) \cap PerEngine :
                   {r.slot : r \in {q \in info : q.field = f}} = 0..(device.engines - 1)
  <2>1. device \in Devices
    BY <1>2 DEF InfoSound
  <2>2. info = AllKept(device.family, device.engines)
    BY <1>2, <2>1, KeptAll DEF InfoSound
  <2>3. PICK family \in Nat, engines \in Nat \ {0} :
           /\ family = device.family /\ family >= SI /\ engines = device.engines
           /\ family < AI => engines <= EngineSlots
    BY <1>2, <2>1, DeviceTyped DEF EnginesFit
  <2>4. engines \in Nat /\ engines >= 1
    OBVIOUS
  <2>5. {r.field : r \in AllKept(family, engines)} = Expected(family)
    BY <2>3, <2>4, KeptFields
  <2>6. /\ \A r \in AllKept(family, engines) :
              r.field \in PerEngine => r.slot = r.engine /\ r.slot < EngineSlots
        /\ \A f \in Expected(family) \cap PerEngine :
              {r.slot : r \in {q \in AllKept(family, engines) : q.field = f}} = 0..(engines - 1)
    BY <2>3, KeptSlots
  <2> QED
    BY <2>2, <2>3, <2>5, <2>6
<1> QED
  BY <1>1, <1>2 DEF InfoComplete

(* An initialized device has every register of its family, whatever the    *)
(* family, the requests that fail and the number of engines, as long as    *)
(* there is a slot for each of them.                                       *)
THEOREM RegistersComplete == Spec => []InfoComplete
<1>1. Init => InfoSound
  BY InfoInit DEF Init
<1>2. InfoSound /\ [Next]_vars => InfoSound'
  BY InfoNext, SessionSteps
<1> QED
  BY <1>1, <1>2, InfoSoundComplete, PTL DEF Spec

-----------------------------------------------------------------------------
(* DrmCalls.  A call asks on only after an answer of "ok", the stub never  *)
(* fails a wait, nobody waits for a key once the call has returned, and a  *)
(* version under construction belongs to a running drmGetVersion.          *)

Replies == {"ok", "error", "key"}

RepliesSound ==
    /\ replies \in Seq(Replies)
    /\ drmCall = "none" => replies = <<>> /\ report = "none" /\ blocks \subseteq {"copy"}
    /\ drmCall # "none" => Len(replies) <= Len(RequestsOf(drmCall))
    /\ \A i \in 1 .. Len(replies) - 1 : replies[i] = "ok"
    /\ drmCall \in DOMAIN WaitIoctl => \A i \in 1 .. Len(replies) : replies[i] = "ok"
    /\ report # "none" => \A i \in 1 .. Len(replies) : replies[i] # "key"
    /\ drmCall # "drmGetVersion" => blocks \subseteq {"copy"}
    /\ blocks \subseteq KernelVersion \cup {"copy"}
    /\ AnswersReported

(* A driver answers nothing else.                                          *)
LEMMA OutcomesAnswers ==
  ASSUME NEW request
  PROVE  Outcomes(request) \subseteq Replies
<1>1. \A c \in DOMAIN IoctlAnswers : IoctlAnswers[c] \subseteq Replies
  BY DEF IoctlAnswers, Always, Mostly, Replies
<1>2. \A c \in DOMAIN FirmwareAnswers : FirmwareAnswers[c] \subseteq Replies
  BY DEF FirmwareAnswers, Always, Mostly, Replies
<1>3. \A c \in DOMAIN EngineAnswers : EngineAnswers[c] \subseteq Replies
  BY DEF EngineAnswers, Always, Mostly, Replies
<1>4. \A c \in DOMAIN InfoAnswers : InfoAnswers[c] \subseteq Replies
  <2>1. UNION {FirmwareAnswers[t] : t \in DOMAIN FirmwareAnswers} \subseteq Replies
    BY <1>2
  <2>2. UNION {EngineAnswers[t] : t \in DOMAIN EngineAnswers} \subseteq Replies
    BY <1>3
  <2>3. Always \subseteq Replies /\ Mostly \subseteq Replies /\ {"error"} \subseteq Replies
    BY DEF Always, Mostly, Replies
  <2> QED
    BY <2>1, <2>2, <2>3 DEF InfoAnswers
<1>5. \A c \in DOMAIN CommandAnswers : CommandAnswers[c] \subseteq Replies
  <2>1. UNION {InfoAnswers[q] : q \in DOMAIN InfoAnswers} \subseteq Replies
    BY <1>4
  <2>2. Always \subseteq Replies /\ Mostly \subseteq Replies /\ {"key"} \subseteq Replies
    BY DEF Always, Mostly, Replies
  <2> QED
    BY <2>1, <2>2 DEF CommandAnswers
<1>6. UNION {CommandAnswers[c] : c \in DOMAIN CommandAnswers} \subseteq Replies
  BY <1>5
<1>7. Mostly \subseteq Replies /\ {"key"} \subseteq Replies
  BY DEF Mostly, Replies
<1>8. CASE request = "accelerant"
  <2>1. request \notin DOMAIN IoctlAnswers
    BY <1>8 DEF IoctlAnswers
  <2> QED
    BY <2>1, <1>7, <1>8 DEF Outcomes
<1>9. CASE request = "COMMAND"
  <2>1. request \notin DOMAIN IoctlAnswers
    BY <1>9 DEF IoctlAnswers
  <2> QED
    BY <2>1, <1>6, <1>9 DEF Outcomes
<1>10. CASE request \notin {"accelerant", "COMMAND"} /\ request \in DOMAIN IoctlAnswers
  BY <1>1, <1>10 DEF Outcomes
<1>11. CASE request \notin {"accelerant", "COMMAND"} /\ request \notin DOMAIN IoctlAnswers
  BY <1>7, <1>11 DEF Outcomes
<1> QED
  BY <1>8, <1>9, <1>10, <1>11

(* The calls that make an ioctl are none of the others.                    *)
LEMMA IoctlRequests ==
  ASSUME NEW c \in DOMAIN Ioctl
  PROVE  RequestsOf(c) = <<Ioctl[c]>>
<1>1. PICK f \in Ioctls : c \in DOMAIN f
  BY DEF Ioctl
<1>2. c \notin {"drmGetVersion", "amdgpu_query_heap_info"} \cup UnknownHeap \cup GdsCalls
  BY <1>1 DEF Ioctls, CommandIoctl, CapIoctl, SyncobjIoctl, WaitIoctl, PointIoctl, TransferIoctl,
              BufferIoctl, AuthIoctl, UnknownHeap, GdsCalls
<1>3. c \notin Unsupported
  BY <1>1 DEF Ioctls, CommandIoctl, CapIoctl, SyncobjIoctl, WaitIoctl, PointIoctl, TransferIoctl,
              BufferIoctl, AuthIoctl, Unsupported, BoListCalls, FenceCalls, VmCalls
<1> QED
  BY <1>2, <1>3 DEF RequestsOf

(* A call makes at most two requests.                                      *)
LEMMA RequestsFew ==
  ASSUME NEW c
  PROVE  Len(RequestsOf(c)) \in 0 .. 2
<1>1. CASE c \in DOMAIN Ioctl
  <2>1. RequestsOf(c) = <<Ioctl[c]>>
    BY <1>1, IoctlRequests
  <2> QED
    BY <2>1
<1>2. CASE c \notin DOMAIN Ioctl /\ c = "drmGetVersion"
  <2>1. c \notin UnknownHeap \cup GdsCalls \cup Unsupported
    BY <1>2 DEF UnknownHeap, GdsCalls, Unsupported, BoListCalls, FenceCalls, VmCalls
  <2> QED
    BY <1>2, <2>1 DEF RequestsOf, VersionQueries
<1>3. CASE c \notin DOMAIN Ioctl /\ c = "amdgpu_query_heap_info"
  <2>1. c \notin UnknownHeap \cup GdsCalls \cup Unsupported
    BY <1>3 DEF UnknownHeap, GdsCalls, Unsupported, BoListCalls, FenceCalls, VmCalls
  <2> QED
    BY <1>3, <2>1 DEF RequestsOf, HeapQueries
<1>4. CASE c \notin DOMAIN Ioctl /\ c \in UnknownHeap
  <2>1. c \notin {"drmGetVersion", "amdgpu_query_heap_info"} \cup GdsCalls \cup Unsupported
    BY <1>4 DEF UnknownHeap, GdsCalls, Unsupported, BoListCalls, FenceCalls, VmCalls
  <2> QED
    BY <1>4, <2>1 DEF RequestsOf, UnknownHeapQueries
<1>5. CASE c \notin DOMAIN Ioctl /\ c \in GdsCalls
  BY <1>5 DEF RequestsOf, UnknownHeap, GdsCalls, GdsQueries
<1>6. CASE /\ c \notin DOMAIN Ioctl
           /\ c \notin {"drmGetVersion", "amdgpu_query_heap_info"} \cup UnknownHeap \cup GdsCalls
           /\ c \in Unsupported
  BY <1>6 DEF RequestsOf
<1>7. CASE /\ c \notin DOMAIN Ioctl
           /\ c \notin {"drmGetVersion", "amdgpu_query_heap_info"} \cup UnknownHeap \cup GdsCalls
           /\ c \notin Unsupported
  BY <1>7 DEF RequestsOf
<1> QED
  BY <1>1, <1>2, <1>3, <1>4, <1>5, <1>6, <1>7

(* A heap that is not known is found out after one request.                *)
LEMMA UnknownHeapAsks ==
  ASSUME NEW c \in UnknownHeap
  PROVE  Len(RequestsOf(c)) = 1
<1>1. c \notin DOMAIN Ioctl
  <2>1. \A f \in Ioctls : c \notin DOMAIN f
    BY DEF Ioctls, CommandIoctl, CapIoctl, SyncobjIoctl, WaitIoctl, PointIoctl, TransferIoctl,
           BufferIoctl, AuthIoctl, UnknownHeap
  <2> QED
    BY <2>1 DEF Ioctl
<1>2. RequestsOf(c) = UnknownHeapQueries
  <2>1. c \notin {"drmGetVersion", "amdgpu_query_heap_info"} \cup GdsCalls \cup Unsupported
    BY DEF UnknownHeap, GdsCalls, Unsupported, BoListCalls, FenceCalls, VmCalls
  <2> QED
    BY <1>1, <2>1 DEF RequestsOf
<1> QED
  BY <1>2 DEF UnknownHeapQueries

(* A wait is one request, which the stub always answers.                   *)
LEMMA WaitsAnswered ==
  ASSUME NEW c \in DOMAIN WaitIoctl
  PROVE  /\ Len(RequestsOf(c)) = 1
         /\ Outcomes(RequestsOf(c)[1]) = {"ok"}
<1>1. c \in DOMAIN Ioctl /\ Ioctl[c] \in {"SYNCOBJ_WAIT", "SYNCOBJ_TIMELINE_WAIT"}
  <2>1. c \in {"drmSyncobjWait", "drmSyncobjTimelineWait"}
        /\ WaitIoctl[c] \in {"SYNCOBJ_WAIT", "SYNCOBJ_TIMELINE_WAIT"}
    BY DEF WaitIoctl
  <2>2. \A f \in Ioctls : c \in DOMAIN f => f = WaitIoctl
    BY <2>1 DEF Ioctls, CommandIoctl, CapIoctl, SyncobjIoctl, PointIoctl, TransferIoctl,
                BufferIoctl, AuthIoctl
  <2>3. WaitIoctl \in Ioctls
    BY DEF Ioctls
  <2>4. (CHOOSE f \in Ioctls : c \in DOMAIN f) = WaitIoctl
    BY <2>2, <2>3
  <2> QED
    BY <2>1, <2>3, <2>4 DEF Ioctl
<1>2. RequestsOf(c) = <<Ioctl[c]>>
  BY <1>1, IoctlRequests
<1>3. \A r \in {"SYNCOBJ_WAIT", "SYNCOBJ_TIMELINE_WAIT"} : Outcomes(r) = {"ok"}
  BY DEF Outcomes, IoctlAnswers, Always
<1> QED
  BY <1>1, <1>2, <1>3

(* No call is running.                                                     *)
LEMMA RepliesInit == CallInit => RepliesSound
<1> SUFFICES ASSUME CallInit PROVE RepliesSound
  OBVIOUS
<1>1. replies = <<>> /\ drmCall = "none" /\ report = "none" /\ blocks = {}
  BY DEF CallInit
<1>2. replies \in Seq(Replies) /\ Len(replies) = 0
  BY <1>1
<1>3. AnswersReported
  BY <1>1 DEF AnswersReported
<1> QED
  BY <1>1, <1>2, <1>3 DEF RepliesSound

(* A request and its answer.                                               *)
LEMMA RepliesRequest ==
  ASSUME RepliesSound, CallRequest
  PROVE  RepliesSound'
<1>1. /\ drmCall # "none" /\ report = "none" /\ ~Failed /\ Len(replies) # Len(RequestsOf(drmCall))
      /\ UNCHANGED <<drmCall, errno, report>>
  BY DEF CallRequest, Finished
<1>2. PICK answer \in Outcomes(RequestsOf(drmCall)[Len(replies) + 1]) :
         /\ replies' = Append(replies, answer)
         /\ blocks' = IF drmCall = "drmGetVersion" /\ answer = "ok"
                      THEN blocks \cup KernelVersion ELSE blocks
  BY DEF CallRequest
<1>3. PICK n \in Nat, m \in Nat : n = Len(replies) /\ m = Len(RequestsOf(drmCall)) /\ n < m
  <2>1. Len(replies) \in Nat /\ Len(RequestsOf(drmCall)) \in Nat
    BY RequestsFew DEF RepliesSound
  <2> QED
    BY <2>1, <1>1 DEF RepliesSound
<1>4. /\ replies \in Seq(Replies) /\ answer \in Replies
      /\ \A i \in 1 .. n : replies[i] = "ok"
  <2>1. replies \in Seq(Replies) /\ answer \in Replies
    BY OutcomesAnswers, <1>2 DEF RepliesSound
  <2>2. DOMAIN replies = 1 .. n
    BY <2>1, <1>3
  <2> QED
    BY <2>1, <2>2, <1>1 DEF Failed
<1>5. /\ replies' \in Seq(Replies) /\ Len(replies') = n + 1
      /\ replies'[n + 1] = answer
      /\ \A i \in 1 .. n : replies'[i] = "ok"
  BY <1>2, <1>3, <1>4
<1>6. Len(replies') <= Len(RequestsOf(drmCall')) /\ \A i \in 1 .. Len(replies') - 1 : replies'[i] = "ok"
  BY <1>1, <1>3, <1>5
<1>7. drmCall' \in DOMAIN WaitIoctl => \A i \in 1 .. Len(replies') : replies'[i] = "ok"
  <2> SUFFICES ASSUME drmCall \in DOMAIN WaitIoctl PROVE \A i \in 1 .. n + 1 : replies'[i] = "ok"
    BY <1>1, <1>5
  <2>1. n = 0
    <3>1. m = 1
      BY WaitsAnswered, <1>3
    <3> QED
      BY <3>1, <1>3
  <2>2. answer = "ok"
    BY WaitsAnswered, <2>1, <1>2, <1>3
  <2> QED
    BY <2>1, <2>2, <1>5
<1>8. /\ drmCall' # "drmGetVersion" => blocks' \subseteq {"copy"}
      /\ blocks' \subseteq KernelVersion \cup {"copy"}
  BY <1>1, <1>2 DEF RepliesSound
<1>9. AnswersReported'
  BY <1>1 DEF AnswersReported
<1> QED
  BY <1>1, <1>5, <1>6, <1>7, <1>8, <1>9 DEF RepliesSound

(* The key that the stub waits for.                                        *)
LEMMA RepliesKey ==
  ASSUME RepliesSound, KeyPressed
  PROVE  RepliesSound'
<1>1. /\ replies # <<>> /\ replies[Len(replies)] = "key"
      /\ replies' = [replies EXCEPT ![Len(replies)] = "error"]
      /\ UNCHANGED <<drmCall, errno, report, blocks>>
  BY DEF KeyPressed
<1>2. PICK n \in Nat \ {0} : n = Len(replies)
  <2>1. replies \in Seq(Replies)
    BY DEF RepliesSound
  <2> QED
    BY <2>1, <1>1
<1>3. /\ replies \in Seq(Replies) /\ replies[n] = "key"
      /\ \A i \in 1 .. n - 1 : replies[i] = "ok"
  BY <1>1, <1>2 DEF RepliesSound
<1>4. /\ replies' \in Seq(Replies) /\ Len(replies') = n
      /\ \A i \in 1 .. n - 1 : replies'[i] = "ok"
  BY <1>1, <1>2, <1>3 DEF Replies
<1>5. report = "none" /\ drmCall # "none" /\ drmCall \notin DOMAIN WaitIoctl
  BY <1>1, <1>2, <1>3 DEF RepliesSound
<1>6. AnswersReported'
  BY <1>1, <1>5 DEF AnswersReported
<1>7. Len(replies') <= Len(RequestsOf(drmCall'))
  BY <1>1, <1>2, <1>4, <1>5 DEF RepliesSound
<1> QED
  BY <1>1, <1>4, <1>5, <1>6, <1>7 DEF RepliesSound

(* The call returns.                                                       *)
LEMMA RepliesReturn ==
  ASSUME RepliesSound, CallReturn
  PROVE  RepliesSound'
<1>1. /\ drmCall # "none" /\ report = "none" /\ Finished
      /\ \A i \in DOMAIN replies : replies[i] # "key"
      /\ report' = IF \/ Failed /\ ~(drmCall \in ReturnsErrno /\ ~errno)
                      \/ drmCall \in UnknownHeap
                   THEN "failure" ELSE "success"
      /\ blocks' = IF drmCall # "drmGetVersion" THEN blocks
                   ELSE (blocks \ KernelVersion) \cup (IF Failed THEN {} ELSE {"copy"})
      /\ UNCHANGED <<drmCall, replies, errno>>
  BY DEF CallReturn
<1>2. PICK n \in Nat : n = Len(replies) /\ DOMAIN replies = 1 .. n
  BY DEF RepliesSound
<1>3. /\ replies \in Seq(Replies) /\ n <= Len(RequestsOf(drmCall))
      /\ \A i \in 1 .. n - 1 : replies[i] = "ok"
      /\ drmCall \in DOMAIN WaitIoctl => ~Failed
  BY <1>1, <1>2 DEF RepliesSound, Failed
<1>4. blocks' \subseteq {"copy"}
  BY <1>1 DEF RepliesSound
<1>5. AnswersReported'
  <2>1. CASE ~Failed /\ drmCall \notin UnknownHeap
    <3>1. report' = "success" /\ Len(replies) = Len(RequestsOf(drmCall))
      BY <1>1, <2>1 DEF Finished
    <3>2. ~Failed'
      BY <1>1, <2>1 DEF Failed
    <3> QED
      BY <3>1, <3>2, <1>1, <1>4, <2>1 DEF AnswersReported
  <2>2. CASE ~Failed /\ drmCall \in UnknownHeap
    <3>1. report' = "failure" /\ n = 1
      BY <1>1, <1>2, <2>2, UnknownHeapAsks DEF Finished
    <3>2. replies = <<"ok">>
      <4>1. Len(replies) = 1 /\ replies[1] = "ok"
        BY <1>2, <2>2, <3>1 DEF Failed
      <4> QED
        BY <4>1, <1>3
    <3> QED
      BY <3>1, <3>2, <1>1, <1>4, <2>2 DEF AnswersReported
  <2>3. CASE Failed
    <3>1. StoppedAtFailure
      <4>1. PICK k \in 1 .. n : replies[k] # "ok"
        BY <1>2, <2>3 DEF Failed
      <4>2. k = n
        BY <4>1, <1>2, <1>3
      <4> QED
        BY <4>1, <4>2, <1>2, <1>3 DEF StoppedAtFailure
    <3>2. StoppedAtFailure'
      BY <3>1, <1>1 DEF StoppedAtFailure
    <3>3. report' = "success" => drmCall \in ErrnoFailures /\ ~errno
      BY <1>1, <1>3, <2>3 DEF ReturnsErrno, ErrnoFailures
    <3> QED
      BY <3>2, <3>3, <1>1, <1>4 DEF AnswersReported
  <2> QED
    BY <2>1, <2>2, <2>3
<1> QED
  BY <1>1, <1>2, <1>3, <1>4, <1>5 DEF RepliesSound

(* A call is made, and perhaps refused.                                    *)
LEMMA RepliesStart ==
  ASSUME RepliesSound, NEW c, CallStart(c) \/ CallRefuse(c)
  PROVE  RepliesSound'
<1>1. drmCall = "none" /\ drmCall' = c /\ UNCHANGED replies
  BY DEF CallStart, CallRefuse
<1>2. replies = <<>> /\ report = "none" /\ blocks \subseteq {"copy"} /\ Len(replies) = 0
      /\ replies \in Seq(Replies)
  <2>1. replies = <<>> /\ report = "none" /\ blocks \subseteq {"copy"}
    BY <1>1 DEF RepliesSound
  <2> QED
    BY <2>1
<1>3. /\ replies' \in Seq(Replies) /\ Len(replies') = 0
      /\ \A i \in 1 .. Len(replies') - 1 : FALSE
      /\ \A i \in 1 .. Len(replies') : FALSE
      /\ Len(replies') <= Len(RequestsOf(c))
  BY <1>1, <1>2, RequestsFew
<1>4. CASE CallStart(c)
  <2>1. report' = "none" /\ blocks' = blocks \cup (IF c = "drmGetVersion" THEN {"version"} ELSE {})
    BY <1>2, <1>4 DEF CallStart
  <2>2. AnswersReported'
    BY <2>1 DEF AnswersReported
  <2>3. /\ drmCall' # "drmGetVersion" => blocks' \subseteq {"copy"}
        /\ blocks' \subseteq KernelVersion \cup {"copy"}
    BY <2>1, <1>1, <1>2 DEF KernelVersion
  <2> QED
    BY <2>1, <2>2, <2>3, <1>1, <1>2, <1>3 DEF RepliesSound
<1>5. CASE CallRefuse(c)
  <2>1. c \in Refusing /\ report' = "failure" /\ UNCHANGED blocks
    BY <1>5 DEF CallRefuse
  <2>2. c # "none"
    BY <2>1 DEF Refusing, Unsupported, BoListCalls, FenceCalls, VmCalls, StateCalls, SyncobjCalls,
                TransferCalls, VaOpCalls, GdsCalls
  <2>3. AnswersReported'
    BY <2>1, <1>1, <1>2 DEF AnswersReported
  <2> QED
    BY <2>1, <2>2, <2>3, <1>1, <1>2, <1>3 DEF RepliesSound
<1> QED
  BY <1>4, <1>5

(* Every step keeps answers and reports together.                          *)
LEMMA RepliesNext == RepliesSound /\ [CallNext]_callVars => RepliesSound'
<1> SUFFICES ASSUME RepliesSound, [CallNext]_callVars PROVE RepliesSound'
  OBVIOUS
<1>1. CASE UNCHANGED callVars
  BY <1>1 DEF callVars, RepliesSound, AnswersReported, StoppedAtFailure, Failed
<1>2. CASE CallDone
  <2>1. /\ drmCall' = "none" /\ replies' = <<>> /\ report' = "none" /\ UNCHANGED blocks
        /\ report # "none"
    BY <1>2 DEF CallDone
  <2>2. blocks \subseteq {"copy"}
    BY <2>1 DEF RepliesSound, AnswersReported
  <2>3. replies' \in Seq(Replies) /\ Len(replies') = 0
    BY <2>1
  <2>4. AnswersReported'
    BY <2>1 DEF AnswersReported
  <2>5. drmCall' \notin DOMAIN WaitIoctl
    BY <2>1 DEF WaitIoctl
  <2> QED
    BY <2>1, <2>2, <2>3, <2>4, <2>5 DEF RepliesSound
<1>3. CASE drmFreeVersion
  <2>1. drmCall = "none" /\ blocks' = {} /\ UNCHANGED <<drmCall, replies, errno, report>>
    BY <1>3 DEF drmFreeVersion
  <2>2. AnswersReported'
    BY <2>1 DEF RepliesSound, AnswersReported
  <2> QED
    BY <2>1, <2>2 DEF RepliesSound
<1> QED
  BY <1>1, <1>2, <1>3, RepliesStart, RepliesRequest, RepliesKey, RepliesReturn DEF CallNext

(* What a call reports is what its requests were answered, for every call  *)
(* but those of ErrnoFailures with errno unset.                            *)
THEOREM CallsReport == Spec => []AnswersReported
<1>1. Init => RepliesSound
  BY RepliesInit DEF Init
<1>2. RepliesSound /\ [Next]_vars => RepliesSound'
  BY RepliesNext, SessionSteps
<1>3. RepliesSound => AnswersReported
  BY DEF RepliesSound
<1> QED
  BY <1>1, <1>2, <1>3, PTL DEF Spec

-----------------------------------------------------------------------------
(* Diagnostics: the tables of the tracer.                                  *)

(* A table and what it is about, when each of its cases ends. *)
Truthful(cases, f) ==
    \A i \in 1 .. Len(cases) :
       cases[i].ends /\ (cases[i].on \in DOMAIN f => cases[i].reads = {f[cases[i].on]})

Kinds ==
    {"gem_close", "get_cap", "prime_handle", "syncobj_create", "syncobj_destroy",
     "syncobj_handle", "syncobj_wait", "syncobj_array", "syncobj_timeline_wait",
     "syncobj_transfer", "syncobj_accumulate", "version", "gem_create", "gem_mmap", "ctx", "cs",
     "info", "gem_va", "wait_cs", "gem_userptr", "query_hw_ip", "query_fw", "read_mmr_reg", "IB",
     "FENCE", "DEPENDENCIES", "BO_HANDLES", "SYNCOBJ_TIMELINE"}

Cases == [on : Int, reads : SUBSET Kinds, ends : BOOLEAN]

LEMMA ShownDirect ==
  ASSUME NEW S, NEW cases \in Seq(S), NEW value, NEW x \in Shown(cases, value),
         \A i \in 1 .. Len(cases) : cases[i].ends
  PROVE  \E i \in 1 .. Len(cases) : cases[i].on = value /\ x \in cases[i].reads
<1>1. PICK k \in 1 .. Len(cases) :
         /\ x \in cases[k].reads
         /\ \E i \in 1..k : cases[i].on = value /\ \A l \in i..(k - 1) : ~cases[l].ends
  BY DEF Shown
<1>2. PICK i \in 1 .. k : cases[i].on = value /\ \A l \in i..(k - 1) : ~cases[l].ends
  BY <1>1
<1>3. i \in 1 .. Len(cases)
  BY <1>2
<1>4. i = k
  <2> SUFFICES ASSUME i # k PROVE FALSE
    OBVIOUS
  <2>1. i \in i .. (k - 1)
    OBVIOUS
  <2> QED
    BY <1>2, <1>3, <2>1
<1> QED
  BY <1>1, <1>2, <1>3, <1>4

LEMMA TruthfulShows ==
  ASSUME NEW S, NEW cases \in Seq(S), NEW f, NEW value \in DOMAIN f, Truthful(cases, f)
  PROVE  Shown(cases, value) \subseteq {f[value]}
<1> SUFFICES ASSUME NEW x \in Shown(cases, value) PROVE x = f[value]
  OBVIOUS
<1>1. \A i \in 1 .. Len(cases) : cases[i].ends
  BY DEF Truthful
<1>2. PICK i \in 1 .. Len(cases) : cases[i].on = value /\ x \in cases[i].reads
  BY <1>1, ShownDirect
<1> QED
  BY <1>2 DEF Truthful

LEMMA TruthfulConcat ==
  ASSUME NEW S, NEW s \in Seq(S), NEW t \in Seq(S), NEW f, Truthful(s, f), Truthful(t, f)
  PROVE  s \o t \in Seq(S) /\ Truthful(s \o t, f)
<1>1. PICK m \in Nat, n \in Nat : m = Len(s) /\ n = Len(t)
  OBVIOUS
<1> DEFINE w == s \o t
<1>2. /\ w \in Seq(S) /\ Len(w) = m + n
      /\ \A i \in 1 .. m : w[i] = s[i]
      /\ \A i \in 1 .. n : w[m + i] = t[i]
  BY <1>1
<1> HIDE DEF w
<1>3. ASSUME NEW i \in 1 .. Len(w)
      PROVE  w[i].ends /\ (w[i].on \in DOMAIN f => w[i].reads = {f[w[i].on]})
  <2>1. CASE i <= m
    <3>1. i \in 1 .. Len(s) /\ w[i] = s[i]
      BY <1>1, <1>2, <2>1
    <3> QED
      BY <3>1 DEF Truthful
  <2>2. CASE ~(i <= m)
    <3>1. i - m \in 1 .. n /\ m + (i - m) = i
      BY <1>2, <2>2
    <3>2. w[m + (i - m)] = t[i - m]
      BY <1>2, <3>1
    <3>3. w[i] = t[i - m] /\ i - m \in 1 .. Len(t)
      BY <1>1, <3>1, <3>2
    <3> QED
      BY <3>3 DEF Truthful
  <2> QED
    BY <2>1, <2>2
<1> QED
  BY <1>2, <1>3 DEF Truthful, w


LEMMA CommonNumbers ==
  /\ DOMAIN DrmIoctls = {0, 9, 12} /\ DOMAIN PrimeIoctls = {45, 46}
  /\ DOMAIN SyncobjIoctls = (191 .. 197) \cup (202 .. 205) \cup {207}
  /\ DOMAIN CommonIoctls = DOMAIN DrmIoctls \cup DOMAIN PrimeIoctls \cup DOMAIN SyncobjIoctls
  /\ DOMAIN CommonIoctls \subseteq (0 .. 63) \cup (160 .. 300)
<1>1. DOMAIN DrmIoctls = {0, 9, 12}
  BY DEF DrmIoctls, Joined, Numbered
<1>2. DOMAIN PrimeIoctls = {45, 46}
  BY DEF PrimeIoctls, Numbered
<1>3. DOMAIN SyncobjIoctls = (191 .. 197) \cup (202 .. 205) \cup {207}
  BY DEF SyncobjIoctls, Joined, Numbered
<1>4. DOMAIN CommonIoctls = DOMAIN DrmIoctls \cup DOMAIN PrimeIoctls \cup DOMAIN SyncobjIoctls
  BY DEF CommonIoctls, Joined
<1>5. DOMAIN CommonIoctls \subseteq (0 .. 63) \cup (160 .. 300)
  BY <1>1, <1>2, <1>3, <1>4
<1> QED
  BY <1>1, <1>2, <1>3, <1>4, <1>5

LEMMA CommonValues ==
  /\ CommonIoctls[0] = "version" /\ CommonIoctls[9] = "gem_close"
  /\ CommonIoctls[12] = "get_cap" /\ CommonIoctls[45] = "prime_handle"
  /\ CommonIoctls[46] = "prime_handle" /\ CommonIoctls[191] = "syncobj_create"
  /\ CommonIoctls[192] = "syncobj_destroy" /\ CommonIoctls[193] = "syncobj_handle"
  /\ CommonIoctls[194] = "syncobj_handle" /\ CommonIoctls[195] = "syncobj_wait"
  /\ CommonIoctls[196] = "syncobj_array" /\ CommonIoctls[197] = "syncobj_array"
  /\ CommonIoctls[202] = "syncobj_timeline_wait"
  /\ CommonIoctls[203] = "syncobj_timeline_array" /\ CommonIoctls[204] = "syncobj_transfer"
  /\ CommonIoctls[205] = "syncobj_timeline_array" /\ CommonIoctls[207] = "syncobj_accumulate"
<1>1. DrmIoctls[0] = "version" /\ DrmIoctls[9] = "gem_close" /\ DrmIoctls[12] = "get_cap"
  BY DEF DrmIoctls, Joined, Numbered
<1>2. PrimeIoctls[45] = "prime_handle" /\ PrimeIoctls[46] = "prime_handle"
  BY DEF PrimeIoctls, Numbered
<1>3. /\ SyncobjIoctls[191] = "syncobj_create" /\ SyncobjIoctls[192] = "syncobj_destroy"
      /\ SyncobjIoctls[193] = "syncobj_handle" /\ SyncobjIoctls[194] = "syncobj_handle"
      /\ SyncobjIoctls[195] = "syncobj_wait" /\ SyncobjIoctls[196] = "syncobj_array"
      /\ SyncobjIoctls[197] = "syncobj_array" /\ SyncobjIoctls[202] = "syncobj_timeline_wait"
      /\ SyncobjIoctls[203] = "syncobj_timeline_array" /\ SyncobjIoctls[204] = "syncobj_transfer"
      /\ SyncobjIoctls[205] = "syncobj_timeline_array"
      /\ SyncobjIoctls[207] = "syncobj_accumulate"
  BY DEF SyncobjIoctls, Joined, Numbered
<1>4. \A n \in DOMAIN DrmIoctls : CommonIoctls[n] = DrmIoctls[n]
  BY DEF CommonIoctls, Joined
<1>5. \A n \in DOMAIN PrimeIoctls :
         n \notin DOMAIN DrmIoctls => CommonIoctls[n] = PrimeIoctls[n]
  BY DEF CommonIoctls, Joined
<1>6. \A n \in DOMAIN SyncobjIoctls :
         n \notin DOMAIN DrmIoctls \cup DOMAIN PrimeIoctls => CommonIoctls[n] = SyncobjIoctls[n]
  BY DEF CommonIoctls, Joined
<1>7. CommonIoctls[0] = "version" /\ CommonIoctls[9] = "gem_close" /\ CommonIoctls[12] = "get_cap"
  BY <1>1, <1>4, CommonNumbers
<1>8. CommonIoctls[45] = "prime_handle" /\ CommonIoctls[46] = "prime_handle"
  BY <1>2, <1>5, CommonNumbers
<1>9. \A n \in DOMAIN SyncobjIoctls : CommonIoctls[n] = SyncobjIoctls[n]
  BY <1>6, CommonNumbers
<1> QED
  BY <1>3, <1>7, <1>8, <1>9, CommonNumbers

LEMMA CommonRecords ==
  ASSUME NEW n \in DOMAIN CommonIoctls
  PROVE  CommonIoctls[n] \notin {"info", "cs", "wait_cs"} \cup Lists
<1>1. n \in {0, 9, 12, 45, 46, 191, 192, 193, 194, 195, 196, 197, 202, 203, 204, 205, 207}
  BY CommonNumbers
<1> QED
  BY <1>1, CommonValues DEF Lists

LEMMA CommandNumbers ==
  /\ DOMAIN DRM_AMDGPU = (0 .. 9) \cup (16 .. 21)
  /\ DRM_AMDGPU[0] = "gem_create" /\ DRM_AMDGPU[1] = "gem_mmap" /\ DRM_AMDGPU[2] = "ctx"
  /\ DRM_AMDGPU[3] = "bo_list" /\ DRM_AMDGPU[4] = "cs" /\ DRM_AMDGPU[5] = "info"
  /\ DRM_AMDGPU[6] = "gem_metadata" /\ DRM_AMDGPU[7] = "gem_wait_idle"
  /\ DRM_AMDGPU[8] = "gem_va" /\ DRM_AMDGPU[9] = "wait_cs"
  /\ DRM_AMDGPU[16] = "gem_op" /\ DRM_AMDGPU[17] = "gem_userptr"
  /\ DRM_AMDGPU[18] = "wait_fences" /\ DRM_AMDGPU[19] = "vm"
  /\ DRM_AMDGPU[20] = "fence_to_handle" /\ DRM_AMDGPU[21] = "sched"
BY DEF DRM_AMDGPU, Joined, Numbered

LEMMA PassedNumbers ==
  ASSUME NEW n \in DOMAIN Passed
  PROVE  \/ n \in DOMAIN CommonIoctls /\ Passed[n] = CommonIoctls[n] /\ ~IsCommand(n)
         \/ /\ n - DRM_COMMAND_BASE \in DOMAIN DRM_AMDGPU /\ IsCommand(n)
            /\ Passed[n] = Command(n) /\ Command(n) = DRM_AMDGPU[n - DRM_COMMAND_BASE]
<1> DEFINE commands == {DRM_COMMAND_BASE + c : c \in DOMAIN DRM_AMDGPU}
<1>1. DOMAIN Passed = DOMAIN CommonIoctls \cup commands
  BY DEF Passed, Joined
<1>2. Passed[n] = IF n \in DOMAIN CommonIoctls THEN CommonIoctls[n] ELSE Command(n)
  BY DEF Passed, Joined
<1>3. \A c \in commands : /\ c \in 64 .. 85 /\ c - DRM_COMMAND_BASE \in DOMAIN DRM_AMDGPU
                          /\ IsCommand(c)
  BY CommandNumbers DEF DRM_COMMAND_BASE, DRM_COMMAND_END, IsCommand
<1>4. \A c \in DOMAIN CommonIoctls : c \notin 64 .. 85 /\ ~IsCommand(c)
  BY CommonNumbers DEF DRM_COMMAND_BASE, DRM_COMMAND_END, IsCommand
<1> HIDE DEF commands
<1> QED
  BY <1>1, <1>2, <1>3, <1>4 DEF Command

LEMMA DrmTables ==
  /\ DrmBefore \o SyncobjBefore \in Seq(Cases)
  /\ Truthful(DrmBefore \o SyncobjBefore, CommonIoctls)
  /\ DrmAfter \in Seq(Cases) /\ Truthful(DrmAfter, CommonIoctls)
<1>1. DrmBefore \in Seq(Cases) /\ SyncobjBefore \in Seq(Cases) /\ DrmAfter \in Seq(Cases)
  BY DEF DrmBefore, SyncobjBefore, DrmAfter, Case, Cases, Kinds
<1>2. Truthful(DrmBefore, CommonIoctls)
  BY CommonValues DEF Truthful, DrmBefore, Case
<1>3. Truthful(SyncobjBefore, CommonIoctls)
  BY CommonValues DEF Truthful, SyncobjBefore, Case
<1>4. Truthful(DrmAfter, CommonIoctls)
  BY CommonValues DEF Truthful, DrmAfter, Case
<1> QED
  BY <1>1, <1>2, <1>3, <1>4, TruthfulConcat

LEMMA CommandTables ==
  /\ BoBefore \o CsBefore \o AmdgpuBefore \in Seq(Cases)
  /\ Truthful(BoBefore \o CsBefore \o AmdgpuBefore, DRM_AMDGPU)
<1>1. BoBefore \in Seq(Cases) /\ CsBefore \in Seq(Cases) /\ AmdgpuBefore \in Seq(Cases)
  BY DEF BoBefore, CsBefore, AmdgpuBefore, Case, Cases, Kinds
<1>2. Truthful(BoBefore, DRM_AMDGPU)
  BY CommandNumbers DEF Truthful, BoBefore, Case
<1>3. Truthful(CsBefore, DRM_AMDGPU)
  BY CommandNumbers DEF Truthful, CsBefore, Case
<1>4. Truthful(AmdgpuBefore, DRM_AMDGPU)
  BY CommandNumbers DEF Truthful, AmdgpuBefore, Case
<1>5. BoBefore \o CsBefore \in Seq(Cases) /\ Truthful(BoBefore \o CsBefore, DRM_AMDGPU)
  BY <1>1, <1>2, <1>3, TruthfulConcat
<1> DEFINE s == BoBefore \o CsBefore
<1> HIDE DEF s
<1>6. s \o AmdgpuBefore \in Seq(Cases) /\ Truthful(s \o AmdgpuBefore, DRM_AMDGPU)
  BY <1>1, <1>4, <1>5, TruthfulConcat DEF s
<1> QED
  BY <1>6 DEF s

LEMMA ChunkTable ==
  ChunkCases \in Seq(Cases) /\ Truthful(ChunkCases, AMDGPU_CHUNK_ID)
<1>1. ChunkCases \in Seq(Cases)
  BY DEF ChunkCases, Case, Cases, Kinds
<1>2. Truthful(ChunkCases, AMDGPU_CHUNK_ID)
  BY DEF AMDGPU_CHUNK_ID, Numbered, ChunkCases, Truthful, Case
<1> QED
  BY <1>1, <1>2

LEMMA InfoTable ==
  ASSUME NEW q \in DOMAIN InfoAnswer, NEW x \in Shown(InfoBefore, AMDGPU_INFO[q])
  PROVE  q \in DOMAIN InfoRequest /\ x = InfoRequest[q]
<1>1. InfoBefore \in Seq(Cases) /\ Len(InfoBefore) = 3
  BY DEF InfoBefore, Case, Cases, Kinds
<1>2. \A i \in 1 .. 3 : InfoBefore[i].ends
  BY DEF InfoBefore, Case
<1>3. PICK i \in 1 .. 3 : InfoBefore[i].on = AMDGPU_INFO[q] /\ x \in InfoBefore[i].reads
  <2>1. \A i \in 1 .. Len(InfoBefore) : InfoBefore[i].ends
    BY <1>1, <1>2
  <2>2. \E i \in 1 .. Len(InfoBefore) :
           InfoBefore[i].on = AMDGPU_INFO[q] /\ x \in InfoBefore[i].reads
    BY <1>1, <2>1, ShownDirect
  <2> QED
    BY <1>1, <2>2
<1>4. \/ AMDGPU_INFO[q] = 2 /\ x = "query_hw_ip"
      \/ AMDGPU_INFO[q] = 14 /\ x = "query_fw"
      \/ AMDGPU_INFO[q] = 21 /\ x = "read_mmr_reg"
  BY <1>3 DEF InfoBefore, Case
<1>5. \/ q = "HW_IP_INFO" /\ x = "query_hw_ip"
      \/ q = "FW_VERSION" /\ x = "query_fw"
      \/ q = "READ_MMR_REG" /\ x = "read_mmr_reg"
  BY <1>4 DEF AMDGPU_INFO, InfoAnswer
<1> QED
  BY <1>5 DEF InfoRequest

LEMMA AfterTable ==
  ASSUME NEW c \in DOMAIN DRM_AMDGPU, DRM_AMDGPU[c] # "wait_cs"
  PROVE  Shown(AmdgpuAfter, DRM_AMDGPU[c]) \subseteq {DRM_AMDGPU[c]}
<1>1. PICK v : v = DRM_AMDGPU[c]
  OBVIOUS
<1>2. /\ AmdgpuAfter[1] = Case("gem_create", "gem_create")
      /\ AmdgpuAfter[2] = Case("gem_mmap", "gem_mmap")
      /\ AmdgpuAfter[3] = Case("info", "info") /\ AmdgpuAfter[4] = Case("ctx", "ctx")
      /\ AmdgpuAfter[5] = Case("cs", "cs") /\ AmdgpuAfter[6] = RunOn("wait_cs", {"wait_cs"})
      /\ AmdgpuAfter[7] = RunOn("gem_userptr", {"gem_userptr"}) /\ DOMAIN AmdgpuAfter = 1 .. 7
  BY DEF AmdgpuAfter
<1>3. /\ \A i \in 1 .. 5 : AmdgpuAfter[i].ends
      /\ \A i \in 1 .. 7 : AmdgpuAfter[i].reads = {AmdgpuAfter[i].on}
      /\ AmdgpuAfter[6].on = "wait_cs"
  BY <1>2 DEF Case, RunOn
<1>4. ASSUME NEW x \in Shown(AmdgpuAfter, v) PROVE x = v
  <2>1. PICK k \in 1 .. 7 : /\ x \in AmdgpuAfter[k].reads
                            /\ \E i \in 1..k : /\ AmdgpuAfter[i].on = v
                                               /\ \A l \in i..(k - 1) : ~AmdgpuAfter[l].ends
    BY <1>2, <1>4 DEF Shown
  <2>2. PICK i \in 1 .. k : AmdgpuAfter[i].on = v /\ \A l \in i..(k - 1) : ~AmdgpuAfter[l].ends
    BY <2>1
  <2>3. i # 6
    BY <1>1, <1>3, <2>2
  <2>4. i = k
    <3> SUFFICES ASSUME i # k PROVE FALSE
      OBVIOUS
    <3>1. i \in i .. (k - 1) /\ i \in 1 .. 5
      BY <2>3
    <3> QED
      BY <1>3, <2>2, <3>1
  <2> QED
    BY <1>3, <2>1, <2>2, <2>4
<1> QED
  BY <1>1, <1>4

MemoryQueries == {"CRTC_FROM_ID", "HW_IP_COUNT", "VRAM_USAGE", "GTT_USAGE", "VIS_VRAM_USAGE"}

LEMMA AnswerTable ==
  ASSUME NEW q \in DOMAIN InfoAnswer, q \notin MemoryQueries
  PROVE  Shown(InfoAfter, q) \subseteq {InfoAnswer[q]}
<1>1. /\ DOMAIN InfoAfter = 1 .. 13
      /\ InfoAfter[1] = Case("ACCEL_WORKING", "uint32") /\ InfoAfter[2] = Case("DEV_INFO", "device")
      /\ InfoAfter[3] = Case("HW_IP_INFO", "hw_ip") /\ InfoAfter[4] = Case("FW_VERSION", "firmware")
      /\ InfoAfter[5] = Case("GDS_CONFIG", "gds") /\ InfoAfter[6] = Case("VRAM_GTT", "vram_gtt")
      /\ InfoAfter[7] = Case("READ_MMR_REG", "registers") /\ InfoAfter[8] = RunOn("CRTC_FROM_ID", {})
      /\ InfoAfter[9] = RunOn("HW_IP_COUNT", {}) /\ InfoAfter[10] = RunOn("VRAM_USAGE", {})
      /\ InfoAfter[11] = RunOn("GTT_USAGE", {}) /\ InfoAfter[12] = RunOn("VIS_VRAM_USAGE", {})
      /\ InfoAfter[13] = Case("MEMORY", "memory_info")
  BY DEF InfoAfter
<1>2. /\ \A i \in 1 .. 7 : InfoAfter[i].ends
      /\ \A i \in 8 .. 12 : InfoAfter[i].on \in MemoryQueries
      /\ InfoAfter[13].on = "MEMORY"
      /\ \A i \in 1 .. 7 : InfoAfter[i].reads = {InfoAnswer[InfoAfter[i].on]}
  <2>1. \A i \in 1 .. 7 : InfoAfter[i].ends
    BY <1>1 DEF Case
  <2>2. \A i \in 8 .. 12 : InfoAfter[i].on \in MemoryQueries
    BY <1>1 DEF RunOn, MemoryQueries
  <2>3. InfoAfter[13].on = "MEMORY"
    BY <1>1 DEF Case
  <2>4. \A i \in 1 .. 7 : InfoAfter[i].reads = {InfoAnswer[InfoAfter[i].on]}
    BY <1>1 DEF Case, InfoAnswer
  <2> QED
    BY <2>1, <2>2, <2>3, <2>4
<1>3. q # "MEMORY"
  BY DEF InfoAnswer
<1>4. ASSUME NEW x \in Shown(InfoAfter, q) PROVE x = InfoAnswer[q]
  <2>1. PICK k \in 1 .. 13 : /\ x \in InfoAfter[k].reads
                             /\ \E i \in 1..k : /\ InfoAfter[i].on = q
                                                /\ \A l \in i..(k - 1) : ~InfoAfter[l].ends
    BY <1>1, <1>4 DEF Shown
  <2>2. PICK i \in 1 .. k : InfoAfter[i].on = q /\ \A l \in i..(k - 1) : ~InfoAfter[l].ends
    BY <2>1
  <2>3. i \in 1 .. 7
    BY <1>2, <1>3, <2>2
  <2>4. i = k
    <3> SUFFICES ASSUME i # k PROVE FALSE
      OBVIOUS
    <3>1. i \in i .. (k - 1)
      OBVIOUS
    <3> QED
      BY <1>2, <2>2, <2>3, <3>1
  <2> QED
    BY <1>2, <2>1, <2>2, <2>3, <2>4
<1> QED
  BY <1>4

-----------------------------------------------------------------------------
(* Diagnostics: the tracer.                                                *)

(* The requests that are traced: without more, with a query, with chunks.  *)
LEMMA TracedRequests ==
  ASSUME NEW r \in Traced
  PROVE  /\ r.number \in DOMAIN Passed
         /\ \/ r.query = "none" /\ r.chunks = <<>>
            \/ r.query \in DOMAIN InfoAnswer /\ r.chunks = <<>> /\ Passed[r.number] = "info"
            \/ r.query = "none" /\ r.chunks \in ChunkLists /\ Passed[r.number] = "cs"
<1>1. \A n, q, l : /\ Request(n, q, l).number = n /\ Request(n, q, l).query = q
                   /\ Request(n, q, l).chunks = l
  BY DEF Request
<1>2. CASE r \in {Request(n, "none", <<>>) :
                    n \in {m \in DOMAIN Passed : Passed[m] \notin {"info", "cs"}}}
  BY <1>1, <1>2
<1>3. CASE r \in {Request(n, q, <<>>) : n \in {m \in DOMAIN Passed : Passed[m] = "info"},
                                        q \in DOMAIN InfoAnswer}
  BY <1>1, <1>3
<1>4. CASE r \in {Request(n, "none", l) : n \in {m \in DOMAIN Passed : Passed[m] = "cs"},
                                          l \in ChunkLists}
  BY <1>1, <1>4
<1> QED
  BY <1>2, <1>3, <1>4 DEF Traced

LEMMA ChunkListsSeq ==
  ASSUME NEW l \in ChunkLists
  PROVE  \A i \in DOMAIN l : l[i] \in Chunks
<1>1. l \in Seq(Chunks)
  <2>1. CASE l = <<>>
    BY <2>1
  <2>2. CASE \E c \in Chunks : l = <<c>>
    BY <2>2
  <2>3. CASE \E c, d \in Chunks : l = <<c, d>>
    BY <2>3
  <2> QED
    BY <2>1, <2>2, <2>3 DEF ChunkLists
<1> QED
  BY <1>1

LEMMA ChunkIds ==
  /\ DOMAIN AMDGPU_CHUNK_ID = 1 .. 9
  /\ AMDGPU_CHUNK_ID[1] = "IB" /\ AMDGPU_CHUNK_ID[2] = "FENCE"
  /\ AMDGPU_CHUNK_ID[3] = "DEPENDENCIES" /\ AMDGPU_CHUNK_ID[4] = "SYNCOBJ_IN"
  /\ AMDGPU_CHUNK_ID[5] = "SYNCOBJ_OUT" /\ AMDGPU_CHUNK_ID[6] = "BO_HANDLES"
  /\ AMDGPU_CHUNK_ID[7] = "SCHEDULED_DEPENDENCIES" /\ AMDGPU_CHUNK_ID[8] = "SYNCOBJ_TIMELINE"
  /\ AMDGPU_CHUNK_ID[9] = "SYNCOBJ_TIMELINE"
BY DEF AMDGPU_CHUNK_ID, Numbered

LEMMA ChunkIs ==
  ASSUME NEW c \in Chunks
  PROVE  c.id \in DOMAIN AMDGPU_CHUNK_ID /\ c.words \in Nat
<1>1. PICK id \in DOMAIN AMDGPU_CHUNK_ID :
         \E words \in Lengths(AMDGPU_CHUNK_ID[id]), n \in Numbers(AMDGPU_CHUNK_ID[id]) :
            c = [id |-> id, words |-> words, bo_number |-> n]
  BY DEF Chunks
<1>2. PICK words \in Lengths(AMDGPU_CHUNK_ID[id]) : c.id = id /\ c.words = words
  BY <1>1
<1>3. words \in Nat
  BY DEF Lengths
<1> QED
  BY <1>2, <1>3

LEMMA ChunkLengths ==
  ASSUME NEW kind \in DOMAIN ChunkWords, NEW w \in Nat
  PROVE  /\ w \div ChunkWords[kind] \in Nat
         /\ kind \notin Lists => ChunkShown(kind, w) = 1
         /\ kind \in Lists =>
               ChunkShown(kind, w) = (w \div ChunkWords[kind])
                                     + (IF w % ChunkWords[kind] = 0 THEN 0 ELSE 1)
<1>1. CASE kind \in {"IB", "FENCE", "BO_HANDLES"}
  BY <1>1 DEF ChunkWords, ChunkShown, Lists
<1>2. CASE kind = "DEPENDENCIES"
  <2>1. ChunkWords[kind] = 6 /\ ChunkShown(kind, w) = (w + 6 - 1) \div 6 /\ kind \in Lists
    BY <1>2 DEF ChunkWords, ChunkShown, Lists
  <2>2. w \div 6 \in Nat /\ (w + 6 - 1) \div 6 = (w \div 6) + (IF w % 6 = 0 THEN 0 ELSE 1)
    OBVIOUS
  <2> QED
    BY <2>1, <2>2
<1>3. CASE kind = "SYNCOBJ_TIMELINE"
  <2>1. ChunkWords[kind] = 4 /\ ChunkShown(kind, w) = (w + 4 - 1) \div 4 /\ kind \in Lists
    BY <1>3 DEF ChunkWords, ChunkShown, Lists
  <2>2. w \div 4 \in Nat /\ (w + 4 - 1) \div 4 = (w \div 4) + (IF w % 4 = 0 THEN 0 ELSE 1)
    OBVIOUS
  <2> QED
    BY <2>1, <2>2
<1> QED
  BY <1>1, <1>2, <1>3 DEF ChunkWords

(* What is shown of a chunk is what it holds and the record in which it    *)
(* ends too early; of a list every whole record is shown.                  *)
LEMMA ChunkFaithful ==
  ASSUME NEW c \in Chunks, NEW i
  PROVE  /\ ChunkRecords(c, i) \subseteq ChunkHeld(c, i) \cup ChunkCut(c, i)
         /\ \A x \in ChunkHeld(c, i) : x[1] \in Lists => x \in ChunkRecords(c, i)
<1>1. PICK kind : kind = AMDGPU_CHUNK_ID[c.id]
  OBVIOUS
<1>2. PICK w \in Nat : w = c.words
  BY ChunkIs
<1>3. Shown(ChunkCases, c.id) \subseteq {kind}
  BY <1>1, ChunkIs, ChunkTable, TruthfulShows
<1>4. ASSUME kind \notin DOMAIN ChunkWords PROVE Shown(ChunkCases, c.id) = {}
  <2> SUFFICES ASSUME NEW x \in Shown(ChunkCases, c.id) PROVE FALSE
    OBVIOUS
  <2>1. \A k \in 1 .. Len(ChunkCases) : ChunkCases[k].ends
    BY ChunkTable DEF Truthful
  <2>2. PICK k \in 1 .. Len(ChunkCases) : x \in ChunkCases[k].reads
    BY <2>1, ChunkTable, ShownDirect
  <2>3. \A l \in 1 .. Len(ChunkCases) : ChunkCases[l].reads \subseteq DOMAIN ChunkWords
    BY DEF ChunkCases, Case, ChunkWords
  <2> QED
    BY <1>3, <1>4, <2>2, <2>3
<1>5. CASE kind \notin DOMAIN ChunkWords
  <2>1. ChunkRecords(c, i) = {} /\ ChunkHeld(c, i) = {}
    BY <1>1, <1>4, <1>5 DEF ChunkRecords, ChunkHeld
  <2> QED
    BY <2>1
<1>6. CASE kind \in DOMAIN ChunkWords
  <2>1. PICK whole \in Nat, part \in Nat, seen \in Nat :
           /\ whole = w \div ChunkWords[kind] /\ seen = ChunkShown(kind, w)
           /\ kind \notin Lists => seen = 1
           /\ kind \in Lists => seen = whole + (IF part = 0 THEN 0 ELSE 1)
           /\ part = 0 <=> w % ChunkWords[kind] = 0
    <3>1. PICK part \in Nat : part = 0 <=> w % ChunkWords[kind] = 0
      <4>1. 0 \in Nat /\ 1 \in Nat /\ 1 # 0
        OBVIOUS
      <4> QED
        BY <4>1
    <3>2. w \div ChunkWords[kind] \in Nat
      BY <1>6, ChunkLengths
    <3>3. /\ kind \notin Lists => ChunkShown(kind, w) = 1
          /\ kind \in Lists =>
                ChunkShown(kind, w) = (w \div ChunkWords[kind]) + (IF part = 0 THEN 0 ELSE 1)
      BY <1>6, <3>1, ChunkLengths
    <3>4. ChunkShown(kind, w) \in Nat
      BY <3>2, <3>3
    <3> QED
      BY <3>1, <3>2, <3>3, <3>4
  <2>2. Whole(c) = whole
    BY <1>1, <1>2, <2>1 DEF Whole
  <2>3. ChunkHeld(c, i) = Records(kind, whole, i) \cup (IF whole > 0 THEN BoInfo(c, i) ELSE {})
    BY <1>1, <1>6, <2>2 DEF ChunkHeld
  <2>4. ChunkCut(c, i) =
           IF IF kind \in Lists THEN part # 0 ELSE whole = 0
           THEN {<<kind, whole + 1, i>>} \cup BoInfo(c, i) ELSE {}
    BY <1>1, <1>2, <1>6, <2>1, <2>2 DEF ChunkCut
  <2>5. ChunkRecords(c, i) =
           IF kind \in Shown(ChunkCases, c.id) THEN Records(kind, seen, i) \cup BoInfo(c, i) ELSE {}
    <3>1. \A k \in Shown(ChunkCases, c.id) :
             (IF k = "BO_HANDLES" THEN Records("bo_info", c.bo_number, i) ELSE {}) = BoInfo(c, i)
      BY <1>1, <1>3 DEF BoInfo
    <3>2. ChunkRecords(c, i) =
             UNION {Records(k, ChunkShown(k, w), i) \cup BoInfo(c, i) : k \in Shown(ChunkCases, c.id)}
      BY <1>2, <3>1 DEF ChunkRecords
    <3> QED
      BY <1>3, <2>1, <3>2
  <2>6. \A k \in 1 .. seen : k \in 1 .. whole \/ (k = whole + 1 /\ IF kind \in Lists THEN part # 0 ELSE whole = 0)
    BY <2>1
  <2>7. \A x \in Records(kind, seen, i) :
           x \in Records(kind, whole, i)
           \/ (x = <<kind, whole + 1, i>> /\ IF kind \in Lists THEN part # 0 ELSE whole = 0)
    BY <2>6 DEF Records
  <2>8. ChunkRecords(c, i) \subseteq ChunkHeld(c, i) \cup ChunkCut(c, i)
    <3>1. Records(kind, seen, i) \subseteq ChunkHeld(c, i) \cup ChunkCut(c, i)
      BY <2>3, <2>4, <2>7
    <3>2. BoInfo(c, i) \subseteq ChunkHeld(c, i) \cup ChunkCut(c, i)
      <4>1. CASE kind \in Lists
        BY <1>1, <4>1 DEF BoInfo, Lists
      <4>2. CASE kind \notin Lists
        <5>1. whole > 0 \/ whole = 0
          OBVIOUS
        <5> QED
          BY <2>3, <2>4, <4>2, <5>1
      <4> QED
        BY <4>1, <4>2
    <3> QED
      BY <2>5, <3>1, <3>2
  <2>9. ASSUME NEW x \in ChunkHeld(c, i), x[1] \in Lists PROVE x \in ChunkRecords(c, i)
    <3>1. \A y \in BoInfo(c, i) : y[1] \notin Lists
      BY DEF BoInfo, Records, Lists
    <3>2. x \in Records(kind, whole, i)
      BY <2>3, <2>9, <3>1
    <3>3. kind \in Lists
      BY <2>9, <3>2 DEF Records
    <3>4. \A k \in 1 .. whole : k \in 1 .. seen
      BY <2>1, <3>3
    <3>5. x \in Records(kind, seen, i)
      BY <3>2, <3>4 DEF Records
    <3>6. kind \in Shown(ChunkCases, c.id)
      <4>1. c.id \in {3, 8, 9}
        BY <1>1, <3>3, ChunkIs, ChunkIds DEF Lists
      <4>2. \E k \in 1 .. 6 : ChunkCases[k].on = c.id /\ ChunkCases[k].reads = {kind}
        BY <1>1, <4>1, ChunkIds DEF ChunkCases, Case
      <4>3. PICK k \in 1 .. 6 : ChunkCases[k].on = c.id /\ kind \in ChunkCases[k].reads
        BY <4>2
      <4>4. DOMAIN ChunkCases = 1 .. 6
        BY DEF ChunkCases
      <4>5. k \in 1 .. k /\ k .. (k - 1) = {}
        OBVIOUS
      <4> QED
        BY <4>3, <4>4, <4>5 DEF Shown
    <3> QED
      BY <2>5, <3>5, <3>6
  <2> QED
    BY <2>8, <2>9
<1> QED
  BY <1>5, <1>6

(* The first record of a kind that a table shows. *)
LEMMA FirstOnly ==
  ASSUME NEW kinds, NEW kind, kinds \subseteq {kind}
  PROVE  Firsts(kinds) \subseteq Records(kind, 1, 0)
BY DEF Firsts

(* Before a request is made: its own record and no other.                  *)
LEMMA BeforeFaithful ==
  ASSUME NEW r \in Traced
  PROVE  /\ ReadBefore(r) \subseteq Held(r) \cup Cut(r)
         /\ {x \in Held(r) : x[1] \in Lists} \subseteq ReadBefore(r)
<1> DEFINE c == r.number - DRM_COMMAND_BASE
           mine == Records(Passed[r.number], 1, 0)
           asked == IF r.query \in DOMAIN InfoRequest THEN Records(InfoRequest[r.query], 1, 0) ELSE {}
           chunks == UNION {ChunkHeld(r.chunks[i], i) : i \in DOMAIN r.chunks}
<1>1. Held(r) = mine \cup asked \cup chunks
  BY DEF Held
<1>2. \A x \in mine : x[1] \notin Lists
  <2>1. ASSUME r.number \in DOMAIN CommonIoctls PROVE CommonIoctls[r.number] \notin Lists
    BY <2>1, CommonRecords
  <2>2. ASSUME c \in DOMAIN DRM_AMDGPU PROVE DRM_AMDGPU[c] \notin Lists
    BY <2>2, CommandNumbers DEF Lists
  <2>3. Passed[r.number] \notin Lists
    BY <2>1, <2>2, TracedRequests, PassedNumbers
  <2> QED
    BY <2>3 DEF Records
<1>3. \A x \in asked : x[1] \notin Lists
  BY DEF InfoRequest, Lists, Records
<1>4. CASE ~IsCommand(r.number)
  <2>1. r.number \in DOMAIN CommonIoctls /\ Passed[r.number] = CommonIoctls[r.number]
    BY <1>4, TracedRequests, PassedNumbers
  <2>2. r.query = "none" /\ r.chunks = <<>>
    <3>1. Passed[r.number] \notin {"info", "cs"}
      BY <2>1, CommonRecords
    <3> QED
      BY <3>1, TracedRequests
  <2>3. Shown(DrmBefore \o SyncobjBefore, r.number) \subseteq {Passed[r.number]}
    BY <2>1, DrmTables, TruthfulShows
  <2>4. ReadBefore(r) = Firsts(Shown(DrmBefore \o SyncobjBefore, r.number))
    BY <1>4 DEF ReadBefore
  <2>5. chunks = {}
    BY <2>2
  <2>6. ReadBefore(r) \subseteq mine
    BY <2>3, <2>4, FirstOnly
  <2> HIDE DEF asked, chunks, mine
  <2>7. \A x \in Held(r) : x[1] \notin Lists
    BY <1>1, <1>2, <1>3, <2>5
  <2> QED
    BY <1>1, <2>6, <2>7
<1>5. CASE IsCommand(r.number)
  <2>1. c \in DOMAIN DRM_AMDGPU /\ Passed[r.number] = DRM_AMDGPU[c]
    BY <1>5, TracedRequests, PassedNumbers
  <2> DEFINE own == Firsts(Shown(BoBefore \o CsBefore \o AmdgpuBefore, c))
             query == IF r.query # "none" THEN Firsts(Shown(InfoBefore, AMDGPU_INFO[r.query])) ELSE {}
             records == UNION {ChunkRecords(r.chunks[i], i) : i \in DOMAIN r.chunks}
  <2>2. ReadBefore(r) = own \cup query \cup records
    BY <1>5 DEF ReadBefore
  <2>3. own \subseteq mine
    <3>1. Shown(BoBefore \o CsBefore \o AmdgpuBefore, c) \subseteq {DRM_AMDGPU[c]}
      BY <2>1, CommandTables, TruthfulShows
    <3> QED
      BY <2>1, <3>1, FirstOnly
  <2>4. query \subseteq asked
    <3>1. CASE r.query = "none"
      BY <3>1
    <3>2. CASE r.query # "none"
      <4>1. r.query \in DOMAIN InfoAnswer
        BY <3>2, TracedRequests
      <4>2. ASSUME NEW x \in Shown(InfoBefore, AMDGPU_INFO[r.query])
            PROVE  r.query \in DOMAIN InfoRequest /\ x = InfoRequest[r.query]
        BY <4>1, InfoTable
      <4> QED
        BY <4>2 DEF Firsts
    <3> QED
      BY <3>1, <3>2
  <2>5. \A i \in DOMAIN r.chunks : r.chunks[i] \in Chunks
    <3>1. r.chunks \in ChunkLists
      BY TracedRequests DEF ChunkLists
    <3> QED
      BY <3>1, ChunkListsSeq
  <2>6. records \subseteq chunks \cup Cut(r)
    <3>1. ASSUME NEW i \in DOMAIN r.chunks
          PROVE  ChunkRecords(r.chunks[i], i) \subseteq ChunkHeld(r.chunks[i], i) \cup ChunkCut(r.chunks[i], i)
      BY <2>5, ChunkFaithful
    <3> QED
      BY <3>1 DEF Cut
  <2>7. ASSUME NEW x \in chunks, x[1] \in Lists PROVE x \in records
    <3>1. PICK i \in DOMAIN r.chunks : x \in ChunkHeld(r.chunks[i], i)
      BY <2>7
    <3>2. x \in ChunkRecords(r.chunks[i], i)
      BY <2>5, <2>7, <3>1, ChunkFaithful
    <3> QED
      BY <3>2
  <2> HIDE DEF own, query, records, asked, chunks, mine
  <2>8. ASSUME NEW x \in Held(r), x[1] \in Lists PROVE x \in records
    BY <1>1, <1>2, <1>3, <2>7, <2>8
  <2> QED
    BY <1>1, <2>2, <2>3, <2>4, <2>6, <2>8
<1> QED
  BY <1>4, <1>5

(* After it: the answer, unless it runs on into another case.              *)
LEMMA AfterFaithful ==
  ASSUME NEW r \in Traced, ~RunsOn(r)
  PROVE  ReadAfter(r) \subseteq Answered(r)
<1> DEFINE c == r.number - DRM_COMMAND_BASE
<1>1. CASE ~IsCommand(r.number)
  <2>1. r.number \in DOMAIN CommonIoctls /\ Passed[r.number] = CommonIoctls[r.number]
    BY <1>1, TracedRequests, PassedNumbers
  <2>2. Shown(DrmAfter, r.number) \subseteq {Passed[r.number]}
    BY <2>1, DrmTables, TruthfulShows
  <2>3. ReadAfter(r) = Firsts(Shown(DrmAfter, r.number))
    BY <1>1 DEF ReadAfter
  <2>4. ReadAfter(r) \subseteq Records(Passed[r.number], 1, 0)
    BY <2>2, <2>3, FirstOnly
  <2> QED
    BY <2>4 DEF Answered
<1>2. CASE IsCommand(r.number)
  <2>1. /\ c \in DOMAIN DRM_AMDGPU /\ Passed[r.number] = DRM_AMDGPU[c]
        /\ Command(r.number) = DRM_AMDGPU[c]
    BY <1>2, TracedRequests, PassedNumbers
  <2> DEFINE own == Firsts(Shown(AmdgpuAfter, DRM_AMDGPU[c]))
             answer == IF r.query # "none" THEN Firsts(Shown(InfoAfter, r.query)) ELSE {}
             due == IF r.query # "none" THEN Records(InfoAnswer[r.query], 1, 0) ELSE {}
  <2>2. ReadAfter(r) = own \cup answer
    BY <1>2, <2>1 DEF ReadAfter
  <2>3. Answered(r) = Records(DRM_AMDGPU[c], 1, 0) \cup due
    BY <2>1 DEF Answered
  <2>4. own \subseteq Records(DRM_AMDGPU[c], 1, 0)
    <3>1. DRM_AMDGPU[c] # "wait_cs"
      BY <2>1 DEF RunsOn
    <3>2. Shown(AmdgpuAfter, DRM_AMDGPU[c]) \subseteq {DRM_AMDGPU[c]}
      BY <2>1, <3>1, AfterTable
    <3> QED
      BY <3>2, FirstOnly
  <2>5. answer \subseteq due
    <3>1. CASE r.query = "none"
      BY <3>1
    <3>2. CASE r.query # "none"
      <4>1. r.query \in DOMAIN InfoAnswer
        BY <3>2, TracedRequests
      <4>2. r.query \notin MemoryQueries
        BY DEF RunsOn, MemoryQueries
      <4>3. Shown(InfoAfter, r.query) \subseteq {InfoAnswer[r.query]}
        BY <4>1, <4>2, AnswerTable
      <4> QED
        BY <3>2, <4>3, FirstOnly
    <3> QED
      BY <3>1, <3>2
  <2> HIDE DEF own, answer, due
  <2> QED
    BY <2>2, <2>3, <2>4, <2>5
<1> QED
  BY <1>1, <1>2

-----------------------------------------------------------------------------
(* Diagnostics: the dump.  Its walk has places to be at: each is outside   *)
(* the stream, a packet that is not known, or a packet whose length leads  *)
(* to another such place, past words that are data.                        *)

StreamWords == {Data, Nop, Type0} \cup Headers

Walk(w, places) ==
    /\ 1 \in places /\ places \subseteq Nat \ {0}
    /\ \A e \in places : e <= Len(w) =>
          \/ w[e] = Nop /\ e + 1 \in places
          \/ w[e] = Type0
          \/ /\ w[e] \in Headers /\ PktEnd(e, w[e]) \in places
             /\ \A i \in e + 1 .. PktEnd(e, w[e]) - 1 : i <= Len(w) => w[i] = Data

LEMMA HeaderIs ==
  ASSUME NEW h \in Headers
  PROVE  h.type = "PKT3" /\ h.count \in Nat
<1>1. CASE h \in {Pkt3("SET_CONTEXT_REG", n, "none", "none") : n \in 1..2}
  BY <1>1 DEF Pkt3
<1>2. CASE h \in {Pkt3("DRAW_INDEX_AUTO", n, "none", "none") : n \in 0..1}
  BY <1>2 DEF Pkt3
<1>3. CASE h \in {Pkt3("COPY_DATA", n, src, dst) : n \in {2, 4}, src, dst \in {"REG", "MEM", "none"}}
  BY <1>3 DEF Pkt3
<1> QED
  BY <1>1, <1>2, <1>3 DEF Headers

LEMMA PacketIs ==
  ASSUME NEW h \in Headers
  PROVE  /\ Packet(h) \in Seq(StreamWords) /\ Len(Packet(h)) = h.count + 2
         /\ Packet(h)[1] = h /\ \A j \in 2 .. h.count + 2 : Packet(h)[j] = Data
<1>1. PICK n \in Nat : n = h.count
  BY HeaderIs
<1> DEFINE tail == [i \in 1..(n + 1) |-> Data]
<1>2. tail \in Seq(StreamWords) /\ Len(tail) = n + 1 /\ \A i \in 1 .. n + 1 : tail[i] = Data
  BY DEF StreamWords
<1>3. <<h>> \in Seq(StreamWords) /\ Len(<<h>>) = 1 /\ <<h>>[1] = h
  BY DEF StreamWords
<1>4. Packet(h) = <<h>> \o tail
  BY <1>1 DEF Packet
<1> HIDE DEF tail
<1>5. Packet(h) \in Seq(StreamWords) /\ Len(Packet(h)) = n + 2 /\ Packet(h)[1] = h
  BY <1>2, <1>3, <1>4
<1>6. ASSUME NEW j \in 2 .. n + 2 PROVE Packet(h)[j] = Data
  <2>1. j - 1 \in 1 .. n + 1 /\ j \in 1 .. 1 + (n + 1) /\ ~(j <= 1)
    OBVIOUS
  <2>2. Packet(h)[j] = tail[j - 1]
    BY <1>2, <1>3, <1>4, <2>1
  <2> QED
    BY <1>2, <2>1, <2>2
<1> QED
  BY <1>1, <1>5, <1>6

LEMMA PieceIs ==
  ASSUME NEW p \in Pieces
  PROVE  /\ p \in Seq(StreamWords) /\ Len(p) \in Nat \ {0}
         /\ \/ Len(p) = 1 /\ p[1] = Nop
            \/ p[1] = Type0
            \/ /\ p[1] \in Headers /\ Len(p) = p[1].count + 2
               /\ \A j \in 2 .. Len(p) : p[j] = Data
<1>1. CASE p = <<Nop>>
  BY <1>1 DEF StreamWords
<1>2. CASE p = <<Type0, Data>>
  BY <1>2 DEF StreamWords
<1>3. CASE \E h \in Headers : p = Packet(h)
  <2>1. PICK h \in Headers : p = Packet(h)
    BY <1>3
  <2>2. h.count \in Nat
    BY HeaderIs
  <2> QED
    BY <2>1, <2>2, PacketIs
<1> QED
  BY <1>1, <1>2, <1>3 DEF Pieces

LEMMA PacketsWalk ==
  ASSUME NEW w \in Packets
  PROVE  w \in Seq(StreamWords) /\ \E places : Walk(w, places)
<1>a. PICK n \in Nat : \E s \in [1 .. n -> Pieces] : w = FlattenSeq(s)
  <2>1. PICK n \in 0 .. MaxPackets : \E s \in [1 .. n -> Pieces] : w = FlattenSeq(s)
    BY DEF Packets
  <2>2. n \in Nat
    BY DiagnosticsAssumption
  <2> QED
    BY <2>1, <2>2
<1>1. PICK s \in [1 .. n -> Pieces] : w = FlattenSeq(s)
  BY <1>a
<1>2. s \in Seq(Seq(StreamWords)) /\ Len(s) = n /\ \A i \in 1 .. n : s[i] \in Pieces
  <2>1. \A i \in 1 .. n : s[i] \in Pieces /\ s[i] \in Seq(StreamWords)
    BY PieceIs
  <2> QED
    BY <2>1
<1>3. w \in Seq(StreamWords)
  BY <1>1, <1>2, FlattenSpots
<1>4. PICK at \in [0 .. n -> Nat] :
         /\ at[0] = 0 /\ at[n] = Len(w)
         /\ \A i \in 1 .. n : at[i] = at[i - 1] + Len(s[i])
         /\ Spots(w, n, at, s)
  BY <1>1, <1>2, FlattenSpots
<1> DEFINE places == {at[i] + 1 : i \in 0 .. n}
<1>5. 1 \in places
  <2>1. 0 \in 0 .. n /\ at[0] + 1 = 1
    BY <1>4
  <2> QED
    BY <2>1
<1>6. places \subseteq Nat \ {0}
  BY <1>4
<1>7. ASSUME NEW i \in 0 .. n, NEW e, e = at[i] + 1, e <= Len(w)
      PROVE  \/ w[e] = Nop /\ e + 1 \in places
             \/ w[e] = Type0
             \/ /\ w[e] \in Headers /\ PktEnd(e, w[e]) \in places
                /\ \A k \in e + 1 .. PktEnd(e, w[e]) - 1 : k <= Len(w) => w[k] = Data
  <2>1. PICK a \in Nat : a = at[i] /\ e = a + 1
    BY <1>7
  <2>2. i # n
    BY <1>3, <1>4, <1>7
  <2>3. PICK j \in 1 .. n : j = i + 1 /\ j - 1 = i
    BY <2>2
  <2>4. PICK p \in Pieces : p = s[j]
    BY <1>2
  <2>5. p \in Seq(StreamWords) /\ Len(p) \in Nat \ {0} /\ at[j] = a + Len(p)
    BY <1>4, <2>1, <2>3, <2>4, PieceIs
  <2>6. \A k \in 1 .. Len(p) : w[a + k] = p[k]
    <3>1. \A k \in 1 .. Len(s[j]) : w[at[j - 1] + k] = s[j][k]
      BY <1>4 DEF Spots
    <3>2. at[j - 1] = a
      BY <2>1, <2>3
    <3> QED
      BY <2>4, <3>1, <3>2
  <2>7. 1 \in 1 .. Len(p)
    BY <2>5
  <2>8. w[e] = p[1]
    BY <2>1, <2>6, <2>7
  <2>9. (a + Len(p)) + 1 \in places
    BY <2>3, <2>5
  <2> HIDE DEF places
  <2>10. CASE Len(p) = 1 /\ p[1] = Nop
    BY <2>1, <2>8, <2>9, <2>10
  <2>11. CASE p[1] = Type0
    BY <2>8, <2>11
  <2>12. CASE p[1] \in Headers /\ Len(p) = p[1].count + 2 /\ \A k \in 2 .. Len(p) : p[k] = Data
    <3>1. PICK l \in Nat : l = Len(p) /\ p[1].count \in Nat /\ l = p[1].count + 2
      BY <2>5, <2>12, HeaderIs
    <3>2. PktEnd(e, w[e]) = (a + l) + 1
      <4>1. PICK h : h = p[1]
        OBVIOUS
      <4>2. PICK c \in Nat : c = h.count /\ l = c + 2
        BY <3>1, <4>1
      <4>3. PktEnd(e, h) = e + 1 + (c + 1)
        BY <4>2 DEF PktEnd
      <4>4. e + 1 + (c + 1) = (a + l) + 1
        <5>1. e = a + 1 /\ l = c + 2
          BY <2>1, <4>2
        <5> QED
          BY <5>1
      <4> QED
        BY <2>8, <4>1, <4>3, <4>4
    <3>3. ASSUME NEW k \in e + 1 .. PktEnd(e, w[e]) - 1 PROVE w[k] = Data
      <4>1. k - a \in 2 .. l /\ k - a \in 1 .. l /\ a + (k - a) = k
        <5>1. PICK b : b = PktEnd(e, w[e])
          OBVIOUS
        <5>2. b = (a + l) + 1 /\ e = a + 1 /\ k \in e + 1 .. b - 1 /\ a \in Nat
          BY <2>1, <3>2, <5>1
        <5> QED
          BY <5>2
      <4>2. w[a + (k - a)] = p[k - a]
        BY <2>6, <3>1, <4>1
      <4>3. p[k - a] = Data
        BY <2>12, <3>1, <4>1
      <4> QED
        BY <4>1, <4>2, <4>3
    <3> QED
      BY <2>8, <2>9, <2>12, <3>1, <3>2, <3>3
  <2> QED
    BY <2>4, <2>10, <2>11, <2>12, PieceIs
<1>8. \A e \in places : e <= Len(w) =>
         \/ w[e] = Nop /\ e + 1 \in places
         \/ w[e] = Type0
         \/ /\ w[e] \in Headers /\ PktEnd(e, w[e]) \in places
            /\ \A k \in e + 1 .. PktEnd(e, w[e]) - 1 : k <= Len(w) => w[k] = Data
  <2> SUFFICES ASSUME NEW e \in places, e <= Len(w)
               PROVE  \/ w[e] = Nop /\ e + 1 \in places
                      \/ w[e] = Type0
                      \/ /\ w[e] \in Headers /\ PktEnd(e, w[e]) \in places
                         /\ \A k \in e + 1 .. PktEnd(e, w[e]) - 1 : k <= Len(w) => w[k] = Data
    OBVIOUS
  <2>1. PICK i \in 0 .. n : e = at[i] + 1
    OBVIOUS
  <2> HIDE DEF places
  <2> QED
    BY <1>7, <2>1
<1>9. Walk(w, places)
  <2> HIDE DEF places
  <2> QED
    BY <1>5, <1>6, <1>8 DEF Walk
<1> QED
  BY <1>3, <1>9

(* A stream that ends within a packet has the places of the whole one.     *)
LEMMA StreamWalk ==
  ASSUME NEW w \in Streams
  PROVE  w \in Seq(StreamWords) /\ \E places : Walk(w, places)
<1>1. PICK s \in Packets : \E n \in 0 .. Len(s) : w = SubSeq(s, 1, n)
  BY DEF Streams
<1>2. s \in Seq(StreamWords)
  BY PacketsWalk
<1>3. PICK n \in 0 .. Len(s) : w = SubSeq(s, 1, n)
  BY <1>1
<1>4. PICK places : Walk(s, places)
  BY PacketsWalk
<1>5. n \in Nat /\ n <= Len(s)
  BY <1>2
<1>6. /\ w \in Seq(StreamWords) /\ Len(w) = n
      /\ \A i \in 1 .. n : w[i] = s[i]
  BY <1>2, <1>3
<1>7. ASSUME NEW e \in places, e <= Len(w)
      PROVE  \/ w[e] = Nop /\ e + 1 \in places
             \/ w[e] = Type0
             \/ /\ w[e] \in Headers /\ PktEnd(e, w[e]) \in places
                /\ \A i \in e + 1 .. PktEnd(e, w[e]) - 1 : i <= Len(w) => w[i] = Data
  <2>1. e \in Nat \ {0}
    BY <1>4 DEF Walk
  <2>2. e \in 1 .. n /\ e <= Len(s)
    <3>1. Len(s) \in Nat
      BY <1>2
    <3> QED
      BY <1>5, <1>6, <1>7, <2>1, <3>1
  <2>3. w[e] = s[e]
    BY <1>6, <2>2
  <2>4. CASE s[e] = Nop \/ s[e] = Type0
    <3>1. s[e] = Nop => e + 1 \in places
      <4>1. s[e] = Nop => s[e] # Type0 /\ s[e] \notin Headers
        BY HeaderIs DEF Nop, Type0
      <4> QED
        BY <1>4, <2>2, <4>1 DEF Walk
    <3> QED
      BY <2>3, <2>4, <3>1
  <2>5. CASE ~(s[e] = Nop \/ s[e] = Type0)
    <3>1. /\ s[e] \in Headers /\ PktEnd(e, s[e]) \in places
          /\ \A i \in e + 1 .. PktEnd(e, s[e]) - 1 : i <= Len(s) => s[i] = Data
      BY <1>4, <2>2, <2>5 DEF Walk
    <3>2. PICK f \in Nat : f = PktEnd(e, s[e])
      BY <1>4, <3>1 DEF Walk
    <3>3. ASSUME NEW i \in e + 1 .. f - 1, i <= Len(w) PROVE w[i] = Data
      <4>1. i \in 1 .. n /\ i <= Len(s)
        <5>1. Len(s) \in Nat
          BY <1>2
        <5> QED
          BY <1>5, <1>6, <2>1, <3>3, <5>1
      <4> QED
        BY <1>6, <3>1, <3>2, <4>1
    <3> QED
      BY <2>3, <3>1, <3>2, <3>3
  <2> QED
    BY <2>4, <2>5
<1>8. Walk(w, places)
  BY <1>4, <1>7 DEF Walk
<1> QED
  BY <1>6, <1>8

(* A packet was shown that overruns the end of the stream. *)
Strayed == \E i \in shown \cap DOMAIN stream : Overruns(i)

DiagSound ==
    /\ diagPc \in {"idle", "before", "after", "dumping", "dumped"}
    /\ diagPc = "idle" => shown = {}
    /\ diagPc \in {"idle", "before", "after"} => stream = <<>>
    /\ diagPc = "before" => traced \in Traced /\ shown = ReadBefore(traced)
    /\ diagPc = "after" => traced \in Traced /\ shown = ReadAfter(traced)
    /\ diagPc \in {"dumping", "dumped"} =>
          /\ stream \in Seq(StreamWords) /\ adr \in Nat \ {0}
          /\ shown \subseteq 1 .. Len(stream) \/ Strayed
    /\ diagPc = "dumping" =>
          /\ adr > Len(stream) + 1 => Strayed
          /\ \E places :
                /\ Walk(stream, places) /\ adr \in places
                /\ \A i \in 1 .. adr - 1 : i <= Len(stream) /\ stream[i] # Data => i \in shown
    /\ diagPc = "dumped" =>
          \A i \in DOMAIN stream :
             stream[i] # Data /\ (\A j \in 1..(i - 1) : stream[j] # Type0) => i \in shown

LEMMA DiagInitSound == DiagInit => DiagSound
  BY DEF DiagInit, DiagSound

LEMMA DiagDumpStart ==
  ASSUME DiagSound, NEW s \in Streams, DumpStart(s)
  PROVE  DiagSound'
<1>1. PICK places : Walk(s, places)
  BY StreamWalk
<1>2. s \in Seq(StreamWords) /\ 1 \in places
  BY <1>1, StreamWalk DEF Walk
<1>3. stream' = s /\ adr' = 1 /\ shown' = {} /\ diagPc' = "dumping"
  BY DEF DumpStart, DiagSound
<1>4. \A i \in 1 .. adr' - 1 : FALSE
  BY <1>3
<1>5. \E q : /\ Walk(stream', q) /\ adr' \in q
             /\ \A i \in 1 .. adr' - 1 : i <= Len(stream') /\ stream'[i] # Data => i \in shown'
  BY <1>1, <1>2, <1>3, <1>4
<1>6. ~(adr' > Len(stream') + 1) /\ shown' \subseteq 1 .. Len(stream') /\ adr' \in Nat \ {0}
  BY <1>2, <1>3
<1> QED
  BY <1>2, <1>3, <1>5, <1>6 DEF DiagSound

(* What is known while the dump walks. *)
LEMMA Dumping ==
  ASSUME DiagSound, diagPc = "dumping"
  PROVE  /\ stream \in Seq(StreamWords) /\ adr \in Nat \ {0} /\ DOMAIN stream = 1 .. Len(stream)
         /\ shown \subseteq 1 .. Len(stream) \/ Strayed
         /\ adr > Len(stream) + 1 => Strayed
<1>1. stream \in Seq(StreamWords) => DOMAIN stream = 1 .. Len(stream)
  OBVIOUS
<1> QED
  BY <1>1 DEF DiagSound

(* A packet that was shown stays shown. *)
LEMMA StrayedKept ==
  ASSUME Strayed, shown \subseteq shown', stream' = stream
  PROVE  Strayed'
<1>1. PICK i \in shown \cap DOMAIN stream : Overruns(i)
  BY DEF Strayed
<1>2. i \in shown' \cap DOMAIN stream' /\ Overruns(i)'
  BY <1>1 DEF Overruns
<1> QED
  BY <1>2 DEF Strayed

(* The words of a packet that are shown are words of the stream, if those  *)
(* of the packet are all there.                                            *)
LEMMA PayloadInside ==
  ASSUME NEW h \in Headers, NEW e \in Nat, NEW m \in Nat,
         e + 1 + h.count <= m, h.op = "COPY_DATA" => e + 5 <= m
  PROVE  PayloadShown(e, h) \subseteq e + 1 .. m
<1>1. PICK n \in Nat : n = h.count
  BY HeaderIs
<1>2. PktEnd(e, h) = e + n + 2 /\ e + 1 + n <= m
  BY <1>1 DEF PktEnd
<1>3. CASE h.op # "COPY_DATA"
  <2>1. PayloadShown(e, h) = e + 1 .. (e + n + 2) - 1
    BY <1>2, <1>3 DEF PayloadShown
  <2> QED
    BY <1>2, <2>1
<1>4. CASE h.op = "COPY_DATA"
  <2>1. PayloadShown(e, h) \subseteq {e + 1, e + 2, e + 3, e + 4, e + 5}
    BY <1>4 DEF PayloadShown
  <2>2. \A x \in {e + 1, e + 2, e + 3, e + 4, e + 5} : x \in e + 1 .. m
    BY <1>4
  <2> QED
    BY <2>1, <2>2
<1> QED
  BY <1>3, <1>4

LEMMA DiagDumpIb ==
  ASSUME DiagSound, DumpIb
  PROVE  DiagSound'
<1>1. PICK places : /\ Walk(stream, places) /\ adr \in places
                    /\ \A i \in 1 .. adr - 1 : i <= Len(stream) /\ stream[i] # Data => i \in shown
  BY DEF DiagSound, DumpIb
<1>2. PICK e \in Nat \ {0}, m \in Nat : e = adr /\ m = Len(stream) /\ DOMAIN stream = 1 .. m
  <2>1. diagPc = "dumping"
    BY DEF DumpIb
  <2>2. stream \in Seq(StreamWords) /\ adr \in Nat \ {0} /\ DOMAIN stream = 1 .. Len(stream)
    BY <2>1, Dumping
  <2>3. Len(stream) \in Nat
    BY <2>2
  <2> QED
    BY <2>2, <2>3
<1>3. e \in 1 .. m /\ stream[e].type = "PKT3"
  BY <1>2 DEF DumpIb
<1>4. stream[e] # Nop /\ stream[e] # Type0
  BY <1>3 DEF Nop, Type0
<1>5. PICK h \in Headers : h = stream[e]
  BY <1>1, <1>2, <1>3, <1>4 DEF Walk
<1>6. PICK n \in Nat, f \in Nat : n = h.count /\ f = PktEnd(e, h) /\ f = e + n + 2
  BY HeaderIs DEF PktEnd
<1>7. f \in places /\ \A i \in e + 1 .. f - 1 : i <= m => stream[i] = Data
  <2>1. e \in places /\ e <= Len(stream)
    BY <1>1, <1>2, <1>3
  <2>2. /\ PktEnd(e, stream[e]) \in places
        /\ \A i \in e + 1 .. PktEnd(e, stream[e]) - 1 : i <= Len(stream) => stream[i] = Data
    BY <1>1, <1>4, <2>1 DEF Walk
  <2> QED
    BY <1>2, <1>5, <1>6, <2>2
<1>8. /\ shown' = shown \cup {e} \cup PayloadShown(e, h) /\ adr' = f
      /\ stream' = stream /\ diagPc' = "dumping" /\ diagPc = "dumping"
      /\ UNCHANGED traced
  BY <1>2, <1>5, <1>6 DEF DumpIb
<1>9. ASSUME Overruns(e) PROVE Strayed'
  <2>1. e \in shown' \cap DOMAIN stream' /\ Overruns(e)'
    BY <1>2, <1>3, <1>8, <1>9 DEF Overruns
  <2> QED
    BY <2>1 DEF Strayed
<1>10. ASSUME ~Overruns(e) PROVE f <= m + 1 /\ (shown' \subseteq 1 .. m \/ Strayed')
  <2>1. e + 1 + n <= m /\ (h.op = "COPY_DATA" => e + 5 <= m)
    <3>1. h.type = "PKT3" /\ (h.op = "COPY_DATA" => ~(e + 5 > m)) /\ ~(e + 1 + n > m)
      BY <1>2, <1>3, <1>5, <1>6, <1>10 DEF Overruns
    <3> QED
      BY <3>1
  <2>2. f <= m + 1
    BY <1>6, <2>1
  <2>3. PayloadShown(e, h) \subseteq e + 1 .. m
    BY <1>6, <2>1, PayloadInside
  <2>4. \A x \in e + 1 .. m : x \in 1 .. m
    OBVIOUS
  <2>5. CASE shown \subseteq 1 .. m
    BY <1>3, <1>8, <2>2, <2>3, <2>4, <2>5
  <2>6. CASE Strayed
    BY <1>8, <2>2, <2>6, StrayedKept
  <2> QED
    BY <1>2, <1>8, <2>2, <2>5, <2>6, Dumping
<1>11. ASSUME NEW i \in 1 .. f - 1, i <= m, stream[i] # Data PROVE i \in shown'
  <2>1. CASE i < e
    <3>1. i \in 1 .. adr - 1
      BY <1>2, <2>1
    <3> QED
      BY <1>1, <1>2, <1>8, <1>11, <3>1
  <2>2. CASE i = e
    BY <1>8, <2>2
  <2>3. CASE i > e
    <3>1. i \in e + 1 .. f - 1
      BY <2>3
    <3> QED
      BY <1>7, <1>11, <3>1
  <2> QED
    BY <2>1, <2>2, <2>3
<1>12. \E q : /\ Walk(stream', q) /\ adr' \in q
              /\ \A i \in 1 .. adr' - 1 : i <= Len(stream') /\ stream'[i] # Data => i \in shown'
  <2>1. Walk(stream', places) /\ adr' \in places
    BY <1>1, <1>7, <1>8
  <2>2. \A i \in 1 .. adr' - 1 : i <= Len(stream') /\ stream'[i] # Data => i \in shown'
    BY <1>2, <1>8, <1>11
  <2> QED
    BY <2>1, <2>2
<1>13. /\ adr' \in Nat \ {0} /\ stream' \in Seq(StreamWords)
       /\ shown' \subseteq 1 .. Len(stream') \/ Strayed'
       /\ adr' > Len(stream') + 1 => Strayed'
  <2>1. adr' \in Nat \ {0} /\ stream' \in Seq(StreamWords) /\ m = Len(stream')
    BY <1>2, <1>6, <1>8, Dumping
  <2>2. Strayed' \/ (f <= m + 1 /\ shown' \subseteq 1 .. m)
    BY <1>9, <1>10
  <2>3. CASE Strayed'
    BY <2>1, <2>3
  <2>4. CASE f <= m + 1 /\ shown' \subseteq 1 .. m
    BY <1>8, <2>1, <2>4
  <2> QED
    BY <2>2, <2>3, <2>4
<1> QED
  BY <1>8, <1>12, <1>13 DEF DiagSound

LEMMA DiagDumpNop ==
  ASSUME DiagSound, DumpNop
  PROVE  DiagSound'
<1>1. PICK places : /\ Walk(stream, places) /\ adr \in places
                    /\ \A i \in 1 .. adr - 1 : i <= Len(stream) /\ stream[i] # Data => i \in shown
  BY DEF DiagSound, DumpNop
<1>2. PICK e \in Nat \ {0}, m \in Nat : e = adr /\ m = Len(stream) /\ DOMAIN stream = 1 .. m
  BY Dumping DEF DumpNop
<1>3. e \in 1 .. m /\ stream[e].type = "PKT2"
  BY <1>2 DEF DumpNop
<1>4. e + 1 \in places
  <2>1. stream[e] # Type0 /\ stream[e] \notin Headers
    BY <1>3, HeaderIs DEF Type0
  <2> QED
    BY <1>1, <1>2, <1>3, <2>1 DEF Walk
<1>5. /\ shown' = shown \cup {e} /\ adr' = e + 1
      /\ stream' = stream /\ diagPc' = "dumping" /\ diagPc = "dumping"
      /\ UNCHANGED traced
  BY <1>2 DEF DumpNop
<1>6. ASSUME NEW i \in 1 .. (e + 1) - 1, i <= m, stream[i] # Data PROVE i \in shown'
  <2>1. CASE i = e
    BY <1>5, <2>1
  <2>2. CASE i # e
    <3>1. i \in 1 .. adr - 1
      BY <1>2, <2>2
    <3> QED
      BY <1>1, <1>2, <1>5, <1>6, <3>1
  <2> QED
    BY <2>1, <2>2
<1>7. \E q : /\ Walk(stream', q) /\ adr' \in q
             /\ \A i \in 1 .. adr' - 1 : i <= Len(stream') /\ stream'[i] # Data => i \in shown'
  BY <1>1, <1>2, <1>4, <1>5, <1>6
<1>8. /\ adr' \in Nat \ {0} /\ stream' \in Seq(StreamWords)
      /\ shown' \subseteq 1 .. Len(stream') \/ Strayed'
      /\ ~(adr' > Len(stream') + 1)
  <2>1. adr' \in Nat \ {0} /\ stream' \in Seq(StreamWords) /\ ~(adr' > Len(stream') + 1)
    BY <1>2, <1>3, <1>5, Dumping
  <2>2. CASE shown \subseteq 1 .. m
    BY <1>2, <1>3, <1>5, <2>1, <2>2
  <2>3. CASE Strayed
    BY <1>5, <2>1, <2>3, StrayedKept
  <2> QED
    BY <1>2, <1>5, <2>2, <2>3, Dumping
<1> QED
  BY <1>5, <1>7, <1>8 DEF DiagSound

(* The dump ends at the end of the stream or beyond it, or shows the       *)
(* packet it does not know and nothing after it.                           *)
LEMMA DiagDumpEnds ==
  ASSUME DiagSound, DumpUnknown \/ DumpBeyond \/ DumpEnd
  PROVE  DiagSound'
<1>1. PICK places : /\ Walk(stream, places) /\ adr \in places
                    /\ \A i \in 1 .. adr - 1 : i <= Len(stream) /\ stream[i] # Data => i \in shown
  BY DEF DiagSound, DumpUnknown, DumpBeyond, DumpEnd
<1>2. PICK e \in Nat \ {0}, m \in Nat : e = adr /\ m = Len(stream) /\ DOMAIN stream = 1 .. m
  BY Dumping DEF DumpUnknown, DumpBeyond, DumpEnd
<1>3. /\ UNCHANGED <<traced, stream, adr>> /\ diagPc' = "dumped" /\ diagPc = "dumping"
      /\ shown \subseteq shown'
  BY DEF DumpUnknown, DumpBeyond, DumpEnd
<1>4. adr' \in Nat \ {0} /\ stream' \in Seq(StreamWords)
  BY <1>3, Dumping
<1>5. shown' \subseteq 1 .. Len(stream') \/ Strayed'
  <2>1. CASE Strayed
    BY <1>3, <2>1, StrayedKept
  <2>2. CASE ~Strayed
    <3>1. shown \subseteq 1 .. m /\ ~(e > m + 1)
      BY <1>2, <1>3, <2>2, Dumping
    <3>2. shown' \subseteq 1 .. m
      BY <1>2, <3>1 DEF DumpUnknown, DumpBeyond, DumpEnd
    <3> QED
      BY <1>2, <1>3, <3>2
  <2> QED
    BY <2>1, <2>2
<1>6. ASSUME NEW i \in DOMAIN stream, stream[i] # Data, \A j \in 1..(i - 1) : stream[j] # Type0
      PROVE  i \in shown'
  <2>1. CASE DumpEnd \/ DumpBeyond
    <3>1. e >= m + 1
      BY <1>2, <2>1 DEF DumpEnd, DumpBeyond
    <3>2. i \in 1 .. adr - 1 /\ i <= Len(stream)
      BY <1>2, <3>1
    <3> QED
      BY <1>1, <1>3, <1>6, <3>2
  <2>2. CASE DumpUnknown
    <3>1. e \in 1 .. m /\ shown' = shown \cup {e} /\ stream[e].type \notin {"PKT2", "PKT3"}
      BY <1>2, <2>2 DEF DumpUnknown
    <3>2. stream[e] # Nop /\ stream[e] \notin Headers
      BY <3>1, HeaderIs DEF Nop
    <3>3. stream[e] = Type0
      BY <1>1, <1>2, <3>1, <3>2 DEF Walk
    <3>4. ~(i > e)
      <4> SUFFICES ASSUME i > e PROVE FALSE
        OBVIOUS
      <4>1. e \in 1 .. i - 1
        BY <1>2
      <4> QED
        BY <1>6, <3>3, <4>1
    <3>5. CASE i = e
      BY <3>1, <3>5
    <3>6. CASE i # e
      <4>1. i \in 1 .. adr - 1 /\ i <= Len(stream)
        BY <1>2, <3>4, <3>6
      <4> QED
        BY <1>1, <1>3, <1>6, <4>1
    <3> QED
      BY <3>5, <3>6
  <2> QED
    BY <2>1, <2>2
<1>7. \A i \in DOMAIN stream' :
         stream'[i] # Data /\ (\A j \in 1..(i - 1) : stream'[j] # Type0) => i \in shown'
  BY <1>3, <1>6
<1> QED
  BY <1>3, <1>4, <1>5, <1>7 DEF DiagSound

LEMMA DiagNextSound == DiagSound /\ [DiagNext]_diagVars => DiagSound'
<1> SUFFICES ASSUME DiagSound, [DiagNext]_diagVars PROVE DiagSound'
  OBVIOUS
<1>1. CASE UNCHANGED diagVars
  BY <1>1 DEF diagVars, DiagSound, Strayed, Overruns
<1>2. CASE \E r \in Traced : TraceBefore(r)
  BY <1>2 DEF TraceBefore, DiagSound
<1>3. CASE TraceAfter
  BY <1>3 DEF TraceAfter, DiagSound
<1>4. CASE \E s \in Streams : DumpStart(s)
  BY <1>4, DiagDumpStart
<1>5. CASE DiagDone
  BY <1>5 DEF DiagDone, DiagSound
<1> QED
  BY <1>1, <1>2, <1>3, <1>4, <1>5, DiagDumpIb, DiagDumpNop, DiagDumpEnds DEF DiagNext

LEMMA DiagSoundFaithful == DiagSound => DiagnosticsFaithful
<1> SUFFICES ASSUME DiagSound PROVE DiagnosticsFaithful
  OBVIOUS
<1>1. diagPc = "before" => /\ shown \subseteq Held(traced) \cup Cut(traced)
                           /\ {x \in Held(traced) : x[1] \in Lists} \subseteq shown
  BY BeforeFaithful DEF DiagSound
<1>2. diagPc = "after" /\ ~RunsOn(traced) => shown \subseteq Answered(traced)
  BY AfterFaithful DEF DiagSound
<1>3. diagPc \in {"dumping", "dumped"} /\ ~(shown \subseteq DOMAIN stream) =>
         \E i \in shown \cap DOMAIN stream : Overruns(i)
  <2>1. stream \in Seq(StreamWords) => DOMAIN stream = 1 .. Len(stream)
    OBVIOUS
  <2> QED
    BY <2>1 DEF DiagSound, Strayed
<1> QED
  BY <1>1, <1>2, <1>3 DEF DiagSound, DiagnosticsFaithful

(* The diagnostics show the memory for what it is, of every request that   *)
(* does not run on into the case of another, of chunks that may end within *)
(* a record, and of streams of any number of packets up to the first that  *)
(* overruns the end.                                                       *)
THEOREM DiagnosticsShow == Spec => []DiagnosticsFaithful
<1>1. Init => DiagSound
  BY DiagInitSound DEF Init
<1>2. DiagSound /\ [Next]_vars => DiagSound'
  BY DiagNextSound, SessionSteps
<1> QED
  BY <1>1, <1>2, DiagSoundFaithful, PTL DEF Spec

-----------------------------------------------------------------------------
(* The types of the session: those of its parts, and where the enumeration *)
(* and the calls are.                                                      *)

LabelsSound ==
    /\ enumPc \in {"start", "listing", "listed", "finding", "found", "freed"}
    /\ node \in Entries \cup {NoDevice}
    /\ drmCall \in AllCalls \cup {"none"} /\ report \in {"none", "success", "failure"}

LEMMA LabelsInit == EnumInit /\ CallInit => LabelsSound
  BY DEF EnumInit, CallInit, LabelsSound

LEMMA NodeKept ==
  ASSUME LabelsSound, EnumInvariant, [EnumNext]_enumVars
  PROVE  /\ enumPc' \in {"start", "listing", "listed", "finding", "found", "freed"}
         /\ node' \in Entries \cup {NoDevice}
<1>1. CASE UNCHANGED enumVars
  BY <1>1 DEF enumVars, LabelsSound
<1>2. CASE \E i \in Slots : OpenNode(i)
  <2>1. PICK i \in Slots : OpenNode(i)
    BY <1>2
  <2>2. devices[i] \in Device
    BY <2>1 DEF OpenNode, EnumInvariant, EnumTypeOK, ListSound
  <2>3. devices[i].node \in Entries
    BY <2>2 DEF Device
  <2> QED
    BY <2>1, <2>3 DEF OpenNode
<1>3. CASE \E e \in Entries : ListEntry(e)
  BY <1>3 DEF ListEntry, LabelsSound
<1>4. CASE \E e \in Entries : FindEntry(e)
  BY <1>4 DEF FindEntry, LabelsSound
<1>5. CASE \E e \in Entries : NameEntry(e)
  BY <1>5 DEF NameEntry, LabelsSound
<1>6. CASE ListOpen \/ ListReturn \/ FindNothing
  BY <1>6 DEF ListOpen, ListReturn, FindNothing, LabelsSound
<1>7. CASE FreeFound \/ FreeListed
  BY <1>7 DEF FreeFound, FreeListed, LabelsSound
<1> QED
  BY <1>1, <1>2, <1>3, <1>4, <1>5, <1>6, <1>7 DEF EnumNext

LEMMA CallKept ==
  ASSUME LabelsSound, [CallNext]_callVars
  PROVE  drmCall' \in AllCalls \cup {"none"} /\ report' \in {"none", "success", "failure"}
<1>1. CASE UNCHANGED callVars
  BY <1>1 DEF callVars, LabelsSound
<1>2. CASE \E c \in AllCalls : CallStart(c) \/ CallRefuse(c)
  BY <1>2 DEF CallStart, CallRefuse, LabelsSound
<1>3. CASE CallRequest \/ KeyPressed \/ drmFreeVersion
  BY <1>3 DEF CallRequest, KeyPressed, drmFreeVersion, LabelsSound
<1>4. CASE CallReturn \/ CallDone
  BY <1>4 DEF CallReturn, CallDone, LabelsSound
<1> QED
  BY <1>1, <1>2, <1>3, <1>4 DEF CallNext

SessionSound ==
    /\ EnumInvariant /\ InfoSound /\ RepliesSound /\ FilesInvariant /\ DiagSound
    /\ LabelsSound

LEMMA SessionTyped == SessionSound => TypeOK
<1> SUFFICES ASSUME SessionSound PROVE TypeOK
  OBVIOUS
<1>1. /\ unread \subseteq Entries /\ found \in Device \cup Path \cup {NoDevice}
      /\ devices \in [Slots -> Device \cup {NoDevice}]
  BY DEF SessionSound, EnumInvariant, EnumTypeOK
<1>2. heap \subseteq Device \cup Path
  <2>1. \A i \in 1 .. deviceCnt : i \in Slots /\ devices[i] # NoDevice
    BY Names DEF SessionSound, EnumInvariant, EnumTypeOK, ListSound
  <2> QED
    BY <1>1, <2>1 DEF SessionSound, EnumInvariant, HeapSound
<1>3. /\ probePc \in {"idle", "asking", "failed", "names", "version", "entries", "ready", "open"}
      /\ device = NoInfo <=> probePc \in {"idle", "open"}
  BY DeviceTyped DEF SessionSound, InfoSound
<1>4. probePc = "asking" => step \in DOMAIN Requests(device.family, device.engines)
  <2> SUFFICES ASSUME probePc = "asking"
               PROVE  step \in DOMAIN Requests(device.family, device.engines)
    OBVIOUS
  <2>1. /\ device \in Devices
        /\ step \in 1 .. Len(Requests(device.family, device.engines))
    BY DEF SessionSound, InfoSound
  <2>2. Requests(device.family, device.engines) \in Seq(Reads)
    BY <2>1, DeviceTyped, RequestsSet
  <2> QED
    BY <2>1, <2>2
<1>5. blocks \subseteq KernelVersion \cup {"copy"}
  BY DEF SessionSound, RepliesSound
<1>6. /\ live \subseteq Syncobjs /\ held \subseteq Syncobjs
      /\ points \in [Syncobjs -> [Points -> Fences \cup {NoFence}]]
      /\ files \in [SyncFiles -> Fences \cup {NoFence}]
      /\ now \in 0..AMDGPU_TIMEOUT_INFINITE
  BY DEF SessionSound, FilesInvariant, CsTypeOK, Times
<1>7. csPc \in [Threads -> {"idle", "created", "filled", "out", "done", "waiting", "busy"}]
  BY DEF SessionSound, FilesInvariant, CsTypeOK, FileLabels, WaitLabels
<1>8. /\ diagPc \in {"idle", "before", "after", "dumping", "dumped"}
      /\ stream # <<>> => diagPc \in {"dumping", "dumped"} /\ adr > 0
  BY DEF SessionSound, DiagSound
<1> QED
  BY <1>1, <1>2, <1>3, <1>4, <1>5, <1>6, <1>7, <1>8 DEF SessionSound, LabelsSound, TypeOK

(* Every variable of the session keeps its type.                           *)
THEOREM SessionTypes == Spec => []TypeOK
<1>1. Init => SessionSound
  BY EnumInitSound, InfoInit, RepliesInit, FilesInit, DiagInitSound, LabelsInit
     DEF Init, SessionSound
<1>2. ASSUME SessionSound, [Next]_vars PROVE SessionSound'
  <2>1. /\ [EnumNext]_enumVars /\ [ProbeNext]_probeVars /\ [CallNext]_callVars
        /\ [CsNext]_csVars /\ [DiagNext]_diagVars
    BY <1>2, SessionSteps
  <2>2. EnumInvariant' /\ InfoSound' /\ RepliesSound' /\ FilesInvariant' /\ DiagSound'
    BY <1>2, <2>1, EnumNextSound, InfoNext, RepliesNext, FilesNext, DiagNextSound DEF SessionSound
  <2>3. LabelsSound'
    BY <1>2, <2>1, NodeKept, CallKept DEF SessionSound, LabelsSound
  <2> QED
    BY <2>2, <2>3 DEF SessionSound
<1> QED
  BY <1>1, <1>2, SessionTyped, PTL DEF Spec
=============================================================================
