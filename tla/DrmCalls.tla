------------------------------ MODULE DrmCalls ------------------------------
(***************************************************************************)
(* What the calls that only ask a driver report: the drm* calls of         *)
(* libdrm_common.c, whose ioctls drmIoctl hands to the stub                *)
(* (stub/libdrmStub.cpp), and the amdgpu_* calls that pass a request to    *)
(* the accelerant.                                                         *)
(*                                                                         *)
(* A call makes one request or two and stops at the first that fails.  How *)
(* it tells its caller differs: some return what the driver returned, some *)
(* errno, one a pointer.  The stub answers -1 to a request it does not     *)
(* know (once somebody has pressed a key) and never sets errno, so a call  *)
(* that returns errno reports what an earlier call of the C library left   *)
(* there, perhaps 0.                                                       *)
(*                                                                         *)
(* Calls keep nothing between them but the version a client has asked for, *)
(* and errno belongs to the thread: one client is enough.                  *)
(***************************************************************************)
EXTENDS Naturals, Sequences

VARIABLES
    drmCall,   \* the running call, or "none"
    replies,   \* what its requests were answered
    errno,     \* TRUE when an earlier failure has left errno set
    report,    \* what the call returns
    blocks     \* memory of drmGetVersion

callVars == <<drmCall, replies, errno, report, blocks>>

CallInit ==
    /\ drmCall = "none"
    /\ replies = <<>>
    /\ errno = FALSE
    /\ report = "none"
    /\ blocks = {}

-----------------------------------------------------------------------------
(* The ioctls the calls make, call by call. *)
CommandIoctl ==
    [drmCommandNone |-> "COMMAND", drmCommandRead |-> "COMMAND",
     drmCommandWrite |-> "COMMAND", drmCommandWriteRead |-> "COMMAND"]

CapIoctl == [drmGetCap |-> "GET_CAP", drmSetClientCap |-> "SET_CLIENT_CAP"]

SyncobjIoctl ==
    [drmSyncobjCreate |-> "SYNCOBJ_CREATE", drmSyncobjDestroy |-> "SYNCOBJ_DESTROY",
     drmSyncobjHandleToFD |-> "SYNCOBJ_HANDLE_TO_FD",
     drmSyncobjFDToHandle |-> "SYNCOBJ_FD_TO_HANDLE",
     drmSyncobjImportSyncFile |-> "SYNCOBJ_FD_TO_HANDLE",
     drmSyncobjExportSyncFile |-> "SYNCOBJ_HANDLE_TO_FD"]

WaitIoctl ==
    [drmSyncobjWait |-> "SYNCOBJ_WAIT", drmSyncobjTimelineWait |-> "SYNCOBJ_TIMELINE_WAIT"]

PointIoctl ==
    [drmSyncobjReset |-> "SYNCOBJ_RESET", drmSyncobjSignal |-> "SYNCOBJ_SIGNAL",
     drmSyncobjTimelineSignal |-> "SYNCOBJ_TIMELINE_SIGNAL"]

TransferIoctl ==
    [drmSyncobjQuery |-> "SYNCOBJ_QUERY", drmSyncobjQuery2 |-> "SYNCOBJ_QUERY",
     drmSyncobjTransfer |-> "SYNCOBJ_TRANSFER", drmSyncobjAccumulate |-> "SYNCOBJ_ACCUMULATE"]

BufferIoctl ==
    [drmPrimeHandleToFD |-> "PRIME_HANDLE_TO_FD", drmPrimeFDToHandle |-> "PRIME_FD_TO_HANDLE",
     drmCloseBufferHandle |-> "GEM_CLOSE"]

AuthIoctl == [drmAuthMagic |-> "AUTH_MAGIC"]

Ioctls == {CommandIoctl, CapIoctl, SyncobjIoctl, WaitIoctl, PointIoctl, TransferIoctl,
           BufferIoctl, AuthIoctl}

(* No call is in two of them. *)
Ioctl == [c \in UNION {DOMAIN f : f \in Ioctls} |-> (CHOOSE f \in Ioctls : c \in DOMAIN f)[c]]

(* The amdgpu_* calls that pass one request on. *)
InfoCalls == {"amdgpu_query_info", "amdgpu_query_crtc_from_id", "amdgpu_read_mm_registers",
              "amdgpu_query_hw_ip_count", "amdgpu_query_hw_ip_info",
              "amdgpu_query_firmware_version"}

SensorCalls == {"amdgpu_query_sensor_info", "amdgpu_query_video_caps_info"}

StateCalls == {"amdgpu_cs_ctx_stable_pstate", "amdgpu_cs_query_reset_state",
               "amdgpu_cs_query_reset_state2"}

SyncobjCalls == {"amdgpu_cs_create_syncobj", "amdgpu_cs_destroy_syncobj",
                 "amdgpu_cs_syncobj_reset", "amdgpu_cs_syncobj_signal",
                 "amdgpu_cs_syncobj_timeline_signal", "amdgpu_cs_syncobj_wait",
                 "amdgpu_cs_syncobj_timeline_wait", "amdgpu_cs_syncobj_query",
                 "amdgpu_cs_export_syncobj", "amdgpu_cs_import_syncobj"}

TransferCalls == {"amdgpu_cs_syncobj_transfer", "amdgpu_cs_syncobj_accumulate"}

SubmitCalls == {"amdgpu_cs_submit_raw"}

BoCalls == {"amdgpu_bo_set_metadata", "amdgpu_bo_query_info"}

VaOpCalls == {"amdgpu_bo_va_op_raw"}

(* ENOSYS, whatever they are asked: nothing stands behind these. *)
BoListCalls == {"amdgpu_bo_list_create_raw", "amdgpu_bo_list_destroy_raw",
                "amdgpu_bo_list_create", "amdgpu_bo_list_destroy", "amdgpu_bo_list_update"}

FenceCalls == {"amdgpu_cs_wait_fences", "amdgpu_cs_fence_to_handle",
               "amdgpu_bo_wait_for_idle", "amdgpu_cs_ctx_override_priority"}

VmCalls == {"amdgpu_vm_reserve_vmid", "amdgpu_vm_unreserve_vmid"}

Unsupported == BoListCalls \cup FenceCalls \cup VmCalls

GdsCalls == {"amdgpu_query_gds_info"}

(* Those that find a reason to refuse before they ask: no device, no       *)
(* context, no record for the answer, an unknown operation.                *)
Refusing == Unsupported \cup StateCalls \cup SyncobjCalls \cup TransferCalls \cup VaOpCalls
              \cup GdsCalls

(* The call that finds it later: amdgpu_query_heap_info asks for VRAM_GTT  *)
(* and only then looks at the heap, here one that is not VRAM nor GTT.     *)
UnknownHeap == {"amdgpu_query_heap_info_unknown"}

(* The requests of a call in their order. *)
HeapQueries == <<"accelerant", "accelerant">>     \* VRAM_GTT, then the usage of the heap
UnknownHeapQueries == <<"accelerant">>
GdsQueries == <<"accelerant">>
VersionQueries == <<"VERSION", "VERSION">>        \* the lengths, then the strings

AllCalls == DOMAIN Ioctl \cup InfoCalls \cup SensorCalls \cup StateCalls \cup SyncobjCalls
              \cup TransferCalls \cup SubmitCalls \cup BoCalls \cup VaOpCalls \cup GdsCalls
              \cup Unsupported \cup UnknownHeap \cup {"drmGetVersion", "amdgpu_query_heap_info"}

RequestsOf(c) ==
    CASE c \in DOMAIN Ioctl -> <<Ioctl[c]>>
      [] c = "drmGetVersion" -> VersionQueries
      [] c = "amdgpu_query_heap_info" -> HeapQueries
      [] c \in UnknownHeap -> UnknownHeapQueries
      [] c \in GdsCalls -> GdsQueries
      [] c \in Unsupported -> <<>>
      [] OTHER -> <<"accelerant">>

-----------------------------------------------------------------------------
(* What the driver may answer: "ok", "error", or "key" when the stub does  *)
(* not know the request and waits for a key before it fails.               *)
Always == {"ok"}
Mostly == {"ok", "error"}

(* A firmware or an engine the stub has no version of fails, the others do *)
(* not.                                                                    *)
FirmwareAnswers ==
    [GFX_ME |-> Always, GFX_MEC |-> Always, GFX_PFP |-> Always, GFX_CE |-> Always,
     UVD |-> Always, VCE |-> Always, other |-> {"error"}]

EngineAnswers ==
    [GFX |-> Always, COMPUTE |-> Always, DMA |-> Always, UVD |-> Always, VCE |-> Always,
     UVD_ENC |-> Always, VCN_DEC |-> Always, VCN_ENC |-> Always, VCN_JPEG |-> Always,
     other |-> {"error"}]

(* HandleAmdgpuIoctl, by query and by command; those that look at what is  *)
(* asked for fail for some.                                                *)
InfoAnswers ==
    [ACCEL_WORKING |-> Always, DEV_INFO |-> Always, READ_MMR_REG |-> Mostly, FW_TA |-> Always,
     VRAM_GTT |-> Always, VRAM_USAGE |-> Always, VIS_VRAM_USAGE |-> Always,
     GTT_USAGE |-> Always, MEMORY |-> Always, FW_VERSION |-> UNION {FirmwareAnswers[t] : t \in DOMAIN FirmwareAnswers},
     HW_IP_INFO |-> UNION {EngineAnswers[t] : t \in DOMAIN EngineAnswers},
     other |-> {"error"}]

CommandAnswers ==
    [INFO |-> UNION {InfoAnswers[q] : q \in DOMAIN InfoAnswers},
     CTX |-> Mostly, GEM_CREATE |-> Mostly, GEM_VA |-> Mostly, GEM_MMAP |-> Always,
     CS |-> Always, WAIT_CS |-> Always, other |-> {"key"}]

(* drmIoctlStub, by request.  GET_CAP of an unknown capability falls       *)
(* through to PRIME_HANDLE_TO_FD, which succeeds.                          *)
IoctlAnswers ==
    [VERSION |-> Always, GEM_CLOSE |-> Mostly, GET_CAP |-> Always,
     PRIME_HANDLE_TO_FD |-> Always, PRIME_FD_TO_HANDLE |-> Mostly,
     SYNCOBJ_CREATE |-> Always, SYNCOBJ_DESTROY |-> Always, SYNCOBJ_WAIT |-> Always,
     SYNCOBJ_TIMELINE_WAIT |-> Always, SYNCOBJ_TRANSFER |-> Always, SYNCOBJ_RESET |-> Always,
     SYNCOBJ_SIGNAL |-> Always, SYNCOBJ_HANDLE_TO_FD |-> Always,
     SYNCOBJ_FD_TO_HANDLE |-> Mostly, SYNCOBJ_ACCUMULATE |-> Always]

Outcomes(request) ==
    CASE request = "accelerant" -> Mostly
      [] request = "COMMAND" -> UNION {CommandAnswers[c] : c \in DOMAIN CommandAnswers}
      [] request \in DOMAIN IoctlAnswers -> IoctlAnswers[request]
      [] OTHER -> {"key"}

Failed == \E i \in DOMAIN replies : replies[i] # "ok"

Finished == Failed \/ Len(replies) = Len(RequestsOf(drmCall))

(* Calls that return errno, negated or not, when the ioctl fails. *)
ReturnsErrno == DOMAIN CommandIoctl \cup DOMAIN WaitIoctl \cup DOMAIN AuthIoctl

(* A version under construction, and the one the client is given.          *)
KernelVersion == {"version", "name", "date", "desc"}

-----------------------------------------------------------------------------
CallStart(c) ==
    /\ drmCall = "none" /\ c \notin Unsupported /\ (c = "drmGetVersion" => blocks = {})
    /\ drmCall' = c
    /\ errno' \in BOOLEAN
    /\ blocks' = blocks \cup (IF c = "drmGetVersion" THEN {"version"} ELSE {})
    /\ UNCHANGED <<replies, report>>

(* EINVAL, before the driver is asked. *)
CallRefuse(c) ==
    /\ drmCall = "none" /\ c \in Refusing
    /\ drmCall' = c
    /\ report' = "failure"
    /\ UNCHANGED <<replies, errno, blocks>>

(* A bug: the second request is made whatever became of the first. *)
CallRequestAgain ==
    /\ drmCall # "none" /\ report = "none" /\ Len(replies) < Len(RequestsOf(drmCall))
    /\ \E answer \in Outcomes(RequestsOf(drmCall)[Len(replies) + 1]) :
          replies' = Append(replies, answer)
    /\ UNCHANGED <<drmCall, errno, report, blocks>>

(* The next request.  drmGetVersion allocates the strings when it knows    *)
(* their lengths.                                                          *)
CallRequest ==
    /\ drmCall # "none" /\ report = "none" /\ ~Finished
    /\ \E answer \in Outcomes(RequestsOf(drmCall)[Len(replies) + 1]) :
          /\ replies' = Append(replies, answer)
          /\ blocks' = IF drmCall = "drmGetVersion" /\ answer = "ok"
                       THEN blocks \cup KernelVersion ELSE blocks
    /\ UNCHANGED <<drmCall, errno, report>>

(* fgetc(stdin) returns, and so does the stub, with -1.                    *)
KeyPressed ==
    /\ replies # <<>> /\ replies[Len(replies)] = "key"
    /\ replies' = [replies EXCEPT ![Len(replies)] = "error"]
    /\ UNCHANGED <<drmCall, errno, report, blocks>>

(* The call returns: EINVAL for an unknown heap even when all went well.   *)
(* drmGetVersion frees what it allocated and, when all went well, leaves   *)
(* the copy.                                                               *)
CallReturn ==
    /\ drmCall # "none" /\ report = "none" /\ Finished
    /\ \A i \in DOMAIN replies : replies[i] # "key"
    /\ report' = IF \/ Failed /\ ~(drmCall \in ReturnsErrno /\ ~errno)
                    \/ drmCall \in UnknownHeap
                 THEN "failure" ELSE "success"
    /\ blocks' = IF drmCall # "drmGetVersion" THEN blocks
                 ELSE (blocks \ KernelVersion) \cup (IF Failed THEN {} ELSE {"copy"})
    /\ UNCHANGED <<drmCall, replies, errno>>

(* The client has seen what the call returned. *)
CallDone ==
    /\ report # "none"
    /\ drmCall' = "none" /\ replies' = <<>> /\ errno' = FALSE /\ report' = "none"
    /\ UNCHANGED blocks

drmFreeVersion ==
    /\ drmCall = "none" /\ "copy" \in blocks
    /\ blocks' = {}
    /\ UNCHANGED <<drmCall, replies, errno, report>>

CallNext ==
    \/ \E c \in AllCalls : CallStart(c) \/ CallRefuse(c)
    \/ CallRequest
    \/ KeyPressed
    \/ CallReturn
    \/ CallDone
    \/ drmFreeVersion

-----------------------------------------------------------------------------
(* The calls that return errno when the stub fails them.  The waits return *)
(* errno too, but the stub never fails a wait.                             *)
ErrnoFailures == DOMAIN CommandIoctl \cup DOMAIN AuthIoctl

(* The last request failed, and none before it. *)
StoppedAtFailure ==
    replies # <<>> /\ \A i \in DOMAIN replies : replies[i] # "ok" <=> i = Len(replies)

(* A call reports success when all its requests were answered well and it  *)
(* knew what it was asked for.  It stops at the first request that fails,  *)
(* and reports a failure for no other reason but a refusal before the      *)
(* first request or a heap found unknown after it.  Excepted is a call of  *)
(* ErrnoFailures that fails while errno is 0: its caller is told success.  *)
(* No version under construction outlives its call; the stub never fails   *)
(* drmGetVersion, so that this is about its success alone.                 *)
AnswersReported ==
    /\ report = "success" =>
          \/ Len(replies) = Len(RequestsOf(drmCall)) /\ ~Failed /\ drmCall \notin UnknownHeap
          \/ StoppedAtFailure /\ drmCall \in ErrnoFailures /\ ~errno
    /\ report = "failure" =>
          \/ replies = <<>> /\ drmCall \in Refusing
          \/ StoppedAtFailure
          \/ replies = <<"ok">> /\ drmCall \in UnknownHeap
    /\ report # "none" => blocks \subseteq {"copy"}
=============================================================================
