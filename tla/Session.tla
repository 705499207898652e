------------------------------ MODULE Session ------------------------------
(***************************************************************************)
(* One client from end to end: it enumerates the devices (DeviceEnum),     *)
(* opens one and initializes it (GpuInfo), asks the drivers this and that  *)
(* (DrmCalls), and then waits for fences and exchanges sync files from     *)
(* several threads (CsSync).  A failed initialization is tried again,      *)
(* perhaps with another device.  The questions share nothing with the sync *)
(* files; they are asked first, which keeps the product of both small.     *)
(* The diagnostics (Diagnostics), which share nothing with anything, come  *)
(* before all of it.                                                       *)
(***************************************************************************)
EXTENDS DeviceEnum, GpuInfo, DrmCalls, CsSync, Diagnostics

vars == <<enumVars, probeVars, callVars, csVars, diagVars>>

Init == EnumInit /\ ProbeInit /\ CallInit /\ CsInit /\ DiagInit

Diagnose ==
    /\ enumPc = "start"
    /\ DiagNext
    /\ UNCHANGED <<enumVars, probeVars, callVars, csVars>>

Enumerate ==
    /\ diagPc = "idle"
    /\ EnumNext
    /\ UNCHANGED <<probeVars, callVars, csVars, diagVars>>

(* amdgpu_device_initialize finds the accelerant of the open node.         *)
Initialize ==
    /\ enumPc = "freed"
    /\ ProbeNext
    /\ UNCHANGED <<enumVars, callVars, csVars, diagVars>>

Ask ==
    /\ probePc = "open" /\ now = 0 /\ live = {} /\ \A t \in Threads : csPc[t] = "idle"
    /\ CallNext
    /\ UNCHANGED <<enumVars, probeVars, csVars, diagVars>>

CallsOver == probePc = "open" /\ drmCall = "none" /\ blocks = {}

Others == <<enumVars, probeVars, callVars, diagVars>>

Synchronize == CallsOver /\ CsNext /\ UNCHANGED Others

Next == Diagnose \/ Enumerate \/ Initialize \/ Ask \/ Synchronize

(* Time goes on, and the driver answers a wait whose time has come.        *)
Fairness ==
    /\ WF_vars(CallsOver /\ Tick /\ UNCHANGED Others)
    /\ \A t \in Threads :
          WF_vars(CallsOver /\ WaitTimesOut(t) /\ UNCHANGED Others)

Spec == Init /\ [][Next]_vars /\ Fairness

-----------------------------------------------------------------------------
TypeOK ==
    /\ enumPc \in {"start", "listing", "listed", "finding", "found", "freed"}
    /\ unread \subseteq Entries
    /\ node \in Entries \cup {NoDevice} /\ found \in Device \cup Path \cup {NoDevice}
    /\ devices \in [Slots -> Device \cup {NoDevice}] /\ heap \subseteq Device \cup Path
    /\ probePc \in {"idle", "asking", "failed", "names", "version", "entries", "ready", "open"}
    /\ device = NoInfo <=> probePc \in {"idle", "open"}
    /\ probePc = "asking" => step \in DOMAIN Requests(device.family, device.engines)
    /\ drmCall \in AllCalls \cup {"none"} /\ report \in {"none", "success", "failure"}
    /\ blocks \subseteq KernelVersion \cup {"copy"}
    /\ live \subseteq Syncobjs /\ held \subseteq Syncobjs
    /\ points \in [Syncobjs -> [Points -> Fences \cup {NoFence}]]
    /\ files \in [SyncFiles -> Fences \cup {NoFence}]
    /\ csPc \in [Threads -> {"idle", "created", "filled", "out", "done", "waiting", "busy"}]
    /\ diagPc \in {"idle", "before", "after", "dumping", "dumped"}
    /\ stream # <<>> => diagPc \in {"dumping", "dumped"} /\ adr > 0
    /\ now \in 0..AMDGPU_TIMEOUT_INFINITE
=============================================================================
