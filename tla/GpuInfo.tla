------------------------------ MODULE GpuInfo ------------------------------
(***************************************************************************)
(* What amdgpu_device_initialize_haiku asks of the driver before a device  *)
(* exists (amdgpu_device.c, amdgpu_query_gpu_info_init of                  *)
(* amdgpu_gpu_info.c) and the marketing name it looks up                   *)
(* (amdgpu_asic_id.c).                                                     *)
(*                                                                         *)
(* The requests depend on the answer to one of them: the family and the    *)
(* number of shader engines say which registers are read, and the first    *)
(* request that fails ends the initialization.  Behind the accelerant is a *)
(* GPU, which may fail at any request, or the stub (stub/libdrmStub.cpp),  *)
(* whose tables of registers are made for these requests.                  *)
(***************************************************************************)
EXTENDS Integers, Sequences, SequencesExt

CONSTANTS
    Families,    \* AMDGPU_FAMILY_* of the GPUs
    MaxEngines,  \* bound: shader engines of a GPU
    NameTables,  \* contents of AMDGPU_ASIC_ID_TABLE, as kinds of lines
    NoInfo       \* no device under initialization

SI == 110
CI == 120
AI == 141

LineKinds == {"blank", "other", "match", "malformed"}

Devices == [driver : {"accelerant", "stub"}, family : Families, engines : 1..MaxEngines]

ASSUME GpuInfoAssumption ==
    /\ SI \in Families /\ Families \subseteq Nat
    /\ \A family \in Families : family >= SI    \* the first of them
    /\ MaxEngines \in Nat \ {0}
    /\ NameTables \subseteq Seq(LineKinds)
    /\ NoInfo \notin Devices

VARIABLES
    probePc,   \* how far the initialization is
    device,    \* driver, family and engines of the device under initialization
    step,      \* the request that comes next
    info,      \* the registers kept in dev->info
    file,      \* the table of names
    line,      \* the line that comes next
    name       \* what is known of the marketing name

probeVars == <<probePc, device, step, info, file, line, name>>

ProbeInit ==
    /\ probePc = "idle"
    /\ device = NoInfo
    /\ step = 0
    /\ info = {}
    /\ file = <<>>
    /\ line = 0
    /\ name = "none"

-----------------------------------------------------------------------------
(* amdgpu_read_mm_registers: count registers from an offset on, of one     *)
(* shader engine or of all (engine -1), into a field of dev->info.         *)
Read(field, slot, offset, count, engine) ==
    [field |-> field, slot |-> slot, offset |-> offset, count |-> count, engine |-> engine]

Query(what) == Read(what, 0, 0, 0, -1)

(* A bug: KV and later only. *)
EngineReadsLate(family, i) ==
    <<Read("backend_disable", i, \h263d, 1, i), Read("pa_sc_raster_cfg", i, \ha0d4, 1, i)>>
    \o IF family > CI THEN <<Read("pa_sc_raster_cfg1", i, \ha0d5, 1, i)>> ELSE <<>>

EngineReads(family, i) ==
    <<Read("backend_disable", i, \h263d, 1, i), Read("pa_sc_raster_cfg", i, \ha0d4, 1, i)>>
    \o IF family >= CI THEN <<Read("pa_sc_raster_cfg1", i, \ha0d5, 1, i)>> ELSE <<>>

TileReads(family) ==
    <<Read("gb_tile_mode", 0, \h2644, 32, -1)>>
    \o (IF family >= CI THEN <<Read("gb_macro_tile_mode", 0, \h2664, 16, -1)>> ELSE <<>>)
    \o <<Read("mc_arb_ramcfg", 0, \h9d8, 1, -1)>>

(* Slots of the arrays per engine of amdgpu_gpu_info.  The loop over the   *)
(* engines goes as far as the driver says and does not look: a slot from   *)
(* EngineSlots on is whatever field comes next, and undefined.             *)
EngineSlots == 4

(* The requests of one initialization in their order.  The two interfaces, *)
(* the version, ACCEL_WORKING and DEV_INFO come first on every device.     *)
Requests(family, engines) ==
    <<Query("B_ACCELERANT_IFACE_DRM"), Query("B_ACCELERANT_IFACE_AMDGPU"),
      Query("DrmVersion"), Query("AMDGPU_INFO_ACCEL_WORKING"), Query("AMDGPU_INFO_DEV_INFO")>>
    \o (IF family < AI
        THEN FlattenSeq([i \in 1..engines |-> EngineReads(family, i - 1)]) ELSE <<>>)
    \o <<Read("gb_addr_cfg", 0, \h263e, 1, -1)>>
    \o (IF family < AI THEN TileReads(family) ELSE <<>>)

(* drmAmdgpuReadMmrReg: the registers the stub knows, those of a Cape      *)
(* Verde (family SI, one shader engine), for whichever engine.             *)
StubRegisters == {\h263d, \ha0d4, \h263e, \h9d8} \cup (\h2644 .. \h2663)

StubAnswers(r) == \A k \in 0..(r.count - 1) : r.offset + k \in StubRegisters

(* The outcomes of a request: TRUE when it succeeds. *)
Answers(d, r) == IF d.driver = "stub" THEN {StubAnswers(r)} ELSE {TRUE, FALSE}

-----------------------------------------------------------------------------
(* The device record is allocated, the accelerant acquired.                *)
InitStart(driver, family, engines) ==
    /\ probePc = "idle"
    /\ driver = "stub" => family = SI /\ engines = 1
    /\ device' = [driver |-> driver, family |-> family, engines |-> engines]
    /\ step' = 1
    /\ probePc' = "asking"
    /\ UNCHANGED <<info, file, line, name>>

(* One request; the first that fails frees the device (goto cleanup).      *)
InitRequest ==
    LET requests == Requests(device.family, device.engines)
        r == requests[step]
    IN  /\ probePc = "asking"
        /\ \E ok \in Answers(device, r) :
              /\ info' = IF ok /\ r.count > 0 THEN info \cup {r} ELSE info
              /\ step' = IF ok THEN step + 1 ELSE step
              /\ probePc' = IF ~ok THEN "failed"
                            ELSE IF step = Len(requests) THEN "names" ELSE "asking"
        /\ UNCHANGED <<device, file, line, name>>

(* amdgpu_parse_asic_ids opens the table; without one there is no name.    *)
ReadNames(f) ==
    /\ probePc = "names"
    /\ file' = f
    /\ line' = 1
    /\ probePc' = "version"
    /\ UNCHANGED <<device, step, info, name>>

(* The first line that is neither blank nor a comment is the version.      *)
VersionLine ==
    /\ probePc = "version" /\ line <= Len(file)
    /\ probePc' = IF file[line] = "blank" THEN "version" ELSE "entries"
    /\ line' = line + 1
    /\ UNCHANGED <<device, step, info, file, name>>

(* A bug: a line of another GPU ends the search. *)
NameLineFirst ==
    /\ probePc = "entries" /\ line <= Len(file)
    /\ name' = IF file[line] = "match" THEN "found" ELSE name
    /\ probePc' = IF file[line] = "blank" THEN "entries" ELSE "ready"
    /\ line' = line + 1
    /\ UNCHANGED <<device, step, info, file>>

(* parse_one_line: EAGAIN for a blank line and for another GPU, 0 for this *)
(* one, an error for a malformed line or when strdup has no memory.  The   *)
(* rest of the table is read on EAGAIN only.                               *)
NameLine ==
    /\ probePc = "entries" /\ line <= Len(file)
    /\ \E memory \in BOOLEAN :
          LET again == file[line] = "blank" \/ (memory /\ file[line] = "other")
          IN  /\ name' = IF again THEN name
                         ELSE IF ~memory THEN "no memory"
                         ELSE IF file[line] = "match" THEN "found" ELSE name
              /\ probePc' = IF again THEN "entries" ELSE "ready"
    /\ line' = line + 1
    /\ UNCHANGED <<device, step, info, file>>

EndOfNames ==
    /\ probePc \in {"version", "entries"} /\ line > Len(file)
    /\ probePc' = "ready"
    /\ UNCHANGED <<device, step, info, file, line, name>>

(* A bug: the record of a failed initialization is kept. *)
InitReturnKeeps ==
    /\ probePc \in {"failed", "ready"}
    /\ probePc' = IF probePc = "ready" THEN "open" ELSE "idle"
    /\ device' = (IF probePc = "ready" THEN NoInfo ELSE device)
    /\ step' = 0 /\ info' = {} /\ file' = <<>> /\ line' = 0 /\ name' = "none"

(* The call returns; the record of a failed one has been freed.            *)
InitReturn ==
    /\ probePc \in {"failed", "ready"}
    /\ probePc' = IF probePc = "ready" THEN "open" ELSE "idle"
    /\ device' = NoInfo /\ step' = 0 /\ info' = {}
    /\ file' = <<>> /\ line' = 0 /\ name' = "none"

ProbeNext ==
    \/ \E driver \in {"accelerant", "stub"}, family \in Families, engines \in 1..MaxEngines :
          InitStart(driver, family, engines)
    \/ InitRequest
    \/ \E f \in NameTables : ReadNames(f)
    \/ VersionLine
    \/ NameLine
    \/ EndOfNames
    \/ InitReturn

-----------------------------------------------------------------------------
(* The register values clients of each family rely on: one per engine for  *)
(* the render backends, the tile modes, and the macro tile modes from      *)
(* Sea Islands to Volcanic Islands.                                        *)
PerEngine == {"backend_disable", "pa_sc_raster_cfg", "pa_sc_raster_cfg1"}

Expected(family) ==
    {"gb_addr_cfg"}
    \cup (IF family \in SI..(AI - 1)
          THEN {"backend_disable", "pa_sc_raster_cfg", "gb_tile_mode", "mc_arb_ramcfg"} ELSE {})
    \cup (IF family \in CI..(AI - 1) THEN {"pa_sc_raster_cfg1", "gb_macro_tile_mode"} ELSE {})

(* The tables of the stub answer every request of an initialization.       *)
StubInitializes == device # NoInfo /\ device.driver = "stub" => probePc # "failed"

(* The values per engine have a slot for every engine of the GPU. *)
EnginesFit == device.family < AI => device.engines <= EngineSlots

(* A device that was initialized has every register of its family and the  *)
(* value of each engine in the slot of that engine: no failure on the way  *)
(* leaves a device with half of them, and the stub, asked for a register   *)
(* it has no value for, would not get here.  The driver must have reported *)
(* no more engines than there are slots; nothing checks that it does, and  *)
(* of a GPU with more the property says nothing.                           *)
InfoComplete ==
    /\ StubInitializes
    /\ probePc = "ready" /\ EnginesFit =>
          /\ {r.field : r \in info} = Expected(device.family)
          /\ \A r \in info : r.field \in PerEngine => r.slot = r.engine /\ r.slot < EngineSlots
          /\ \A f \in Expected(device.family) \cap PerEngine :
                {r.slot : r \in {q \in info : q.field = f}} = 0..(device.engines - 1)

(* The GPU has a marketing name when, below the version, a line names it   *)
(* and only blank lines and lines of other GPUs stand before that one.     *)
NameFollowsTable ==
    probePc = "ready" /\ name # "no memory" =>
       (name = "found" <=>
          \E v, m \in 1..Len(file) :
             /\ v < m /\ file[m] = "match" /\ file[v] # "blank"
             /\ \A i \in 1..(v - 1) : file[i] = "blank"
             /\ \A i \in (v + 1)..(m - 1) : file[i] \in {"blank", "other"})
=============================================================================
