---------------------------- MODULE Diagnostics ----------------------------
(***************************************************************************)
(* What the diagnostics of the library read of the memory they are shown:  *)
(* the tracer of ioctls (libdrm_trace.c) and the dump of command streams   *)
(* (DumpIb, stub/libdrmStub.cpp).                                          *)
(*                                                                         *)
(* The tracer is given a number and a pointer.  It switches on literal     *)
(* numbers where the headers have macros, and casts the pointer to the     *)
(* record it takes the request for: a number of its own, or a case that    *)
(* runs into the next one, shows memory that is something else.  The dump  *)
(* follows the lengths in the headers of the packets, the tracer those of  *)
(* the chunks of a submission, and neither looks whether they are sound.   *)
(*                                                                         *)
(* Nothing calls either today: drmIoctl does not look at doTrace, and the  *)
(* call of DumpIb is compiled out.  What they print is left out.           *)
(***************************************************************************)
EXTENDS Integers, Sequences, SequencesExt

CONSTANT MaxPackets    \* bound: packets in a command stream

ASSUME DiagnosticsAssumption == MaxPackets \in Nat

VARIABLES
    diagPc,    \* what runs
    traced,    \* the request that is traced
    stream,    \* the words that are dumped
    adr,       \* the word that comes next
    shown      \* what was read: records of the request, or words

diagVars == <<diagPc, traced, stream, adr, shown>>

(* Consecutive numbers from first on, and the numbers of two tables. *)
Numbered(first, what) == [n \in first .. (first + Len(what) - 1) |-> what[n - first + 1]]

Joined(f, g) == [n \in DOMAIN f \cup DOMAIN g |-> IF n \in DOMAIN f THEN f[n] ELSE g[n]]

-----------------------------------------------------------------------------
(* The headers: what comes with each number.                               *)

DrmIoctls ==
    Joined(Numbered(\h00, <<"version">>),
           Joined(Numbered(\h09, <<"gem_close">>), Numbered(\h0c, <<"get_cap">>)))

PrimeIoctls == Numbered(\h2d, <<"prime_handle", "prime_handle">>)

SyncobjIoctls ==
    Joined(Numbered(\hBF, <<"syncobj_create", "syncobj_destroy", "syncobj_handle",
                            "syncobj_handle", "syncobj_wait", "syncobj_array", "syncobj_array">>),
           Joined(Numbered(\hCA, <<"syncobj_timeline_wait", "syncobj_timeline_array",
                                   "syncobj_transfer", "syncobj_timeline_array">>),
                  Numbered(\hCF, <<"syncobj_accumulate">>)))

DRM_COMMAND_BASE == \h40
DRM_COMMAND_END == \hA0

DRM_AMDGPU ==
    Joined(Numbered(\h00, <<"gem_create", "gem_mmap", "ctx", "bo_list", "cs", "info",
                            "gem_metadata", "gem_wait_idle", "gem_va", "wait_cs">>),
           Numbered(\h10, <<"gem_op", "gem_userptr", "wait_fences", "vm", "fence_to_handle",
                            "sched">>))

AMDGPU_INFO ==
    [ACCEL_WORKING |-> \h00, CRTC_FROM_ID |-> \h01, HW_IP_INFO |-> \h02, HW_IP_COUNT |-> \h03,
     FW_VERSION |-> \h0e, VRAM_USAGE |-> \h10, GTT_USAGE |-> \h11, GDS_CONFIG |-> \h13,
     VRAM_GTT |-> \h14, READ_MMR_REG |-> \h15, DEV_INFO |-> \h16, VIS_VRAM_USAGE |-> \h17,
     SENSOR |-> \h1d, VIDEO_CAPS |-> \h21]

AMDGPU_CHUNK_ID ==
    Numbered(\h01, <<"IB", "FENCE", "DEPENDENCIES", "SYNCOBJ_IN", "SYNCOBJ_OUT", "BO_HANDLES",
                     "SCHEDULED_DEPENDENCIES", "SYNCOBJ_TIMELINE", "SYNCOBJ_TIMELINE">>)

(* The records of a chunk, in words of four bytes. *)
ChunkWords == [IB |-> 8, FENCE |-> 2, DEPENDENCIES |-> 6, BO_HANDLES |-> 6, SYNCOBJ_TIMELINE |-> 4]

(* The chunks that hold more than one. *)
Lists == {"DEPENDENCIES", "SYNCOBJ_TIMELINE"}

(* What a request for information carries beside its number, and the       *)
(* memory for the answer, as amdgpu_gpu_info.c fills them in.              *)
InfoRequest ==
    [CRTC_FROM_ID |-> "mode_crtc", READ_MMR_REG |-> "read_mmr_reg",
     HW_IP_COUNT |-> "query_hw_ip", HW_IP_INFO |-> "query_hw_ip", FW_VERSION |-> "query_fw",
     SENSOR |-> "sensor_info", VIDEO_CAPS |-> "sensor_info"]

InfoAnswer ==
    [CRTC_FROM_ID |-> "int32", READ_MMR_REG |-> "registers", HW_IP_COUNT |-> "uint32",
     HW_IP_INFO |-> "hw_ip", FW_VERSION |-> "firmware", ACCEL_WORKING |-> "uint32",
     DEV_INFO |-> "device", VRAM_GTT |-> "vram_gtt", VRAM_USAGE |-> "uint64",
     VIS_VRAM_USAGE |-> "uint64", GTT_USAGE |-> "uint64", GDS_CONFIG |-> "gds",
     SENSOR |-> "any", VIDEO_CAPS |-> "any"]

-----------------------------------------------------------------------------
(* The tracer.  A case of a switch: its label, what it casts the pointer   *)
(* to, and whether a break ends it.  The cases that print a name and break *)
(* show nothing and are left out.                                          *)
Case(on, reads) == [on |-> on, reads |-> {reads}, ends |-> TRUE]
RunOn(on, reads) == [on |-> on, reads |-> reads, ends |-> FALSE]

(* What a switch reads for a value: its case and those it runs into. *)
Shown(cases, value) ==
    UNION {cases[j].reads : j \in {k \in DOMAIN cases :
        \E i \in 1..k : cases[i].on = value /\ \A l \in i..(k - 1) : ~cases[l].ends}}

(* drmWriteCmd. *)
DrmBefore == <<Case(\h09, "gem_close"), Case(\h0c, "get_cap"), Case(\h2d, "prime_handle"),
               Case(\h2e, "prime_handle")>>

SyncobjBefore ==
    <<Case(\hbf, "syncobj_create"), Case(\hc0, "syncobj_destroy"), Case(\hc1, "syncobj_handle"),
      Case(\hc2, "syncobj_handle"), Case(\hc3, "syncobj_wait"), Case(\hc4, "syncobj_array"),
      Case(\hca, "syncobj_timeline_wait"), Case(\hcc, "syncobj_transfer"), Case(\hcf, "syncobj_accumulate")>>

DrmAfter ==
    <<Case(\h00, "version"), Case(\h0c, "get_cap"), Case(\hbf, "syncobj_create"),
      Case(\hc1, "syncobj_handle"), Case(\h2d, "prime_handle"), Case(\h2e, "prime_handle"),
      Case(\hc3, "syncobj_wait"), Case(\hca, "syncobj_timeline_wait")>>

(* drmAmdgpuWriteCmd: the numbers of the commands before the call, their   *)
(* macros after it.                                                        *)
BoBefore == <<Case(\h00, "gem_create"), Case(\h01, "gem_mmap")>>

CsBefore == <<Case(\h02, "ctx"), Case(\h04, "cs"), Case(\h05, "info")>>

AmdgpuBefore ==
    <<Case(\h08, "gem_va"), Case(\h09, "wait_cs"), Case(\h11, "gem_userptr")>>

AmdgpuAfter ==
    <<Case("gem_create", "gem_create"), Case("gem_mmap", "gem_mmap"), Case("info", "info"),
      Case("ctx", "ctx"), Case("cs", "cs"), RunOn("wait_cs", {"wait_cs"}),
      RunOn("gem_userptr", {"gem_userptr"})>>

(* The member of the request that is shown with a query, and the answer.   *)
InfoBefore ==
    <<Case(\h02, "query_hw_ip"), Case(\h0e, "query_fw"), Case(\h15, "read_mmr_reg")>>

InfoAfter ==
    <<Case("ACCEL_WORKING", "uint32"), Case("DEV_INFO", "device"), Case("HW_IP_INFO", "hw_ip"),
      Case("FW_VERSION", "firmware"), Case("GDS_CONFIG", "gds"), Case("VRAM_GTT", "vram_gtt"),
      Case("READ_MMR_REG", "registers"), RunOn("CRTC_FROM_ID", {}), RunOn("HW_IP_COUNT", {}),
      RunOn("VRAM_USAGE", {}), RunOn("GTT_USAGE", {}), RunOn("VIS_VRAM_USAGE", {}),
      Case("MEMORY", "memory_info")>>

(* What the chunk of a submission is cast to.                              *)
ChunkCases ==
    <<Case(\h01, "IB"), Case(\h02, "FENCE"), Case(\h03, "DEPENDENCIES"),
      Case(\h06, "BO_HANDLES"), Case(\h08, "SYNCOBJ_TIMELINE"), Case(\h09, "SYNCOBJ_TIMELINE")>>

(* The records the tracer shows of a chunk of the given length: one,       *)
(* whatever the length, or every record that begins within it.             *)
ChunkShown(chunk, words) ==
    IF chunk \notin Lists THEN 1 ELSE (words + ChunkWords[chunk] - 1) \div ChunkWords[chunk]

(* drmWriteCmd hands a command of the driver to drmAmdgpuWriteCmd.         *)
IsCommand(number) == number \in DRM_COMMAND_BASE .. (DRM_COMMAND_END - 1)

Command(number) == DRM_AMDGPU[number - DRM_COMMAND_BASE]

(* The k-th record of a kind in the i-th chunk; the 0-th is no chunk. *)
Records(kind, n, i) == {<<kind, k, i>> : k \in 1..n}

Firsts(kinds) == UNION {Records(kind, 1, 0) : kind \in kinds}

(* Of a list of buffers also the list itself, as long as bo_number says,   *)
(* at the address that stands in the record.                               *)
ChunkRecords(chunk, i) ==
    UNION {Records(kind, ChunkShown(kind, chunk.words), i)
             \cup (IF kind = "BO_HANDLES" THEN Records("bo_info", chunk.bo_number, i) ELSE {}) :
             kind \in Shown(ChunkCases, chunk.id)}

(* What is read of a request before it is made, and what after it.         *)
ReadBefore(r) ==
    IF ~IsCommand(r.number) THEN Firsts(Shown(DrmBefore \o SyncobjBefore, r.number))
    ELSE Firsts(Shown(BoBefore \o CsBefore \o AmdgpuBefore, r.number - DRM_COMMAND_BASE))
         \cup (IF r.query # "none" THEN Firsts(Shown(InfoBefore, AMDGPU_INFO[r.query])) ELSE {})
         \cup UNION {ChunkRecords(r.chunks[i], i) : i \in DOMAIN r.chunks}

ReadAfter(r) ==
    IF ~IsCommand(r.number) THEN Firsts(Shown(DrmAfter, r.number))
    ELSE Firsts(Shown(AmdgpuAfter, Command(r.number)))
         \cup (IF r.query # "none" THEN Firsts(Shown(InfoAfter, r.query)) ELSE {})

-----------------------------------------------------------------------------
(* DumpIb.  A word is the header of a packet, or data.                     *)
Data == [type |-> "data"]

Nop == [type |-> "PKT2"]

Type0 == [type |-> "PKT0"]

(* COPY_DATA says in its first word what it copies from and to.            *)
Pkt3(op, count, src, dst) ==
    [type |-> "PKT3", op |-> op, count |-> count, src |-> src, dst |-> dst]

(* Words a packet of type 3 is made of: the header and count + 1 more.     *)
Packet(header) == <<header>> \o [i \in 1..(header.count + 1) |-> Data]

(* A bug: the length of a packet without its last word. *)
PktEndEarly(at, header) == at + header.count + 1

PktEnd(at, header) == at + 1 + (header.count + 1)

(* The words shown of the packet at a place; COPY_DATA has fixed ones. *)
PayloadShown(at, header) ==
    IF header.op # "COPY_DATA" THEN (at + 1) .. (PktEnd(at, header) - 1)
    ELSE {at + 1}
         \cup (IF header.src = "REG" \/ header.dst = "REG" THEN {at + 4} ELSE {})
         \cup (IF header.src = "MEM" THEN {at + 2, at + 3} ELSE {})
         \cup (IF header.dst = "MEM" THEN {at + 4, at + 5} ELSE {})

-----------------------------------------------------------------------------
(* What the diagnostics are given.  Requests of the library, with each     *)
(* query and with up to two chunks of any length; streams of packets,      *)
(* perhaps with a COPY_DATA that is too short or a packet of type 0, which *)
(* DumpIb does not know, and streams that end within a packet.             *)
CommonIoctls == Joined(DrmIoctls, Joined(PrimeIoctls, SyncobjIoctls))

Passed ==
    Joined(CommonIoctls,
           [n \in {DRM_COMMAND_BASE + c : c \in DOMAIN DRM_AMDGPU} |-> Command(n)])

Request(number, query, chunks) == [number |-> number, query |-> query, chunks |-> chunks]

(* What stands where bo_number should, in the chunk or beyond its end.     *)
Numbers(chunk) == IF chunk = "BO_HANDLES" THEN 0..2 ELSE {0}

Lengths(chunk) == IF chunk \in DOMAIN ChunkWords THEN 0..(2 * ChunkWords[chunk]) ELSE {0}

Chunks ==
    UNION {{[id |-> id, words |-> words, bo_number |-> n] :
               words \in Lengths(AMDGPU_CHUNK_ID[id]), n \in Numbers(AMDGPU_CHUNK_ID[id])} :
             id \in DOMAIN AMDGPU_CHUNK_ID}

ChunkLists == {<<>>} \cup {<<c>> : c \in Chunks} \cup {<<c, d>> : c, d \in Chunks}

Traced ==
    {Request(n, "none", <<>>) : n \in {m \in DOMAIN Passed : Passed[m] \notin {"info", "cs"}}}
    \cup {Request(n, q, <<>>) : n \in {m \in DOMAIN Passed : Passed[m] = "info"},
                                q \in DOMAIN InfoAnswer}
    \cup {Request(n, "none", l) : n \in {m \in DOMAIN Passed : Passed[m] = "cs"}, l \in ChunkLists}

Headers ==
    {Pkt3("SET_CONTEXT_REG", n, "none", "none") : n \in 1..2}
    \cup {Pkt3("DRAW_INDEX_AUTO", n, "none", "none") : n \in 0..1}
    \cup {Pkt3("COPY_DATA", n, src, dst) : n \in {2, 4}, src, dst \in {"REG", "MEM", "none"}}

Pieces == {<<Nop>>, <<Type0, Data>>} \cup {Packet(h) : h \in Headers}

Packets == {FlattenSeq(s) : s \in UNION {[1..n -> Pieces] : n \in 0..MaxPackets}}

Streams == UNION {{SubSeq(s, 1, n) : n \in 0..Len(s)} : s \in Packets}

-----------------------------------------------------------------------------
NoTrace == Request(-1, "none", <<>>)

DiagInit ==
    /\ diagPc = "idle"
    /\ traced = NoTrace
    /\ stream = <<>>
    /\ adr = 0
    /\ shown = {}

(* drmIoctlTrace(fd, request, arg, false).                                 *)
TraceBefore(r) ==
    /\ diagPc = "idle"
    /\ diagPc' = "before" /\ traced' = r /\ shown' = ReadBefore(r)
    /\ UNCHANGED <<stream, adr>>

(* drmIoctlTrace(fd, request, arg, true), after the request was made.      *)
TraceAfter ==
    /\ diagPc = "before"
    /\ diagPc' = "after" /\ shown' = ReadAfter(traced)
    /\ UNCHANGED <<traced, stream, adr>>

DumpStart(s) ==
    /\ diagPc = "idle"
    /\ diagPc' = "dumping" /\ stream' = s /\ adr' = 1
    /\ UNCHANGED <<traced, shown>>

(* One turn of the loop of DumpIb for a packet of type 3.  A length that   *)
(* leads past the end is not noticed.                                      *)
DumpIb ==
    /\ diagPc = "dumping" /\ adr \in DOMAIN stream /\ stream[adr].type = "PKT3"
    /\ shown' = shown \cup {adr} \cup PayloadShown(adr, stream[adr])
    /\ adr' = PktEnd(adr, stream[adr])
    /\ UNCHANGED <<diagPc, traced, stream>>

DumpNop ==
    /\ diagPc = "dumping" /\ adr \in DOMAIN stream /\ stream[adr].type = "PKT2"
    /\ shown' = shown \cup {adr}
    /\ adr' = adr + 1
    /\ UNCHANGED <<diagPc, traced, stream>>

(* A word that begins no known packet: return.                             *)
DumpUnknown ==
    /\ diagPc = "dumping" /\ adr \in DOMAIN stream
    /\ stream[adr].type \notin {"PKT2", "PKT3"}
    /\ shown' = shown \cup {adr}
    /\ diagPc' = "dumped"
    /\ UNCHANGED <<traced, stream, adr>>

(* A length led past the end, which adr # end does not notice: the memory  *)
(* there is taken for a header.  What follows depends on what it holds and *)
(* has no bound; the model stops here.                                     *)
DumpBeyond ==
    /\ diagPc = "dumping" /\ adr > Len(stream) + 1
    /\ shown' = shown \cup {adr}
    /\ diagPc' = "dumped"
    /\ UNCHANGED <<traced, stream, adr>>

(* while (adr != end)                                                      *)
DumpEnd ==
    /\ diagPc = "dumping" /\ adr = Len(stream) + 1
    /\ diagPc' = "dumped"
    /\ UNCHANGED <<traced, stream, adr, shown>>

DiagDone ==
    /\ diagPc \in {"after", "dumped"}
    /\ diagPc' = "idle" /\ traced' = NoTrace /\ stream' = <<>> /\ adr' = 0 /\ shown' = {}

DiagNext ==
    \/ \E r \in Traced : TraceBefore(r)
    \/ TraceAfter
    \/ \E s \in Streams : DumpStart(s)
    \/ DumpIb
    \/ DumpNop
    \/ DumpUnknown
    \/ DumpBeyond
    \/ DumpEnd
    \/ DiagDone

-----------------------------------------------------------------------------
(* What a chunk holds: its whole records, and the list that a whole record *)
(* of buffers leads to.                                                    *)
Whole(c) == c.words \div ChunkWords[AMDGPU_CHUNK_ID[c.id]]

BoInfo(c, i) ==
    IF AMDGPU_CHUNK_ID[c.id] = "BO_HANDLES" THEN Records("bo_info", c.bo_number, i) ELSE {}

ChunkHeld(c, i) ==
    IF AMDGPU_CHUNK_ID[c.id] \notin DOMAIN ChunkWords THEN {}
    ELSE Records(AMDGPU_CHUNK_ID[c.id], Whole(c), i) \cup (IF Whole(c) > 0 THEN BoInfo(c, i) ELSE {})

(* The record in which a chunk ends too early, and what it leads to.       *)
ChunkCut(c, i) ==
    LET kind == AMDGPU_CHUNK_ID[c.id]
    IN  IF /\ kind \in DOMAIN ChunkWords
           /\ IF kind \in Lists THEN c.words % ChunkWords[kind] # 0 ELSE Whole(c) = 0
        THEN {<<kind, Whole(c) + 1, i>>} \cup BoInfo(c, i) ELSE {}

(* What a request holds before it is made, and when it has been answered.  *)
Held(r) ==
    Records(Passed[r.number], 1, 0)
    \cup (IF r.query \in DOMAIN InfoRequest THEN Records(InfoRequest[r.query], 1, 0) ELSE {})
    \cup UNION {ChunkHeld(r.chunks[i], i) : i \in DOMAIN r.chunks}

Cut(r) == UNION {ChunkCut(r.chunks[i], i) : i \in DOMAIN r.chunks}

Answered(r) ==
    Records(Passed[r.number], 1, 0)
    \cup (IF r.query # "none" THEN Records(InfoAnswer[r.query], 1, 0) ELSE {})

(* AMDGPU_WAIT_CS and these queries lack a break: the first runs into the  *)
(* next case, whose record is smaller, the others into that of MEMORY,     *)
(* whose record is larger.                                                 *)
RunsOn(r) ==
    \/ Passed[r.number] = "wait_cs"
    \/ r.query \in {"CRTC_FROM_ID", "HW_IP_COUNT", "VRAM_USAGE", "GTT_USAGE", "VIS_VRAM_USAGE"}

(* A packet whose words, or the fixed ones of COPY_DATA, are not all there. *)
Overruns(i) ==
    /\ stream[i].type = "PKT3"
    /\ \/ i + 1 + stream[i].count > Len(stream)
       \/ stream[i].op = "COPY_DATA" /\ i + 5 > Len(stream)

(* The diagnostics show the memory for what it is.  Of a request they show *)
(* the record it takes, the records of a list in a submission from the     *)
(* first to the last whole one, and beside these only the record in which  *)
(* a chunk ends too early; of an answer no other form than it was asked    *)
(* for.  (Requests that run on into the case of another are left out: what *)
(* is shown of those is something else.)  Of a stream they show every      *)
(* header up to a packet that is not known, and no memory outside it until *)
(* a packet overruns the end.                                              *)
DiagnosticsFaithful ==
    /\ diagPc = "before" =>
          /\ shown \subseteq Held(traced) \cup Cut(traced)
          /\ {x \in Held(traced) : x[1] \in Lists} \subseteq shown
    /\ diagPc = "after" /\ ~RunsOn(traced) => shown \subseteq Answered(traced)
    /\ diagPc \in {"dumping", "dumped"} /\ ~(shown \subseteq DOMAIN stream) =>
          \E i \in shown \cap DOMAIN stream : Overruns(i)
    /\ diagPc = "dumped" =>
          \A i \in DOMAIN stream :
             stream[i] # Data /\ (\A j \in 1..(i - 1) : stream[j] # Type0) => i \in shown
=============================================================================
