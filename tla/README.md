# A verification model of libdrm2

libdrm2 is the user-space DRM library for Haiku: the AMD GPU client library
(`src/amdgpu`), the common DRM calls (`src/*.c`, `src/*.cpp`), and a stub
backend that stands in for the kernel driver (`src/stub`). Several threads of a
process call into it at once, and what can go wrong is bookkeeping: addresses
given out twice, buffers closed too early, devices freed while in use,
dependencies lost between rings. This directory models that bookkeeping in
TLA+, checks it with TLC on small instances, and proves most of its safety properties
with TLAPS for every instance.

Run from this directory, for example:

    tlc -workers 2 -config BoSafe.cfg MCBoManager
    tlapm VaRangeProofs.tla

## 1. Inventory

| Component | State it keeps | Operations | Status |
|---|---|---|---|
| GPU virtual address ranges (`amdgpu_vamgr.c`, layout in `amdgpu_device.c`) | four managers per device, each a list of holes under its mutex; a record per range | range alloc, range free | modelled, proved |
| Buffer objects (`amdgpu_bo.c`, `handle_table.c`) | table handle -> bo under `bo_table_mutex`; per bo a count, a kernel handle, a CPU mapping under `cpu_access_mutex` | alloc, user memory, import, export, inc_ref, free, cpu_map, cpu_unmap, find by address | modelled, proved |
| Device registry (`amdgpu_device.c`) | list of devices under `dev_mutex`, a count per device, a reference to the accelerant | initialize, deinitialize | modelled, proved |
| Contexts and semaphores (`amdgpu_cs.c`, `util_double_list.h`) | wait list and last sequence number per ring under `sequence_mutex`; per semaphore a count, a fence, its links | create, free, signal, wait, submit, destroy | modelled, proved |
| Sync objects, sync files, fence waits (`amdgpu_cs.c`) | none; a temporary sync object inside two calls, a deadline inside a wait | import and export of a timeline point, query_fence_status; forwarded calls | modelled, proved |
| GPU information and marketing names (`amdgpu_gpu_info.c`, `amdgpu_asic_id.c`) | filled once at initialization | the requests of an initialization, the search of the name table; later queries | modelled; the name proved |
| Device enumeration (`libdrm_device.cpp`, `Poke.cpp`, as `drmdevice` uses it) | none across calls; the array being filled | get devices, get device, name of a node, free | modelled, proved; the tool's printing is not |
| Common DRM calls, BO lists, VM ids (`libdrm_common.c`, `libdrm.cpp`, `amdgpu_vm.c`) | none; the version a client asked for | wrappers around one request or two; calls that refuse | modelled, proved |
| Stub backend (`stub/libdrmStub.cpp`, `memory.cpp`, `fdMapper.cpp`) | buffer handles, GPU mappings, exported descriptors, counters, all process-wide | ioctls by number | modelled, proved |
| Diagnostics (`libdrm_trace.c`, `DumpIb` of the stub) | none | trace before and after a request, dump of a command stream | what they read is modelled, what they print is not |
| Entry through the accelerant roster (`amdgpu_device_haiku.cpp`) | none | finds the accelerant of a descriptor | partly: the accelerant is an input |
| Generated register names, headers | data | | the numbers the tracer relies on, and the registers the stub has values for |
| Accelerant, kernel driver, C library | outside the repository | | external: modelled as the calls above rely on them |

How they interact. A client lists the devices of `/dev/graphics`, opens a node
and initializes a device (registry): the library asks the driver for its
version, capabilities and registers, lays out the four address managers, and
looks up a name. The client allocates or imports buffers (buffer objects), takes
an address range for each (managers), and asks the accelerant to map the buffer
there; the library does not connect the last two, so their modules are
independent. It creates contexts, submits command streams that name buffers and
addresses, orders rings with semaphores, waits for fences, and passes fences to
others as sync files. Behind the accelerant is a driver, or the stub. Buffer
objects, ranges and contexts are reached by any thread at any time and share
nothing but the device pointer: each has a module of its own. `Session` composes
the rest in the order in which one client goes through it.

Hard behaviours, by component (`PROJECT.json` has the full list, line by line):

- *Address ranges.* Long sequences that fragment and merge the hole list;
  best-place search from either end; an allocation that tries two managers in
  two critical sections while other threads run; `calloc` failing in three
  places, one of which loses addresses for ever; arithmetic at the ends of the
  address space. Correct: no address belongs to two owners, nothing is lost but
  what the code admits to losing, the search is as good as an exhaustive one.
- *Buffer objects.* An import racing the last free of the same buffer; errors
  after the kernel handle was opened; the last reference dropped while mapped; a
  lock-free increment; a search that reads what another mutex guards. Correct:
  one bo per kernel buffer, open exactly as long as referenced; handles and
  mappings accounted for; locks given back.
- *Device registry.* The last reference is dropped outside `dev_mutex`. Correct:
  a handle in a client's hands names a live, listed device; one device per
  accelerant; the accelerant released at the end.
- *Stub backend.* A descriptor is opened before the lock of the table is taken
  and closed while it is held, so numbers are reused by another thread between
  close and erase; `emplace` keeps what is there; handles and mappings have no
  lock; a mapping is found by the last one at or below an address. Correct: an
  exported descriptor leads to its own entry, nothing leaks, handles and
  addresses lead to the buffer they were given for.
- *Enumeration.* Entries that are no devices, cards that vanish between two
  reads, allocations that fail. Correct: count, array and memory agree; a device
  found again is the device listed.
- *Initialization.* Ten to twenty requests, whose number depends on the answer to
  one, each of which may fail; more engines than there are slots. Correct: all
  registers of the family or no device.
- *Wrappers.* `errno` from a driver that does not set it; two requests with
  memory allocated, or the heap looked at, between them. Correct: success means
  every request succeeded.
- *Sync files and waits.* A temporary syncobj whose number other threads get as
  soon as it is destroyed; a deadline that overflows. Correct: destroyed once on
  every path; the file and the point hold one fence; waits end, and not early.
- *Diagnostics.* Literal numbers and casts, cases that run into the next one,
  lengths that lead past the end of a chunk or a stream. Correct: memory is shown
  as the record it is, and none outside unless a length leads there.
- *Contexts and semaphores.* A semaphore has no mutex: it is written under the
  mutex of one context and consumed under that of another, and outlives its
  handle. Correct: every submission gets exactly the fences waiting on its ring;
  lists stay well linked; a semaphore lives until destroyed and consumed.

## 2. Modules

| Module | What it is | Code |
|---|---|---|
| `VaMgr` | the operators of one manager: place a request in a list of holes, cut a range out, put it back; no state | `amdgpu_vamgr_find_va`, `_subtract_hole`, `_free_va` |
| `VaRange` | the four managers of a device, threads that allocate and free | `amdgpu_va_range_alloc`, `_free`, layout in `amdgpu_device_initialize_haiku` |
| `VaSpace` | abstract specification: one address space; claim what is free, pass on, drop | |
| `BoManager` | buffer objects, the handle table, CPU mappings, search | `amdgpu_bo.c`, `handle_table.c` |
| `DeviceRegistry` | the device list and its counts | `amdgpu_device.c` |
| `CsContext` | contexts, wait lists as linked lists, semaphores, submission | `amdgpu_cs.c`, `util_double_list.h` |
| `Semaphores` | abstract specification of what `CsContext` implements: a semaphore carries one fence at a time to the next submission of the ring that waits; no lists, locks or counts | |
| `FdMapper` | the descriptor table of the stub, its lock, the descriptors of the process | `stub/fdMapper.cpp` |
| `StubBackend` | extends `FdMapper`: numbers, buffers, GPU mappings, and the calls that end in the table | `stub/memory.cpp`, `stub/libdrmStub.cpp`, `libdrm_common.c` |
| `DeviceEnum` | listing and finding devices, and their memory | `libdrm_device.cpp`, `Poke.cpp`, `tools/drmdevice.c` |
| `GpuInfo` | the requests of an initialization and the name table | `amdgpu_device.c`, `amdgpu_gpu_info.c`, `amdgpu_asic_id.c` |
| `DrmCalls` | what calls that only ask a driver report | `libdrm_common.c`, the forwarding `amdgpu_*` calls, `stub/libdrmStub.cpp` |
| `CsSync` | sync files of timeline points, waits with deadlines | `amdgpu_cs.c` |
| `Diagnostics` | what the tracer and the dump read | `libdrm_trace.c`, `DumpIb`, `headers/*.h` |
| `Session` | one client: extends and composes `DeviceEnum`, `GpuInfo`, `DrmCalls`, `CsSync`, `Diagnostics` | |
| `MCVaRange`, `MCVaRangeSafe`, `MCBoManager`, `MCCsContext`, `MCStubBackend`, `MCSession` | symmetry and constant definitions for TLC; `MCVaRangeSafe` also asserts the assumptions of the theorems | |
| `VaMgrProofs`, `VaRangeProofs` | lemmas about the operators of `VaMgr`; theorems about `VaRange` | |
| `BoManagerProofs`, `DeviceRegistryProofs`, `CsContextProofs`, `StubProofs`, `SessionProofs` | theorems about the module of that name; `StubProofs` about `FdMapper` and `StubBackend` | |
| `Counting` | lemmas about cardinalities, greatest numbers and induction, used by the proofs | |

Variables carry the names of the fields they stand for (`holes` for the
`va_holes` lists, `refcount`, `cpu_ptr`, `cpu_map_count`, `dev_list`,
`last_seq`, `signal_fence`, ...). `pc[t]` says between which two steps of a call
thread `t` is, `call[t]` or `req[t]` holds the locals, and variables marked
*ghost* or *external* are not in the code: ghosts record history for a property,
externals stand for the kernel, the accelerant and the C library.

How the code is cut into steps. A critical section whose data nobody reads
without the mutex is one step (`VaRange`: a whole search, a whole free). Where
the code takes a mutex, reads or writes shared data outside one, calls the
kernel, or drops a count, there is a step boundary: an import in `BoManager` is
up to three steps under `bo_table_mutex`, an initialization in `DeviceRegistry`
tests the count and adds to it in two, a signal in `CsContext` checks, locks and
fills the fence in three. Errors are alternatives of the step in which the code
can meet them. Atomic operations (`update_references`, `atomic_add`) are atomic.

Operators under a comment "A bug: ..." are not part of any specification: each
is a variant of the operator below or above it with one plausible mistake, kept
to see that the properties notice it.

### What is abstracted

- Addresses are small integers with the wrap-around of `uint64_t`, modulo
  `AddrMod`; `AMDGPU_INVALID_VA_ADDRESS` is the last of them, `Low32` stands for 4 GiB.
- The hole list of `VaRange` is a sequence, highest hole first, as the code
  keeps it. The wait lists of `CsContext` are links (`next`, `prev`), because
  what a wrong link does is the point there.
- Buffers all have the same size; kernel handles are the least detail that lets
  a handle be closed, reused and looked up.
- `BoManager` leaves out flink names (`ENOSYS`), metadata, query and `va_op`
  calls (forwarded, no state), and a thread keeps at most one bo mapped.
- `DeviceRegistry` folds the checks of an initialization, any of which jumps to
  `cleanup`, into one step that succeeds or fails.
- `StubBackend` counts addresses in pages and looks an address up only when some
  mapping begins at or below it: below the first mapping the search steps back
  from the beginning of the map, and no client of the model asks for that.
- `GpuInfo` has the family and the number of engines of a device as inputs and
  keeps of a register only which one was read into which slot, also when there is
  no such slot; the lines of the name table are of four kinds.
- `DrmCalls` has for each request the set of answers: `ok`, `error`, or `key`
  (the stub waits for a key before it fails). `amdgpu_query_heap_info` with a heap
  it does not know, which it refuses after a first request went well, is a call of
  its own there (`UnknownHeap`).
- `CsSync` leaves out when a fence signals: a wait may end at any time. The
  clock is one unit per tick, the word `WordMod` units long.
- `Diagnostics` gives a request by its number, its query and its chunks, and a
  stream as packet headers and data words. Chunks may end within a record and
  streams within a packet. Of memory outside only the address is kept: the walk
  of a stream ends where the code returns, or (`DumpBeyond`) at the first word
  beyond the end that the code takes for a header, since what follows depends on
  what that word holds.
- `Session` orders its parts: diagnostics before everything, questions to the
  driver before syncobjs exist. They share no state, so that the order hides no
  interaction, and it keeps the product of their states small.
- `CsContext` flattens `[ip_type][ip_instance][ring]` to one ring number and
  leaves out the content of chunks; a request list is one submission after
  another. A failed submission may happen at any time.

### What is assumed of clients

A thread passes handles it owns: it frees a bo, a range or a device reference it
holds, once, and unmaps what it mapped. `munmap` of a live mapping succeeds.
Further assumptions are named in the modules; `Overlap`, the first half of
`Careful` in `CsContext` and `NoWrap` are lifted in the violated runs:

- `Overlap` (`DeviceRegistry`): `FALSE` means clients keep an initialization
  apart from a deinitialization; two of a kind still overlap.
- `Careful` (`CsContext`): `TRUE` means a signal or wait of a semaphore does not
  overlap another call at work on it (`MayCall`), and a context is freed only
  when no submission still depends on it and no semaphore on its lists was
  destroyed (`Tidy`). The second half is a real restriction:
  `amdgpu_cs_ctx_free` reads the next link out of a semaphore it may have just
  freed (`CtxFreeNext`). Always: one wait per signal.
- `Careful` (`FdMapper`, `StubBackend`): `TRUE` means clients close a descriptor
  with `drmFdClose`, and with `close` only one `drmFdClose` does not know; and
  they map at free addresses. With `FALSE` a plain `close` leaves the entry, and
  the next export of the number finds it there.
- `Garbage` (`FdMapper`) is no assumption: it is what the memory of an erased
  entry may read as. `drmFdUnmapHandle` (`fdMapper.cpp:55-57`) reads the handle
  through a reference into the entry it has just erased. In `stub_backend` it may
  read as any handle, in the theorems as any of whatever set `Garbage` is; so `ImportTakesOwnEntry` says
  which entry an import took, of what kind and how often, and nothing of the
  handle it returned.
- `EnginesFit` (`GpuInfo`), a hypothesis within `InfoComplete`: the driver reports
  no more than four shader engines for a family before `AMDGPU_FAMILY_AI`, whose
  registers are read engine by engine. The loop of `amdgpu_gpu_info.c:164` runs to
  `num_shader_engines` over arrays of four (`amdgpu.h:464-476`) and nothing
  compares the two. The run has devices of five; of those the property says nothing.
- `ErrnoFailures` (`DrmCalls`) and `RunsOn` (`Diagnostics`) name the calls and the
  requests that `AnswersReported` and `DiagnosticsFaithful` leave out: section 5.
- `Serial` (`StubBackend`): clients create one thing at a time; counters and
  maps of the stub have no lock.
- `Layout`, `NoWrap`, `NonEmpty`, `NoHighOffset` (`VaRange`): the device's ranges
  lie one above the other, no request overflows, none is for 0 bytes, and a
  device without a high range reports offset 0 for it. `MCVaRangeSafe` asserts
  them; `VaRangeWrap` drops `NoWrap`. The last is about what the kernel reports,
  and matters to `EveryAddressOnce` only: `amdgpu_vamgr_init` gives the unused
  high manager a hole from that offset up to 0.
- The families of GPUs (`GpuInfoAssumption`) begin with `AMDGPU_FAMILY_SI`
  (`amdgpu_drm.h:1141-1151`): `AMDGPU_FAMILY_UNKNOWN` is the family of no GPU.
- Constants of different kinds are different values (`VaRangeAssumption`,
  `CsContextAssumption`, `GpuInfoAssumption`, `NoDeviceAssumption` and others, in
  the module that declares the constants): a thread is no handle, a semaphore is
  no list head, "no buffer" is no buffer.

## 3. Runs

| Run | Question | Instance and why it is enough |
|---|---|---|
| `va_low` | does the walk find the place an exhaustive search of the address space finds, and fail only when there is none? | managers of 3 and 4 granules, `[2,8)` and `[8,16)`, no high range; 3 ranges of 1 or 2 granules, alignment above the granule, a required base. Memory never runs out: a failed `calloc` is a legitimate refusal |
| `va_high` | are addresses in one place each, holes merged, and the four managers with fallback and undo one address space? | high managers `[32,40)` and `[40,48)` besides the low ones, `HIGH` with and without `32_BIT` and `REPLAYABLE`; 3 ranges split and merge on either side; `calloc` may fail anywhere |
| `va_wrap` | (violated) is a base in use refused if `base + size` wraps? | a high range that ends just below the last address |
| `bo_safe` | do bos, references, handles and mappings stay in step? | 2 threads of 2 handle variables, 3 buffers, one of them shared with another process; handle numbers are reused |
| `bo_locks` | are both mutexes always given back? | 3 threads: two inside a bo while the third frees |
| `bo_find` | (violated) does the search name the owner of an address? | two bos mapped at one address in turn |
| `dev_serial` | are devices shared, kept and released? | 3 threads, 2 accelerants: two deinitialize at once, two devices in the list, memory reused |
| `dev_overlap` | (violated) is a handle alive if both calls overlap? | 2 threads |
| `cs_safe` | does every submission get its dependencies, with lists and counts sound, and do the calls, step by step, do what `Semaphores` promises? | 2 contexts on different rings, 2 semaphores so that a list has two entries, 2 submissions to one ring (`Often`), so that an old fence differs from a new one, and 1 to the other; about 1 million states |
| `cs_race` | (violated) is a second signal refused? | 2 threads |
| `stub_backend` | do descriptors, entries, handles and mappings of the stub stay in step? | 2 threads, 2 descriptors (none left is reached), 2 buffers, 1 syncobj, a capability that is taken for a handle, freed memory that reads as either handle, two adjacent mappings of 2 pages, so that a search can hit, miss and fall in a gap; about 2.8 million states |
| `session` | is what a client gets from the calls around the device right and complete, and does nothing leak? | 5 directory entries: two cards, a second function, a card that is gone, no card; 4 families, 1 to 5 engines, one more than there are slots; all name tables of up to 4 lines; 2 threads, 3 syncobjs of which clients hold 1; 1 timeline point beside the binary payload; a word of 6 clock ticks, so that sums wrap; all requests with up to 2 chunks, each of any length up to two records; all streams of up to 2 packets, `COPY_DATA` too short among them, cut after any word; about 500000 states |

Bounds: the constants of the cfg, all finite sets of objects (`Threads`,
`Handles`, `Bos`, `Sems`, ...: memory to allocate from, reused when freed),
`MaxHandle` (kernel handle numbers), `MaxSeq` (submissions per ring, of those in
`Often`, one to the others; in the guard of `SubmitKernel`), `MaxNumber` (numbers of each kind the stub gives out),
`MaxHeld` (syncobjs clients hold, in the guard of `CreateSyncobj`), `MaxPoint`
(points of a timeline), `MaxEngines`, `MaxPackets`, and the last value of the
clock. No other counter grows. Symmetry is used only in runs
without temporal properties other than `[][A]_vars` and the abstract
specification, and only over sets no constant singles out a member of.
Deadlock is checked in every passing run. It is off where a failed assertion may
end the process: `dev_overlap` and `cs_race`.

Fairness. `bo_locks` and `dev_serial` assume weak fairness of `Proceed(t)`: a
thread in the middle of a call is scheduled. Nothing makes a thread start a call
(`Begin`), and a mutex may be given to others again and again while a thread
waits: pthread mutexes promise no more, so no property says that every call
returns, only that mutexes are given back and abandoned devices released.
`session` assumes that the clock goes on (`Tick`) and that the driver answers a
wait whose deadline has passed (`WaitTimesOut`); it assumes nothing of fences,
which may never signal. From this `WaitEnds` follows for every relative timeout
the clock can reach.

### What the violated runs show

- *Wrap.* `va_base_required + size` is compared after it has wrapped, so a base
  at the top is granted although somebody has it.
- *Search by address.* `cpu_ptr` is cleared after the `munmap`; a search in
  between returns the bo that used to be mapped there.
- *Initialize against deinitialize.* The last reference is dropped outside
  `dev_mutex`, after an initialization has found the device and passed the
  assertion on its count.
- *Double signal.* The test for a signalled semaphore precedes the lock.

## 4. Proofs

`VaRangeProofs` proves, for all values of the constants that satisfy the
assumptions named in the modules (any number of threads and handles, any
granule, any address width):

- `TypeCorrect`: `Spec => []TypeOK`, with no further assumption.
- `HolesAndRangesApart`: `Layout /\ NoWrap => (Spec => []SpaceInvariant)`. Holes
  are apart and inside their manager; ranges are inside their manager, apart from
  its holes and from each other.
- `ManagersImplementSpace`: under the same assumptions `Spec => ImplementsVaSpace`.
  The four managers implement the one address space of `VaSpace`.
- For clients that ask for something (`NonEmpty`) besides: `AddressesAccounted`
  (`[]SpaceExact`), and from it `[]Coalesced` (`HolesCoalesced`),
  `[]EveryAddressOnce` (`AddressesOnce`, with `NoHighOffset`), `TakesBestPlace`
  (`BestPlaceTaken`), `FailsOnlyWhenFull` (`RefusedWhenFull`, with
  `CallocMayFail = FALSE`), and `BaseInUseRefused` (`BaseRefused`), which
  `va_wrap` violates without `NoWrap`.

`StubProofs` proves, for any number of threads, descriptors and handles, of the
descriptor table alone (`FdMapper`):

- `FdTypeCorrect`: `FdSpec => []FdTypeOK` (for any clients);
- for `Careful` clients `DescriptorsAccounted`: `FdSpec => []FdsAccounted`, and
  `ExportsImportable`: `FdSpec => []ExportedImportable`, and `ImportsTakeOwnEntry`:
  `FdSpec => ImportTakesOwnEntry`, whatever freed memory reads as;

and of the whole stub:

- `StubImplementsFdMapper`: `StubSpec => FdSpec`, for any clients: what the stub
  does to the table is what `FdMapper` says. So the three properties above hold of
  the stub (`StubDescriptorsAccounted`, `StubExportsImportable`, `StubImportsTakeOwnEntry`).
- `StubHandlesResolve`: `StubSpec => []HandlesResolve` for clients that are `Serial`.
- `StubMapsResolve`: `StubSpec => []MapsResolve` for clients that are `Serial` and `Careful`.

`DeviceRegistryProofs` proves, for any threads, handles, accelerants and devices
and `Overlap = FALSE`: `[]TypeOK` (`RegistryTypeCorrect`), `[]RefsCounted`
(`ReferencesExact`), `[]AccelerantsBalanced` (`AccelerantsExact`),
`[]HandlesAlive` (`HandlesStayAlive`), `[]OneDevicePerAccelerant`
(`DevicesShared`), and that the assertion of `update_references` never fails
(`AssertionNeverFails`).

`BoManagerProofs` proves, for any threads, variables, buffers and handles and
with no assumption about clients but those in section 2: `[]TypeOK`
(`BoTypeCorrect`), `[]OneBoPerBuffer` (`OneBo`), `[]BuffersStayOpen`
(`StaysOpen`), `[]RefsCounted` (`RefsExact`), `[]HandlesAccounted`
(`HandlesNotLost`), `[]MappingsAccounted` (`MappingsNotLost`).

`CsContextProofs` proves, for any contexts, rings, semaphores and threads:
`[]SequenceCurrent` for any clients (`SequenceNumbersCurrent`; in `cs_safe` the
abstract `Signal` asks for it), and for `Careful`
ones `[]TypeOK` (`ContextTypeCorrect`), `[]SemaphoresCounted`
(`SemaphoreReferencesExact`), `[]DependenciesComplete` (`DependenciesArrive`),
`[]WaitListsSound` (`WaitListsWhole`), and `SignalRefused`
(`SecondSignalRefused`), which `cs_race` violates without that assumption; and
`Spec => ImplementsSemaphores` (`ContextsImplementSemaphores`), that
`CsContext` implements `Semaphores`, also for `Careful` clients.

`SessionProofs` proves of `Session`, for any constants: `[]TemporariesAccounted`
(`NoTemporaryLeaks`), `[]FilesFaithful` (`SyncFilesFaithful`), `[]TimesOutInTime`
(`WaitsLastLongEnough`), `[]DevicesAccounted` (`NoDeviceLeaks`),
`[]DevicesIdentified` (`DevicesTellSlots`), `[]NameFollowsTable` (`NameFound`),
`[]InfoComplete` (`RegistersComplete`), `[]AnswersReported` (`CallsReport`),
`[]DiagnosticsFaithful` (`DiagnosticsShow`) and `[]TypeOK` (`SessionTypes`).
`InfoComplete` is about devices whose engines fit, `AnswersReported` leaves out
failures of `ErrnoFailures` that find `errno` 0, and `DiagnosticsFaithful` leaves
out the answers to requests that run on and what the dump reads after a packet
that overruns the stream. `DevicesIdentified` tells slots apart, not functions of one.

The argument for the addresses. `SpaceInvariant` is the inductive invariant: that ranges do not
overlap (`HeldApart`) is not inductive alone, because an allocation takes its
address from a hole; so holes must avoid ranges (`RangeSound`), freeing must
keep holes apart (`ListsSound`), and a call in progress must remember a request
that still does not wrap (`CallsSound`). Each action changes one list through
one of two operators, so the work is in two lemmas of `VaMgrProofs`:
`SubtractHoleSafe` (cutting a placed range out of a hole) and `FreeVaSafe`
(returning a range, with its four ways of merging). Both are stated over
operators, without the state machine, and cited by name. The refinement then
shows that each step claims addresses that were free, passes a range on, drops
one, or stutters.

That nothing is lost needs more than that nothing overlaps. `SpaceExact` says
that lists are sorted with a gap between any two holes and no empty hole
(`ListsExact`), that each address is in a hole, in a range or among those a failed
`calloc` dropped (`Accounted`, `LostApart`), and that a call in progress asks for
more than nothing with an alignment already raised to the granule (`CallsExact`).
It needs `SpaceInvariant`, never the converse. The work is again in lemmas about
lists: `SubtractHoleExact`, and `FreeVaExact`, which is where it matters that the
loop of `free_va` stops at the right entry (`StopsAt`). `FreeVaForms` names the four
ways `free_va` edits a list; both its lemmas go by them. `NonEmpty` cannot be
dropped: freeing a range of size 0 links an empty hole. That the walk of the list
finds the best place of the whole manager follows without induction: since
holes never touch, free addresses in a row lie in one hole (`RunInHole`), a hole
with room takes the request at the best aligned place in it (`RoomIsTaken`), and
the other holes lie wholly above or below.

The argument for the descriptors. `FdsAccounted` and `ExportedImportable` are
not inductive. `FdInvariant` adds what is true of threads inside a call: a number
between `open` and the table belongs to no other thread and to no client
(`OpenersApart`), and a thread is between close and erase exactly while it holds
the lock, with a number no client has (`ClosersHoldLock`). So an export, which
needs the lock, finds no close half done and no entry under its number, and
`emplace` enters what was exported. There is one lemma per action. The stub's
own tables need that numbers are above those in use: with one creation at a time
the number a thread has read is the one it writes back. For `MapsResolve` the
invariant says that mappings begin where a client mapped them and keep apart;
the last one at or below an address is then the only one that can cover it.

The argument for the devices. `RegistryInvariant` says who holds `dev_mutex`
(`LockHeld`: an initialization, from its search to its return), what each thread
inside a call knows (`InitializersSound`, `DeinitializersSound`), and that a
device in memory is listed and referred to or in the hands of one thread that
lists or frees it (`NobodyForgotten`). `PhasesApart` is what `Overlap = FALSE`
says of a state. That counts are exact needs sums over handles: `Counting` has
the lemmas about the cardinality of a set that gains or loses one member.

The argument for the buffers. `BoInvariant` links the three tables the code
keeps apart: a bo with references has an open handle, its buffer's, under which
the table finds it (`BosSound`); the table has no stale entry (`TableSound`);
handles of the kernel name one buffer each (`HandlesDistinct`). The rest is what
a thread knows at each step, and under which mutex: an import that missed still
finds no entry when it adds one (`ImportersSound`, by `TableLockHeld`); a bo that
is being freed has left the table before its handle is closed (`FreersSound`).
This is why two threads cannot make two bos of one buffer, though the last
reference is dropped without the mutex.

The argument for the contexts. `SeqInvariant` (mutexes, sequence numbers) holds
for any client. For careful ones `CsInvariant` adds the shape of the lists:
`LinksSound` (`prev` undoes `next` among the nodes of one list) and `Ordered`,
which gives the nodes of a list positions, so that a list that closes on itself
without some of its members is excluded: the links alone do not say that. A
semaphore has two owners at most, the client and its signal (`RefsHeld`), and the
fences a submission has taken and those still on its ring's list are together
those expected (`SubmissionsSound`). One lemma per action, on top of
`list_add`'s and `list_del`'s.

The argument for `Semaphores`. A submission takes all the semaphores of its
ring at once there, and one by one, half written in between, in the code. The
mapping lets the submission have them when it takes the lock: a semaphore still
on the list of a walk under way counts as taken (`Taken`), and a fence counts
only when all of it is written (`Carries`). So `SubmitLock`, `CtxFree`,
`SignalSet` and `WaitAdd` map to `Take`, `Close`, `Signal` and `Wait`, and the
steps of the walks change nothing. `CsInvariant` is needed in four places: what
the walk finds under the lock is what waited (`SubmissionsSound`), so that the
kernel gets the fences `Take` promised; `last_seq` is the ring's last submission
when a signal reads it (`SequenceSound`); a semaphore freed or given out anew
carries nothing (`RefsHeld`); and the numbers of a context begin anew only when
no fence in use has an old one (`FencesSound`). The frame lemmas (`TakenFrame`,
`SettledFrame`) say that a step of one thread moves no semaphore of another.

The argument for the session. A step of the session is a step of one part and
leaves the others alone (`SessionSteps`), so that an invariant of a part is one
of the session. `FilesInvariant` follows a call of `CsSync` between the creation
and the destruction of its temporary syncobj, which no other call has
(`CallsApart`); `WaitsInvariant` relates a deadline to the time its wait began;
`EnumInvariant` relates the array, the directory entry being read and the memory;
`NameSound` says what the lines read so far were; `RepliesSound` says that a call
goes on after an answer of "ok" only, that the stub answers every wait, and that
memory of an unfinished version belongs to a running `drmGetVersion`.

The list of requests of an initialization, and the streams that are dumped, are
put together with `FlattenSeq`, which is recursive. `Counting` has induction over
numbers in a form the provers can use: a set of numbers that has 0, and with each
number the next, is `Nat` (`NumbersAll`). By it what `FlattenSeq` returns is the
last of the concatenations of the first so many parts (`FlattenConcats`), and
from that follow the two facts the proofs need: which elements are in it
(`ToSetFlatten`), and for each place in it the part that place is in
(`FlattenSpots`). `InfoSound` then says that what is kept is what the requests
made so far gave, and for a device behind the stub that the stub's tables had
them; once all have been made, fields and engines are those of the family.
`DiagSound` says that after each stage of the tracer what is shown is what the
request holds or a chunk cut within a record, for any number of chunks, and that
the dump's walk stands where a packet begins or at the end of one, in the stream
or, after a packet that overruns it, outside.

Every inductive invariant was checked with TLC on the instance of its run before
it was proved. The proof modules assume nothing of their own; beyond the
assumptions at the top of the modules, hypotheses are named in the theorems
(`Layout`, `NoWrap`, `NonEmpty`, `NoHighOffset`, `CallocMayFail = FALSE`, `Careful`, `Serial`, `Overlap = FALSE`).

Every invariant that a run checks is also a theorem. Only model-checked: liveness
(`LocksReleased`, `DevicesReleased`, `WaitEnds`), which needs fairness and `ENABLED`
and is out of the prover's reach.

The tables of `Diagnostics` are joined with an operator of that module (`Joined`)
rather than with `@@` of `TLC`, about which the provers know nothing.

## 5. Not modelled, and known limits

Not modelled:

- `amdgpu_vamgr_deinit` and the release of a device's tables: they free memory
  of a device nobody has any more, and change nothing another operation sees.
- The roster that finds the accelerant of a descriptor (`amdgpu_device_haiku.cpp`),
  beyond the accelerant it gives: it is a library of the system.
- The generated register names (`radeon_hd_regs.*`, `gen_reg_headers.py`), the
  text of the tracer, of the dump and of `drmdevice`: no state, no control.
- Declarations of the headers that nothing here uses.

What the models show of the code that no run blames it for, because no document
of the repository says otherwise, or because a property names and excludes it:

- Size 0 (`amdgpu_vamgr.c:110`, `185-186`): accepted; freeing it links an empty
  hole whose neighbours are never merged again. The runs and the theorems about
  single addresses ask for a granule or more (`NonEmpty`).
- A failed submission has already taken the semaphores off their list
  (`amdgpu_cs.c:353`); a semaphore waited on twice makes the list a loop (`535`);
  one that is signalled, destroyed and never waited on is never freed (`513`).
- Wrappers that return `errno` report what is left there when the stub fails,
  perhaps 0 (`libdrm_common.c:99`; `ErrnoFailures` in `DrmCalls`).
- `drmGetCap` of a capability the stub does not know exports a buffer whose
  handle is the capability and returns the descriptor as its value
  (`libdrmStub.cpp:594-604`; `capFds` in `StubBackend`): nobody closes it.
- `amdgpu_query_firmware_version` returns before it writes its two results
  (`amdgpu_gpu_info.c:125`), which `amdgpu.h:1115-1128` declares as outputs; the
  stub answers several queries without writing the answer. The models keep
  success and failure only.
- `drmGetDevice2` returns 0 without a device when the open node is no PCI card or
  memory runs out (`FindEntry`), and `drmGetRenderDeviceNameFromFd` allocates the
  name without the space for its end (`libdrm_device.cpp:260`).
- The tracer shows `WAIT_CS` also as the next record, and the answers to five
  queries as a larger one (`libdrm_trace.c:166-174`, `215`; `RunsOn`): the model
  has these, the property does not judge them. It reads a record that a chunk ends
  within (`314`, `342`, `353`) and follows the list of a `BO_HANDLES` chunk through
  it (`ChunkCut`).
- `DumpIb` takes the source register of `COPY_DATA` from the destination word
  (`PayloadShown`), reads its fixed words whatever its length, and is not stopped
  by a length that leads past the end of the stream (`libdrmStub.cpp:151`; `Overruns`).
- `drmFdUnmapHandle` reads the handle out of an erased entry (`fdMapper.cpp:55-57`):
  an import may return any number. No line says which handle an import returns.
- More than four shader engines are written past the arrays that hold them
  (`amdgpu_gpu_info.c:164`; `EnginesFit`).

What a fault in the code could do unnoticed here: the address space of `VaRange`
is built from the layout that `amdgpu_device_initialize_haiku` computes, so a
manager that reaches past the device would not show; and the assertion of
`update_references` is stated for the counts (`AssertionNeverFails`) but is not a
branch of `Deinit`.
