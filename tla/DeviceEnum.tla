----------------------------- MODULE DeviceEnum -----------------------------
(***************************************************************************)
(* Device enumeration (libdrm_device.cpp, Poke.cpp, and drmDevicesEqual of *)
(* libdrm_common.c), driven the way tools/drmdevice.c does it: list the    *)
(* devices of /dev/graphics, open the node of each, look the open node up  *)
(* again, free everything.                                                 *)
(*                                                                         *)
(* A directory entry is named after the PCI function of its card, or not   *)
(* after a card at all.  The directory is read entry by entry; a card may  *)
(* be plugged in or out between two readings and also within one, and      *)
(* every allocation may fail.                                              *)
(***************************************************************************)
EXTENDS Naturals, Sequences, FiniteSets

CONSTANTS
    Entries,     \* names in /dev/graphics
    PciBus,      \* the PCI functions of the machine, in the order of the bus
    MaxDevices,  \* length of the array the client passes
    NoDevice     \* NULL

(* A PCI function: its bus and device numbers in one, its function, and    *)
(* what it is.  PciOf is what the name of an entry says, if it says so.    *)
CONSTANT PciOf

PciFunctions == [slot : Nat, func : 0..7]

ASSUME DeviceEnumAssumption ==
    /\ PciBus \in Seq(PciFunctions)
    /\ PciOf \in [Entries -> PciFunctions \cup {NoDevice}]
    /\ MaxDevices \in Nat

VARIABLES
    unread,    \* the entries the open directory has not returned yet
    devices,   \* the array of the client
    deviceCnt, \* how many of its slots are filled
    found,     \* the device of drmGetDevice2, or the name of the node
    node,      \* the entry whose node is open as fd
    heap,      \* devices and names allocated and not freed
    enumPc     \* where the client is

enumVars == <<unread, devices, deviceCnt, found, node, heap, enumPc>>

Slots == 1..MaxDevices

(* A drmDevice: what it says of its node and bus, and which copy it is.    *)
Device == [node : Entries, businfo : PciFunctions, copy : {"listed", "found"}]

(* The path of a node.                                                     *)
Path == [path : Entries]

ASSUME NoDeviceAssumption == NoDevice \notin Device \cup Path \cup PciFunctions

EnumInit ==
    /\ unread = {}
    /\ devices = [i \in Slots |-> NoDevice]
    /\ deviceCnt = 0
    /\ found = NoDevice
    /\ node = NoDevice
    /\ heap = {}
    /\ enumPc = "start"

-----------------------------------------------------------------------------
(* The name gives bus and device; function is passed by value, so the      *)
(* caller's stays 0 whatever the name says.                                *)
ParseDevPciAdr(e) ==
    IF PciOf[e] = NoDevice THEN NoDevice ELSE [slot |-> PciOf[e].slot, func |-> 0]

(* The driver numbers the functions of the bus from 0 to 255 at most.      *)
GetNthPciInfo(i) == IF i + 1 \in DOMAIN PciBus THEN PciBus[i + 1] ELSE NoDevice

(* The search stops at the first number the bus has no function for.       *)
LookupPciDevice(pci) == \E i \in 0..255 : GetNthPciInfo(i) = pci

(* A bug: any function of the slot will do, also the last one seen.        *)
LookupPciFunction(e) ==
    IF PciOf[e] = NoDevice \/ PciBus = <<>> THEN NoDevice ELSE PciBus[Len(PciBus)]

PciFunctionOf(e) ==
    LET pci == ParseDevPciAdr(e)
    IN  IF pci # NoDevice /\ LookupPciDevice(pci) THEN pci ELSE NoDevice

(* A new device, unless there is no memory. *)
drmDeviceAlloc(e, pci, copy) == {NoDevice, [node |-> e, businfo |-> pci, copy |-> copy]}

(* The devices the call may leave in *device. *)
drmGetDeviceInt(e, copy) ==
    IF PciFunctionOf(e) = NoDevice THEN {NoDevice}
    ELSE drmDeviceAlloc(e, PciFunctionOf(e), copy)

drmDevicesEqual(a, b) == a # NoDevice /\ b # NoDevice /\ a.businfo = b.businfo

-----------------------------------------------------------------------------
(* drmGetDevices2(0, NULL, 0), the count the tool begins with: the loop    *)
(* ends before it has read an entry.  A client that goes on brings an      *)
(* array of its own; the directory holds the cards plugged in just then.   *)
ListOpen ==
    /\ enumPc = "start"
    /\ unread' \in SUBSET Entries
    /\ deviceCnt' = 0
    /\ enumPc' = "listing"
    /\ UNCHANGED <<devices, found, node, heap>>

(* A bug: the slot is passed over. *)
ListEntrySkips(e) ==
    /\ enumPc = "listing" /\ deviceCnt < MaxDevices /\ e \in unread
    /\ unread' = unread \ {e}
    /\ \E d \in drmGetDeviceInt(e, "listed") :
          /\ devices' = [devices EXCEPT ![deviceCnt + 1] = d]
          /\ heap' = heap \cup ({d} \ {NoDevice})
    /\ deviceCnt' = deviceCnt + 1
    /\ UNCHANGED <<found, node, enumPc>>

(* One turn of the loop: an entry that gives no device leaves its slot to  *)
(* the next one.                                                           *)
ListEntry(e) ==
    /\ enumPc = "listing" /\ deviceCnt < MaxDevices /\ e \in unread
    /\ unread' = unread \ {e}
    /\ \E d \in drmGetDeviceInt(e, "listed") :
          /\ devices' = [devices EXCEPT ![deviceCnt + 1] = d]
          /\ heap' = heap \cup ({d} \ {NoDevice})
          /\ deviceCnt' = IF d = NoDevice THEN deviceCnt ELSE deviceCnt + 1
    /\ UNCHANGED <<found, node, enumPc>>

ListReturn ==
    /\ enumPc = "listing" /\ (unread = {} \/ deviceCnt = MaxDevices)
    /\ unread' = {}
    /\ enumPc' = "listed"
    /\ UNCHANGED <<devices, deviceCnt, found, node, heap>>

(* The client opens the node of a listed device.                           *)
OpenNode(i) ==
    /\ enumPc = "listed" /\ i <= deviceCnt /\ devices[i] # NoDevice
    /\ node' = devices[i].node
    /\ unread' \in SUBSET Entries
    /\ enumPc' = "finding"
    /\ UNCHANGED <<devices, deviceCnt, found, heap>>

(* drmGetDevice2 compares the inode of the next entry with that of fd.  It *)
(* gives up when the entry has gone meanwhile, and returns 0 for the right *)
(* entry whether or not a device came of it.                               *)
FindEntry(e) ==
    /\ enumPc = "finding" /\ e \in unread
    /\ unread' = unread \ {e}
    /\ \E gone \in BOOLEAN, d \in drmGetDeviceInt(e, "found") :
          IF ~gone /\ e = node
          THEN /\ found' = d
               /\ heap' = heap \cup ({d} \ {NoDevice})
               /\ enumPc' = "found"
          ELSE /\ enumPc' = IF gone THEN "listed" ELSE "finding"
               /\ UNCHANGED <<found, heap>>
    /\ UNCHANGED <<devices, deviceCnt, node>>

(* drmGetRenderDeviceNameFromFd searches in the same way, for the name of  *)
(* the node; there may be no memory for it.                                *)
NameEntry(e) ==
    /\ enumPc = "finding" /\ e \in unread
    /\ unread' = unread \ {e}
    /\ \E gone \in BOOLEAN, p \in {NoDevice, [path |-> e]} :
          IF ~gone /\ e = node
          THEN /\ found' = p
               /\ heap' = heap \cup ({p} \ {NoDevice})
               /\ enumPc' = "found"
          ELSE /\ enumPc' = IF gone THEN "listed" ELSE "finding"
               /\ UNCHANGED <<found, heap>>
    /\ UNCHANGED <<devices, deviceCnt, node>>

(* The directory ends without the entry: B_ERROR, or NULL.                 *)
FindNothing ==
    /\ enumPc = "finding" /\ unread = {}
    /\ enumPc' = "listed"
    /\ UNCHANGED <<unread, devices, deviceCnt, found, node, heap>>

(* drmFreeDevice(&device), or free of the name, and close(fd).             *)
FreeFound ==
    /\ enumPc = "found"
    /\ heap' = heap \ {found}
    /\ found' = NoDevice
    /\ node' = NoDevice
    /\ unread' = {}
    /\ enumPc' = "listed"
    /\ UNCHANGED <<devices, deviceCnt>>

(* A bug: the last slot is left. *)
FreeListedButLast ==
    /\ enumPc = "listed"
    /\ heap' = heap \ {devices[i] : i \in 1..(deviceCnt - 1)}
    /\ devices' = [i \in Slots |-> NoDevice]
    /\ deviceCnt' = 0
    /\ node' = NoDevice /\ unread' = {}
    /\ enumPc' = "freed"
    /\ UNCHANGED found

(* drmFreeDevices(devices, deviceCnt).                                     *)
FreeListed ==
    /\ enumPc = "listed"
    /\ heap' = heap \ {devices[i] : i \in 1..deviceCnt}
    /\ devices' = [i \in Slots |-> IF i <= deviceCnt THEN NoDevice ELSE devices[i]]
    /\ deviceCnt' = 0
    /\ node' = NoDevice /\ unread' = {}
    /\ enumPc' = "freed"
    /\ UNCHANGED found

EnumNext ==
    \/ ListOpen
    \/ \E e \in Entries : ListEntry(e)
    \/ ListReturn
    \/ \E i \in Slots : OpenNode(i)
    \/ \E e \in Entries : FindEntry(e)
    \/ \E e \in Entries : NameEntry(e)
    \/ FindNothing
    \/ FreeFound
    \/ FreeListed

-----------------------------------------------------------------------------
(* The array and the count agree at every moment, each device stands in    *)
(* the array once, and nothing is allocated that the client cannot reach:  *)
(* drmFreeDevices leaves no device behind, whatever failed and whatever    *)
(* was unplugged on the way.                                               *)
DevicesAccounted ==
    /\ deviceCnt <= MaxDevices
    /\ \A i \in Slots : devices[i] # NoDevice <=> i <= deviceCnt
    /\ \A i, j \in 1..deviceCnt : i # j => devices[i] # devices[j]
    /\ heap = {devices[i] : i \in 1..deviceCnt} \cup ({found} \ {NoDevice})

(* A device describes the slot its node names, and looking up an open node *)
(* gives the device that was listed for it: drmDevicesEqual holds of two   *)
(* devices exactly when their nodes name functions of the same slot.  It   *)
(* cannot tell those functions apart, ParseDevPciAdr has lost them.  The   *)
(* name found for an open node is that of its device.                      *)
DevicesIdentified ==
    /\ found \in Path => \E i \in 1..deviceCnt : devices[i].node = found.path
    /\ \A d, e \in heap \ Path :
          /\ PciOf[d.node].slot = d.businfo.slot
          /\ drmDevicesEqual(d, e) <=> PciOf[d.node].slot = PciOf[e.node].slot
=============================================================================
