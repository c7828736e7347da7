------------------------------ MODULE DeviceProxy ------------------------------
(* The device proxy (strawwu-device-proxy): the PCI devices given to a guest   *)
(* through VFIO (vfio.rs), the list of virtual devices with hotplug and serial  *)
(* ports (devices.rs), and the rules for device controls (ioctl.rs).  The       *)
(* three share no state.  An error return changes nothing and is no action.     *)
EXTENDS Naturals, Sequences, FiniteSets

CONSTANTS
    PciDevice,  \* PCI addresses
    IommuGroup,
    Iova,       \* addresses that DMA is mapped at
    MaxDevices, \* bound on the entries of the device list
    DevicePath, \* win32 paths of virtual devices
    Subsystem,  \* directories of /dev, by the class of a device
    HostPath,   \* Linux paths of default_device_map
    Builtin,    \* the paths of default_device_map
    MaxPlugged, \* bound on the devices in the list
    ControlCode,\* IOCTL codes
    MaxRules, MaxAudit

ASSUME DeviceProxyAssumption == {MaxDevices, MaxPlugged, MaxRules, MaxAudit} \subseteq Nat

\* Two devices of default_device_map may share a Linux path, never a win32 path.
ASSUME BuiltinAssumption ==
    /\ Builtin \in Seq([path : DevicePath, linux : HostPath]) /\ Len(Builtin) <= MaxPlugged
    /\ \A i, j \in DOMAIN Builtin : Builtin[i].path = Builtin[j].path => i = j

VARIABLES
    iommu,      \* VfioManager.iommu_available
    devices,    \* devices, in the order they were added
    viable,     \* VfioManager.groups as the last scan left them
    scanned,    \* history: how many entries the last scan saw
    container,  \* VfioContainer.state
    attached,   \* attached_groups
    admitted,   \* history: by group, the entries of the scan it was attached on
    dma,        \* dma_mappings
    routed,     \* interrupts
    plugged,    \* DeviceEnumerator.devices: win32 path and linux_path
    rules,      \* IoctlHandler.rules
    auditLog,   \* audit_log
    asked       \* history: the calls and what they were answered

vfioVars == <<iommu, devices, viable, scanned, container, attached, admitted, dma, routed>>
plugVars == plugged
ioctlVars == <<rules, auditLog, asked>>

HostBound == {"bridge", "host"}
BindState == HostBound \union {"vfio", "unbound"}
ContainerState == {"Closed", "Open", "GroupAttached", "IommuSet"}
EntryCount == 0 .. MaxDevices
\* known is history: of an entry that bind_to_vfio bound, how many entries there were.
Entry == [device : PciDevice, group : IommuGroup, state : BindState, known : EntryCount]

VfioTypeOK ==
    /\ iommu \in BOOLEAN /\ devices \in Seq(Entry) /\ Len(devices) <= MaxDevices
    /\ viable \in [IommuGroup -> {"unknown", "yes", "no"}] /\ scanned \in EntryCount
    /\ container \in ContainerState /\ attached \subseteq IommuGroup
    /\ admitted \in [IommuGroup -> EntryCount]
    /\ dma \subseteq Iova /\ routed \subseteq PciDevice

VfioInit ==
    /\ iommu \in BOOLEAN
    /\ devices = << >>
    /\ viable = [g \in IommuGroup |-> "unknown"] /\ scanned = 0
    /\ container = "Closed" /\ attached = {}
    /\ admitted = [g \in IommuGroup |-> 0]
    /\ dma = {} /\ routed = {}

\* An address may be added again, with another group or binding.
AddDevice(d, g, state) ==
    /\ Len(devices) < MaxDevices
    /\ devices' = Append(devices, [device |-> d, group |-> g, state |-> state, known |-> 0])
    /\ UNCHANGED <<iommu, viable, scanned, container, attached, admitted, dma, routed>>

\* Whoever looks an address up finds the first entry that has it.
IsFirst(i) ==
    i \in DOMAIN devices /\ \A j \in 1 .. i - 1 : devices[j].device # devices[i].device

OnBridge(d) == \E i \in DOMAIN devices :
    IsFirst(i) /\ devices[i].device = d /\ devices[i].state = "bridge"

EntriesOf(g) == {i \in DOMAIN devices : devices[i].group = g}

\* Mutation: one device without the bridge driver makes its group viable.
ViabilitySome(g) ==
    IF EntriesOf(g) = {} THEN "unknown"
    ELSE IF \E i \in EntriesOf(g) : ~OnBridge(devices[i].device) THEN "yes" ELSE "no"

Viability(g) ==
    IF EntriesOf(g) = {} THEN "unknown"
    ELSE IF \A i \in EntriesOf(g) : ~OnBridge(devices[i].device) THEN "yes" ELSE "no"

\* scan_iommu_groups forgets the last scan.
ScanIommuGroups ==
    /\ iommu
    /\ viable' = [g \in IommuGroup |-> Viability(g)]
    /\ scanned' = Len(devices)
    /\ UNCHANGED <<iommu, devices, container, attached, admitted, dma, routed>>

\* The other entries of the same address and group are not looked at.
BindToVfio(i) ==
    /\ iommu /\ IsFirst(i) /\ devices[i].state # "vfio"
    /\ \A j \in EntriesOf(devices[i].group) :
           devices[j].device # devices[i].device => devices[j].state \notin HostBound
    /\ devices' = [devices EXCEPT ![i] = [@ EXCEPT !.state = "vfio", !.known = Len(devices)]]
    /\ UNCHANGED <<iommu, viable, scanned, container, attached, admitted, dma, routed>>

UnbindFromVfio(i) ==
    /\ IsFirst(i) /\ devices[i].state = "vfio"
    /\ devices' = [devices EXCEPT ![i] = [@ EXCEPT !.state = "unbound", !.known = 0]]
    /\ UNCHANGED <<iommu, viable, scanned, container, attached, admitted, dma, routed>>

\* The route of a device outlives its binding.
SetupInterrupts(i) ==
    /\ IsFirst(i) /\ devices[i].state = "vfio"
    /\ routed' = routed \union {devices[i].device}
    /\ UNCHANGED <<iommu, devices, viable, scanned, container, attached, admitted, dma>>

\* open_container also reopens: groups and mappings stay.
OpenContainer ==
    /\ iommu /\ container' = "Open"
    /\ UNCHANGED <<iommu, devices, viable, scanned, attached, admitted, dma, routed>>

\* The last scan decides, however old it is.
AttachGroup(g) ==
    /\ viable[g] = "yes" /\ container # "Closed"
    /\ attached' = attached \union {g}
    /\ admitted' = [admitted EXCEPT ![g] = IF g \in attached THEN @ ELSE scanned]
    /\ container' = "GroupAttached"
    /\ UNCHANGED <<iommu, devices, viable, scanned, dma, routed>>

SetIommu ==
    /\ container # "Closed" /\ container' = "IommuSet"
    /\ UNCHANGED <<iommu, devices, viable, scanned, attached, admitted, dma, routed>>

SetDma(mappings) ==
    /\ container = "IommuSet" /\ dma' = mappings
    /\ UNCHANGED <<iommu, devices, viable, scanned, container, attached, admitted, routed>>

MapDma(a) == SetDma(dma \union {a})
UnmapDma(a) == SetDma(dma \ {a})

VfioNext ==
    \/ ScanIommuGroups \/ OpenContainer \/ SetIommu
    \/ \E d \in PciDevice, g \in IommuGroup, state \in BindState : AddDevice(d, g, state)
    \/ \E i \in DOMAIN devices : BindToVfio(i) \/ UnbindFromVfio(i) \/ SetupInterrupts(i)
    \/ \E g \in IommuGroup : AttachGroup(g)
    \/ \E a \in Iova : MapDma(a) \/ UnmapDma(a)

VfioSpec == VfioInit /\ [][VfioNext]_vfioVars

-----------------------------------------------------------------------------
(* Hotplug.  The Linux path of a device that was plugged in is a directory and  *)
(* the number of devices there were.                                            *)

Paths == {plugged[i].path : i \in DOMAIN plugged}
LinuxPath == HostPath \union (Subsystem \X (0 .. MaxPlugged))

\* kind is history: a device that was plugged in "stands" until another is
\* removed, and then has "moved".
Device == [path : DevicePath, linux : LinuxPath, kind : {"builtin", "stands", "moved"}]

PlugTypeOK == plugged \in Seq(Device) /\ Len(plugged) <= MaxPlugged

PlugInit ==
    plugged = [i \in DOMAIN Builtin |->
        [path |-> Builtin[i].path, linux |-> Builtin[i].linux, kind |-> "builtin"]]

HotplugAdd(path, dir) ==
    /\ path \notin Paths /\ Len(plugged) < MaxPlugged
    /\ plugged' = Append(plugged,
           [path |-> path, linux |-> <<dir, Len(plugged)>>, kind |-> "stands"])

Moved(d) == [d EXCEPT !.kind = IF @ = "stands" THEN "moved" ELSE @]

\* One device has the path, since HotplugAdd refuses a second: those after it
\* move up by one.
HotplugRemove(path) ==
    \E k \in DOMAIN plugged :
        /\ plugged[k].path = path
        /\ plugged' = [i \in 1 .. Len(plugged) - 1 |-> Moved(plugged[IF i < k THEN i ELSE i + 1])]

PlugNext ==
    \E path \in DevicePath :
        HotplugRemove(path) \/ \E dir \in Subsystem : HotplugAdd(path, dir)

PlugSpec == PlugInit /\ [][PlugNext]_plugVars

-----------------------------------------------------------------------------
(* Device controls.                                                           *)

Policy == {"Allow", "Deny", "Stub", "Audit"}
Audited == {"Audit", "Deny"}
Control == DevicePath \X ControlCode

IoctlTypeOK ==
    /\ rules \in Seq([call : Control, policy : Policy])
    /\ auditLog \in Seq([call : Control, policy : Policy])
    /\ asked \in Seq([call : Control, policy : Policy, rules : 0 .. MaxRules])

IoctlInit == rules = << >> /\ auditLog = << >> /\ asked = << >>

AddRule(call, policy) ==
    /\ Len(rules) < MaxRules
    /\ rules' = Append(rules, [call |-> call, policy |-> policy])
    /\ UNCHANGED <<auditLog, asked>>

\* evaluate: the first rule for the call decides; without one it is audited.
Evaluate(call) ==
    {r \in Policy : \E i \in DOMAIN rules :
        /\ rules[i] = [call |-> call, policy |-> r]
        /\ \A j \in 1 .. i - 1 : rules[j].call # call}

EvaluateWithAudit(call) ==
    LET decided == Evaluate(call)
        policy == IF decided = {} THEN "Audit" ELSE CHOOSE p \in decided : TRUE
    IN  /\ Len(asked) < MaxAudit
        /\ asked' = Append(asked, [call |-> call, policy |-> policy, rules |-> Len(rules)])
        /\ auditLog' = IF policy \in Audited
                       THEN Append(auditLog, [call |-> call, policy |-> policy])
                       ELSE auditLog
        /\ UNCHANGED rules

IoctlNext ==
    \E call \in Control :
        \/ \E policy \in Policy : AddRule(call, policy)
        \/ EvaluateWithAudit(call)

-----------------------------------------------------------------------------
\* Whatever order devices are added, bound and unbound in, addresses added twice,
\* groups scanned and attached and the container opened again: (1) no device
\* that the scan which admitted an attached group saw in it is on the bridge
\* driver, by the entry that lookups find (a second entry of its address is not
\* looked at); (2) of the group of a device that was bound no other device that
\* was there is on a host driver; (3) nothing is attached or mapped in a
\* container that was never opened; (4) nothing is opened or bound without an
\* IOMMU.
GroupsAdmitted ==
    /\ \A g \in attached : \A i \in EntriesOf(g) :
           i <= admitted[g] => ~OnBridge(devices[i].device)
    /\ \A i, j \in DOMAIN devices :
           /\ j <= devices[i].known /\ devices[j].group = devices[i].group
           /\ devices[j].device # devices[i].device
           => devices[j].state \notin HostBound
    /\ attached # {} \/ dma # {} => container # "Closed"
    /\ ~iommu => container = "Closed" /\ \A i \in DOMAIN devices : devices[i].known = 0

\* A device is found by its paths: no two devices have one win32 path, and a
\* device that was plugged in shares its Linux path with no device plugged in
\* after it as long as nothing was removed since it came.
PathsApart ==
    \A i, j \in DOMAIN plugged : i < j =>
        /\ plugged[i].path # plugged[j].path
        /\ plugged[i].kind = "stands" /\ plugged[j].kind # "builtin" =>
               plugged[i].linux # plugged[j].linux
=============================================================================
