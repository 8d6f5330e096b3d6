--------------------------- MODULE DeviceSelection ---------------------------
(***************************************************************************)
(* How the resource manager finds the devices of a pool                    *)
(* (pkg/resources: DiscoverHostDevices, GetDevices, GetFilteredDevices).   *)
(*                                                                         *)
(* A device stands for a PCI device as it appears at some time.  Info[d]   *)
(* says what ghw reports of it (addr, class, vendor, deviceID) and what    *)
(* sysfs, netlink and rdmamap answer about its address (names, its network *)
(* interfaces; driver, NoValue if none is bound; link, the type of the     *)
(* link with the first name, NoValue if netlink does not find it; files,   *)
(* its RDMA character devices).  A file is a pair of a kind ("uverbs",     *)
(* "umad", ...) and a number.  A host is the sequence of its devices in    *)
(* the order of their addresses.                                           *)
(*                                                                         *)
(* The devices found by DiscoverHostDevices are looked up again by         *)
(* GetDevices, so a PciNetDevice is made of two appearances: the one that  *)
(* was listed and the one that is now at its address.                      *)
(***************************************************************************)
EXTENDS Naturals, SequencesExt

CONSTANTS
    Info,       \* Info[d]: what can be read about device d
    NetClass,   \* netClass, the PCI class of network controllers
    NoValue     \* no driver, no link, no interface name

\* All RDMA devices share one rdma_cm file.
RdmaCm == <<"rdma_cm", 0>>

requiredRdmaDevices == {"rdma_cm", "umad", "uverbs"}

\* Variant of VerifyRdmaSpec: one of the required devices is enough.
VerifyAnyRdmaSpec(rdmaDevSpecs) ==
    \E f \in Range(rdmaDevSpecs) : f[1] \in requiredRdmaDevices

VerifyRdmaSpec(rdmaDevSpecs) ==
    \A rdmaDev \in requiredRdmaDevices : \E f \in Range(rdmaDevSpecs) : f[1] = rdmaDev

\* A loop that appends what it keeps: the elements of s that are in S, in order.
Keep(s, S) ==
    LET kept[k \in 0..Len(s)] ==
            IF k = 0 THEN <<>>
            ELSE IF s[k] \in S THEN Append(kept[k - 1], s[k]) ELSE kept[k - 1]
    IN  kept[Len(s)]

\* Only the class matters; one that cannot be parsed is not netClass either.
DiscoverHostDevices(pci) == Keep(pci, {d \in Range(pci) : Info[d].class = NetClass})

\* The first name of several is used, none is the empty name.
ifNameOf(d) == IF Info[d].names = <<>> THEN NoValue ELSE Head(Info[d].names)

\* NewPciNetDevice fails without a driver, without the link of its interface and
\* without its RDMA devices.
Usable(d) ==
    /\ Info[d].driver # NoValue
    /\ Info[d].names # <<>> => Info[d].link # NoValue
    /\ VerifyRdmaSpec(Info[d].files)

\* The positions of the files of a kind.
OfKind(files, kind) == {k \in DOMAIN files : files[k][1] = kind}

\* What rdmamap finds for devices that can be shared: one uverbs and the common
\* rdma_cm for each RDMA device, and no other file twice.
RegularFiles(files) ==
    /\ files \in Seq(STRING \X Nat)
    /\ \A k \in OfKind(files, "rdma_cm") : files[k] = RdmaCm
    /\ Cardinality(OfKind(files, "rdma_cm")) = Cardinality(OfKind(files, "uverbs"))
    /\ \A k, l \in DOMAIN files : files[k] = files[l] => k = l \/ files[k] = RdmaCm

ASSUME FilesAssumption == \A d \in DOMAIN Info : Usable(d) => RegularFiles(Info[d].files)

NewPciNetDevice(d, now) == [listed |-> d, read |-> now]

GetPciAddr(dev) == Info[dev.listed].addr
GetVendor(dev) == Info[dev.listed].vendor
GetDeviceID(dev) == Info[dev.listed].deviceID
GetDriver(dev) == Info[dev.read].driver
GetIfName(dev) == ifNameOf(dev.read)
GetLinkType(dev) ==
    IF Info[dev.read].names = <<>> THEN NoValue ELSE Info[dev.read].link
GetRdmaSpec(dev) == Info[dev.read].files

\* What can be read at the address of d.
Now(d, pci) == {e \in Range(pci) : Info[e].addr = Info[d].addr /\ Usable(e)}

\* Variant of GetDevices: a device that fails ends the loop.
GetDevicesUntilError(list, pci) ==
    LET before(n) == \A k \in 1..n : Now(list[k], pci) # {}
    IN  [k \in {n \in DOMAIN list : before(n)} |->
            NewPciNetDevice(list[k], CHOOSE e \in Now(list[k], pci) : TRUE)]

\* Devices for which NewPciNetDevice returns an error, because they have left
\* the host for example, are left out.
GetDevices(list, pci) ==
    LET devices == Keep(list, {d \in Range(list) : Now(d, pci) # {}})
    IN  [k \in DOMAIN devices |->
            NewPciNetDevice(devices[k], CHOOSE e \in Now(devices[k], pci) : TRUE)]

\* What the five device selectors look at.
Gets(dev) ==
    [vendors |-> GetVendor(dev), deviceIDs |-> GetDeviceID(dev),
     drivers |-> GetDriver(dev), ifNames |-> GetIfName(dev),
     linkTypes |-> GetLinkType(dev)]

\* Variant of Filter: a selector without values selects nothing.
FilterStrictly(s, values, inDevices) == {dev \in inDevices : Gets(dev)[s] \in values}

\* The devices that the selector s lets through; GetFilteredDevices applies the
\* selectors that have values.
Filter(s, values, inDevices) ==
    IF values = {} THEN inDevices
    ELSE {dev \in inDevices : Gets(dev)[s] \in values}

\* Each filter keeps the order of the devices, so it is enough to look at which
\* devices pass all of them.
GetFilteredDevices(devices, selector) ==
    LET ofVendor == Filter("vendors", selector.vendors, Range(devices))
        ofID     == Filter("deviceIDs", selector.deviceIDs, ofVendor)
        ofDriver == Filter("drivers", selector.drivers, ofID)
        named    == Filter("ifNames", selector.ifNames, ofDriver)
    IN  Keep(devices, Filter("linkTypes", selector.linkTypes, named))

getDevicesSpec(devices) ==
    FlattenSeq([k \in DOMAIN devices |-> GetRdmaSpec(devices[k])])

-----------------------------------------------------------------------------
(* The rule of the documentation: a missing selector is ignored, the       *)
(* elements of a selector are alternatives, and all selectors must match.  *)

Attribute(d) ==
    [vendors |-> Info[d].vendor, deviceIDs |-> Info[d].deviceID,
     drivers |-> Info[d].driver, ifNames |-> ifNameOf(d),
     linkTypes |-> IF Info[d].names = <<>> THEN NoValue ELSE Info[d].link]

Matches(d, selector) ==
    \A s \in DOMAIN selector : selector[s] = {} \/ Attribute(d)[s] \in selector[s]

\* The files of the devices of a host that match.
FilesOf(pci, selector) ==
    UNION {Range(Info[d].files) : d \in
        {d \in Range(pci) : Info[d].class = NetClass /\ Usable(d) /\ Matches(d, selector)}}

==============================================================================
