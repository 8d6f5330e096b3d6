--------------------------- MODULE DeviceInventory ---------------------------
(***************************************************************************)
(* The device inventory of one resource server (pkg/resources/server.go),  *)
(* on a host whose devices come, go and change: the periodic discovery     *)
(* writes it (UpdateDevices), the ListAndWatch streams report it to the    *)
(* kubelet, Allocate answers from it.                                      *)
(*                                                                         *)
(* A look at the host is one step, but DiscoverHostDevices and GetDevices  *)
(* are two, and the host may change in between.                            *)
(*                                                                         *)
(* The writer and the streams share rs.mutex, a readers-writer lock that a *)
(* waiting writer closes to new readers, and updateResource, a channel     *)
(* with room for one notification.  A stream is a handler goroutine: it    *)
(* may outlive the connection it serves, so two of them can compete for    *)
(* the notification.  Send hands a list to the transport, where it waits   *)
(* until the kubelet reads it; when the transport has no room, Send waits. *)
(*                                                                         *)
(* The reported list is the numbers 0..rdmaHcaMax-1 or nothing, so devs is *)
(* its length.  The health channel is left out: nothing sends on it.       *)
(***************************************************************************)
EXTENDS DeviceSelection

CONSTANTS
    Hosts,      \* what the host may look like
    Selectors,  \* the selectors of the server's configuration
    HcaMax,     \* rs.rdmaHcaMax
    Streams,    \* handler goroutines of ListAndWatch
    Room,       \* lists the transport takes from a stream while none is read
    UseCdi,     \* rs.useCdi
    CdiFails,   \* CreateCDISpec may return an error
    Orphans     \* a connection may be lost before its stream knows

\* A PCI address is that of one device, and RDMA devices share only rdma_cm.
ASSUME HostsAssumption ==
    \A h \in Hosts :
        /\ h \in Seq(DOMAIN Info)
        /\ \A k, l \in DOMAIN h : Info[h[k]].addr = Info[h[l]].addr => k = l
        /\ \A d, e \in Range(h) : d # e /\ Usable(d) /\ Usable(e) =>
               Range(Info[d].files) \cap Range(Info[e].files) \subseteq {RdmaCm}

ASSUME SelectorsAssumption ==
    DOMAIN Selectors = {"vendors", "deviceIDs", "drivers", "ifNames", "linkTypes"}

ASSUME HcaMaxAssumption == HcaMax \in Nat
ASSUME RoomAssumption == Room \in Nat \ {0}
ASSUME SwitchesAssumption ==
    UseCdi \in BOOLEAN /\ CdiFails \in BOOLEAN /\ Orphans \in BOOLEAN

VARIABLES
    host,           \* the host's PCI devices
    deviceList,     \* rm.deviceList
    pciDevices,     \* rs.pciDevices
    deviceSpec,     \* rs.deviceSpec
    devs,           \* length of rs.devs
    arg,            \* the devices of the last UpdateDevices
    upd,            \* what the discovery goroutine is doing
    pending,        \* length of rs.updateResource
    pc,             \* pc[s]: next statement of stream s
    resp,           \* resp[s]: the devices in the response of s
    link,           \* link[s]: the connection of s
    wire,           \* wire[s]: the lists that s has sent and nobody has read
    view            \* what the kubelet last received

discovery == <<host, deviceList>>
inventory == <<pciDevices, deviceSpec, devs, arg>>
streams == <<pc, resp, link, wire>>
vars == <<discovery, inventory, upd, pending, streams, view>>

Counts == {0, HcaMax}

DeviceLists == {DiscoverHostDevices(h) : h \in Hosts}

\* What the periodic update passes to UpdateDevices, for what was discovered and
\* what is there when it looks again.
Selected(list, h) == GetFilteredDevices(GetDevices(list, h), Selectors)

\* The same as a table, which TLC computes once.
Selection == [list \in DeviceLists |-> [h \in Hosts |-> Selected(list, h)]]

Pools == {Selected(list, h) : list \in DeviceLists, h \in Hosts}

\* Variant of devicesChanged: only the number of files is compared.
DevicesCounted(old, new) == Len(old) # Len(new)

devicesChanged(old, new) ==
    \/ Len(old) # Len(new)
    \/ \E k \in DOMAIN new : new[k] \notin Range(old)

TypeOK ==
    /\ host \in Hosts
    /\ deviceList \in DeviceLists
    /\ pciDevices \in Pools
    /\ \E pool \in Pools : deviceSpec = getDevicesSpec(pool)
    /\ devs \in Counts
    /\ arg \in Pools
    /\ upd \in {"idle", "select", "lock", "notify"}
    /\ pending \in 0..1
    /\ pc \in [Streams -> {"off", "start", "first", "cdiFirst", "select", "woken",
                           "send", "cdi"}]
    /\ resp \in [Streams -> Counts]
    /\ link \in [Streams -> {"none", "open", "lost", "closed"}]
    /\ wire \in [Streams -> Seq(Counts)]
    /\ \A s \in Streams : Len(wire[s]) <= Room
    /\ view \in Counts

\* newResourceServer, with the devices that InitServers selects some time after
\* DiscoverHostDevices.
Init ==
    /\ host \in Hosts
    /\ deviceList \in DeviceLists
    /\ pciDevices = Selected(deviceList, host)
    /\ arg = pciDevices
    /\ deviceSpec = getDevicesSpec(pciDevices)
    /\ devs = IF deviceSpec = <<>> THEN 0 ELSE HcaMax
    /\ upd = "idle"
    /\ pending = 0
    /\ pc = [s \in Streams |-> "off"]
    /\ resp = [s \in Streams |-> 0]
    /\ link = [s \in Streams |-> "none"]
    /\ wire = [s \in Streams |-> <<>>]
    /\ view = 0

-----------------------------------------------------------------------------
(* rs.mutex.                                                               *)

\* Variant of Readers: sendDevices does not hold the lock during the send.
NoReaders == {}

Readers == {s \in Streams : pc[s] \in {"first", "send"}}

CanRLock == upd # "lock"

-----------------------------------------------------------------------------
(* The host, and the one goroutine of PeriodicUpdate.                      *)

\* A device is plugged in or out, or its driver, its interface or its RDMA
\* devices appear, disappear or get other names.
HostChanges ==
    /\ host' \in Hosts \ {host}
    /\ UNCHANGED <<deviceList, inventory, upd, pending, streams, view>>

\* The ticker fires.  If ghw fails, nothing happens in this round.
Discover ==
    /\ upd = "idle"
    /\ deviceList' = DiscoverHostDevices(host)
    /\ upd' = "select"
    /\ UNCHANGED <<host, inventory, pending, streams, view>>

\* Variant of SelectDevices: the list of an earlier round, which saw the same host,
\* was not cleared.
SelectDevicesAgain ==
    /\ upd = "select"
    /\ arg' = Selected(deviceList \o deviceList, host)
    /\ upd' = "lock"
    /\ UNCHANGED <<discovery, pciDevices, deviceSpec, devs, pending, streams, view>>

SelectDevices ==
    /\ upd = "select"
    /\ arg' = Selection[deviceList][host]
    /\ upd' = "lock"
    /\ UNCHANGED <<discovery, pciDevices, deviceSpec, devs, pending, streams, view>>

\* Variant of NewDevs: the devices are made once and stay.
DevsStay(spec) == IF devs = 0 /\ spec # <<>> THEN HcaMax ELSE devs

\* rs.devs after a change: nothing when there is no file to share, made anew
\* when there was none before.
NewDevs(spec) ==
    CASE spec = <<>> -> 0
      [] spec # <<>> /\ devs = 0 -> HcaMax
      [] OTHER -> devs

\* Variant of needUpdate: the early return for no file comes before it is set.
UpdatesQuietly(spec) == spec # <<>>

needUpdate(spec) == TRUE

\* The critical section.
UpdateDevices ==
    /\ upd = "lock"
    /\ Readers = {}
    /\ LET spec == getDevicesSpec(arg) IN
           IF devicesChanged(deviceSpec, spec)
           THEN /\ deviceSpec' = spec
                /\ devs' = NewDevs(spec)
                /\ upd' = IF needUpdate(spec) THEN "notify" ELSE "idle"
           ELSE /\ upd' = "idle"
                /\ UNCHANGED <<deviceSpec, devs>>
    /\ UNCHANGED <<discovery, pciDevices, arg, pending, streams, view>>

\* Variants of notifyUpdate: the send blocks; the channel has no bound.
NotifyBlocks == pending = 0 /\ pending' = 1

NotifyQueues == pending' = pending + 1

\* A send with a default case on a channel of capacity one.
notifyUpdate == pending' = 1

Notify ==
    /\ upd = "notify"
    /\ notifyUpdate
    /\ upd' = "idle"
    /\ UNCHANGED <<discovery, inventory, streams, view>>

-----------------------------------------------------------------------------
(* ListAndWatch.                                                           *)

Goto(s, l) == pc' = [pc EXCEPT ![s] = l]

\* The handler returns, which ends the call for the kubelet too: what it has not
\* read by then is lost.
Return(s) ==
    /\ Goto(s, "off")
    /\ link' = [link EXCEPT ![s] = "none"]
    /\ wire' = [wire EXCEPT ![s] = <<>>]
    /\ resp' = [resp EXCEPT ![s] = 0]

\* sendDevices: the response gets rs.devs under the lock, which is held until
\* Send returns.
BeginSend(s, from, to) ==
    /\ pc[s] = from
    /\ CanRLock
    /\ Goto(s, to)
    /\ resp' = [resp EXCEPT ![s] = devs]
    /\ UNCHANGED <<discovery, inventory, upd, pending, link, wire, view>>

\* Send returns when the transport has taken the list, on a lost connection too,
\* and the lock is released.  The response is filled anew before the next one, so
\* resp is reset.
EndSend(s, from, to) ==
    /\ pc[s] = from
    /\ link[s] # "closed"
    /\ Len(wire[s]) < Room
    /\ Goto(s, to)
    /\ wire' = [wire EXCEPT ![s] = Append(@, resp[s])]
    /\ resp' = [resp EXCEPT ![s] = 0]
    /\ UNCHANGED <<discovery, inventory, upd, pending, link, view>>

FirstSendFails(s) ==
    /\ pc[s] = "first"
    /\ link[s] = "closed"
    /\ Return(s)
    /\ UNCHANGED <<discovery, inventory, upd, pending, view>>

\* Variant of SendFails: the notification that woke the stream is dropped.
SendFailsQuietly(s) ==
    /\ pc[s] = "send"
    /\ link[s] = "closed"
    /\ Return(s)
    /\ UNCHANGED <<discovery, inventory, upd, pending, view>>

\* The notification is passed on to the stream that replaces this one.
SendFails(s) ==
    /\ pc[s] = "send"
    /\ link[s] = "closed"
    /\ notifyUpdate
    /\ Return(s)
    /\ UNCHANGED <<discovery, inventory, upd, view>>

\* updateCDISpec writes the file for pciDevices; the first call holds the lock.
UpdateCDISpec(s) ==
    /\ \/ pc[s] = "cdiFirst" /\ CanRLock
       \/ pc[s] = "cdi"
    /\ \/ /\ Goto(s, "select")
          /\ UNCHANGED <<resp, link, wire>>
       \/ /\ UseCdi /\ CdiFails
          /\ Return(s)
    /\ UNCHANGED <<discovery, inventory, upd, pending, view>>

\* When both cases of the select are ready, either is taken.
TakeUpdate(s) ==
    /\ pc[s] = "select"
    /\ pending = 1
    /\ pending' = 0
    /\ Goto(s, "woken")
    /\ UNCHANGED <<discovery, inventory, upd, resp, link, wire, view>>

ContextDone(s) ==
    /\ pc[s] = "select"
    /\ link[s] = "closed"
    /\ Return(s)
    /\ UNCHANGED <<discovery, inventory, upd, pending, view>>

-----------------------------------------------------------------------------
(* The kubelet, and the grpc server when it is stopped.                    *)

\* The kubelet has one stream for a resource.
Connect(s) ==
    /\ pc[s] = "off"
    /\ \A t \in Streams : link[t] # "open"
    /\ link' = [link EXCEPT ![s] = "open"]
    /\ Goto(s, "start")
    /\ UNCHANGED <<discovery, inventory, upd, pending, resp, wire, view>>

\* The kubelet reads the next list.  Nothing says when it does.
Receive(s) ==
    /\ link[s] = "open"
    /\ wire[s] # <<>>
    /\ view' = Head(wire[s])
    /\ wire' = [wire EXCEPT ![s] = Tail(@)]
    /\ UNCHANGED <<discovery, inventory, upd, pending, pc, resp, link>>

\* A connection ends, or breaks before the stream knows.  What is on its way is
\* dropped in the end.
Close(s) ==
    /\ link[s] \in {"open", "lost"}
    /\ link' = [link EXCEPT ![s] = "closed"]
    /\ wire' = [wire EXCEPT ![s] = <<>>]

Lose(s) ==
    /\ Orphans
    /\ link[s] = "open"
    /\ link' = [link EXCEPT ![s] = "lost"]
    /\ UNCHANGED wire

Disconnect(s) ==
    /\ Close(s) \/ Lose(s)
    /\ UNCHANGED <<discovery, inventory, upd, pending, pc, resp, view>>

-----------------------------------------------------------------------------

PeriodicUpdate == Discover \/ SelectDevices \/ UpdateDevices \/ Notify

Stream(s) ==
    \/ BeginSend(s, "start", "first")
    \/ EndSend(s, "first", "cdiFirst")
    \/ FirstSendFails(s)
    \/ BeginSend(s, "woken", "send")
    \/ EndSend(s, "send", "cdi")
    \/ SendFails(s)
    \/ UpdateCDISpec(s)
    \/ TakeUpdate(s)
    \/ ContextDone(s)

Next ==
    \/ HostChanges
    \/ PeriodicUpdate
    \/ \E s \in Streams : Stream(s) \/ Connect(s) \/ Receive(s) \/ Disconnect(s)

Spec == Init /\ [][Next]_vars

\* Goroutines run, Send returns where the transport has room, and RWMutex keeps
\* neither a reader nor a writer waiting forever.  Nothing is assumed of the host
\* and of the kubelet, which need not read and need not close a connection.
Fairness ==
    /\ WF_vars(PeriodicUpdate)
    /\ \A s \in Streams : SF_vars(Stream(s))

FairSpec == Spec /\ Fairness

-----------------------------------------------------------------------------

\* UpdateDevices offers rdmaHcaMax devices exactly while there is a file to
\* share, whatever sequence of pools discovery goes through.
DevsMatchSpec == devs = IF deviceSpec = <<>> THEN 0 ELSE HcaMax

\* The answer of Allocate, and when it has one: CreateContainerAnnotations returns
\* an error for a pool without devices.
AllocatedPaths == Range(IF UseCdi THEN getDevicesSpec(pciDevices) ELSE deviceSpec)

Allocates == UseCdi => pciDevices # <<>>

\* A pool holds a PCI device once, however often discovery has run.  Files that
\* devices share are listed for each of them.
SelectsOnce ==
    \A k, l \in DOMAIN arg : GetPciAddr(arg[k]) = GetPciAddr(arg[l]) => k = l

\* Once UpdateDevices has its lock, a container gets the files of the devices
\* that discovery selected last: devicesChanged misses no change.
AllocatesLatest ==
    upd # "lock" /\ Allocates => AllocatedPaths = Range(getDevicesSpec(arg))

\* What is on offer follows the documented rule for the host as it is, once a
\* round of discovery has seen the host like that both times it looked.
OfferFollowsRule ==
    upd # "lock" /\ arg = Selection[DiscoverHostDevices(host)][host] =>
        Range(deviceSpec) = FilesOf(host, Selectors)

\* The list that the kubelet has when it has read what s sent.
Reported(s) == IF wire[s] = <<>> THEN view ELSE Last(wire[s])

\* A stream that reported an older list is told: the notification is in the
\* channel, about to be put there, or in the hands of a stream that will send
\* the list or put it back.
NoLostUpdate ==
    \A s \in Streams :
        link[s] = "open" /\ pc[s] \in {"cdiFirst", "select", "cdi"} /\ Reported(s) # devs =>
            \/ pending = 1
            \/ upd = "notify"
            \/ \E t \in Streams : pc[t] \in {"woken", "send"}

\* The lists on their way to the kubelet.
Transit ==
    IF \E s \in Streams : link[s] = "open"
    THEN wire[CHOOSE s \in Streams : link[s] = "open"]
    ELSE <<>>

\* The list that sendDevices hands to the transport is the one on offer when it
\* does, because the lock is held until Send returns, and the kubelet reads the
\* lists in this order.
View == INSTANCE InventoryView
            WITH Lists <- Counts, offered <- devs, transit <- Transit, seen <- view
ViewIsCurrent == View!Spec

\* A stream that holds the lock until the kubelet reads or the connection ends.
SendWaits(s) ==
    pc[s] \in {"first", "send"} /\ link[s] # "closed" /\ Len(wire[s]) = Room

\* The only thing that can stop discovery for good is a kubelet that keeps a
\* connection and reads nothing from it: UpdateDevices waits for the readers of
\* rs.mutex, and neither for a stream to take the notification nor for a kubelet
\* to connect.
DiscoveryWaitsOnlyForReaders ==
    []<>(upd = "idle") \/ <>[](\E s \in Streams : SendWaits(s))

\* Once the host stays as it is and discovery goes on, the files on offer become
\* and stay those of the devices that the documented rule selects, whatever
\* discovery saw before and although it looks at the host twice in a round.
OfferConverges ==
    \A h \in Hosts :
        []<>(upd = "idle") /\ <>[](host = h) =>
            <>[](Range(deviceSpec) = FilesOf(h, Selectors))

\* A kubelet that stays connected and reads learns whether there is anything to
\* share on a host that stays as it is.
ViewConverges ==
    \A s \in Streams, h \in Hosts :
        []<>(wire[s] = <<>>) /\ <>[](host = h /\ link[s] = "open") =>
            <>[](view = IF FilesOf(h, Selectors) = {} THEN 0 ELSE HcaMax)

==============================================================================
