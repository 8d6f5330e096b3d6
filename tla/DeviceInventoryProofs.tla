------------------------ MODULE DeviceInventoryProofs ------------------------
(***************************************************************************)
(* Proofs about DeviceInventory, for any hosts, selectors and streams.     *)
(***************************************************************************)
EXTENDS DeviceInventory, DeviceSelectionProofs, SequenceTheorems

\* What the table of the selections says.
LEMMA SelectionIs ==
    ASSUME NEW list \in DeviceLists, NEW h \in Hosts
    PROVE  Selection[list][h] = Selected(list, h)
BY DEF Selection

-----------------------------------------------------------------------------
(* Types and the length of the offered list.                               *)

\* What the other proofs need of the types; the inventory has the shape that
\* UpdateDevices gives it.
InventoryInv ==
    /\ TypeOK
    /\ DevsMatchSpec

\* newResourceServer establishes it.
LEMMA InitInventory == Init => InventoryInv
<1> SUFFICES ASSUME Init PROVE InventoryInv
  OBVIOUS
<1>1. pciDevices \in Pools /\ arg \in Pools
  BY DEF Init, Pools
<1> QED BY <1>1, HcaMaxAssumption, RoomAssumption
    DEF Init, InventoryInv, TypeOK, DevsMatchSpec, Counts

\* When a connection ends, the other lists on their way stay as they are.
LEMMA EmptyWire ==
    ASSUME TypeOK, NEW s \in Streams, wire' = [wire EXCEPT ![s] = <<>>]
    PROVE  /\ wire' \in [Streams -> Seq(Counts)]
           /\ \A t \in Streams : Len(wire'[t]) <= Room
<1>1. <<>> \in Seq(Counts) /\ Len(<<>>) <= Room
  BY RoomAssumption
<1>2. wire \in [Streams -> Seq(Counts)] /\ \A t \in Streams : Len(wire[t]) <= Room
  BY DEF TypeOK
<1> QED BY <1>1, <1>2

\* A step of a stream touches neither the inventory nor the discovery.
LEMMA StreamInventory ==
    ASSUME InventoryInv, NEW s \in Streams, Stream(s)
    PROVE  InventoryInv'
<1> USE DEF InventoryInv, TypeOK, DevsMatchSpec, Goto, discovery, inventory, Counts
<1>1. ASSUME NEW from \in {"start", "woken"}, NEW to \in {"first", "send"},
             BeginSend(s, from, to)
      PROVE  InventoryInv'
  BY <1>1 DEF BeginSend
<1>2. ASSUME NEW from \in {"first", "send"}, NEW to \in {"cdiFirst", "cdi"},
             EndSend(s, from, to)
      PROVE  InventoryInv'
  <2>1. wire' = [wire EXCEPT ![s] = Append(wire[s], resp[s])] /\ Len(wire[s]) < Room
    BY <1>2 DEF EndSend
  <2>2. wire[s] \in Seq(Counts) /\ resp[s] \in Counts
    OBVIOUS
  <2>3. Append(wire[s], resp[s]) \in Seq(Counts)
        /\ Len(Append(wire[s], resp[s])) = Len(wire[s]) + 1 /\ Len(wire[s]) \in Nat
    BY <2>2
  <2>4. /\ wire' \in [Streams -> Seq(Counts)]
        /\ \A t \in Streams : Len(wire'[t]) <= Room
    BY <2>1, <2>3, RoomAssumption
  <2> QED BY <1>2, <2>4 DEF EndSend
<1>3. CASE FirstSendFails(s)
  BY <1>3, EmptyWire DEF FirstSendFails, Return
<1>4. CASE SendFails(s)
  <2>1. /\ wire' \in [Streams -> Seq(Counts)]
        /\ \A t \in Streams : Len(wire'[t]) <= Room
    BY <1>4, EmptyWire DEF SendFails, Return
  <2> QED BY <1>4, <2>1 DEF SendFails, Return, notifyUpdate
<1>5. CASE UpdateCDISpec(s)
  BY <1>5, EmptyWire DEF UpdateCDISpec, Return
<1>6. CASE TakeUpdate(s)
  BY <1>6 DEF TakeUpdate
<1>7. CASE ContextDone(s)
  BY <1>7, EmptyWire DEF ContextDone, Return
<1> QED BY <1>1, <1>2, <1>3, <1>4, <1>5, <1>6, <1>7 DEF Stream

\* Neither does the kubelet.
LEMMA KubeletInventory ==
    ASSUME InventoryInv, NEW s \in Streams, Connect(s) \/ Receive(s) \/ Disconnect(s)
    PROVE  InventoryInv'
<1> USE DEF InventoryInv, TypeOK, DevsMatchSpec, Goto, discovery, inventory
<1>1. CASE Connect(s)
  BY <1>1 DEF Connect
<1>2. CASE Receive(s)
  <2>1. /\ Head(wire[s]) \in Counts /\ Tail(wire[s]) \in Seq(Counts)
        /\ Len(Tail(wire[s])) = Len(wire[s]) - 1 /\ Len(wire[s]) \in Nat
    BY <1>2 DEF Receive
  <2>2. /\ wire' \in [Streams -> Seq(Counts)]
        /\ \A t \in Streams : Len(wire'[t]) <= Room
    BY <1>2, <2>1, RoomAssumption DEF Receive
  <2> QED BY <1>2, <2>1, <2>2 DEF Receive
<1>3. CASE Disconnect(s)
  <2>1. CASE Close(s)
    BY <1>3, <2>1, EmptyWire DEF Disconnect, Close
  <2>2. CASE Lose(s)
    BY <1>3, <2>2 DEF Disconnect, Lose
  <2> QED BY <1>3, <2>1, <2>2 DEF Disconnect
<1> QED BY <1>1, <1>2, <1>3

\* Every step keeps it.
LEMMA NextInventory == InventoryInv /\ [Next]_vars => InventoryInv'
<1> SUFFICES ASSUME InventoryInv, [Next]_vars PROVE InventoryInv'
  OBVIOUS
<1> USE DEF InventoryInv, TypeOK, DevsMatchSpec, discovery
<1>1. CASE HostChanges
  BY <1>1 DEF HostChanges, inventory, streams
<1>2. CASE Discover
  <2>1. deviceList' \in DeviceLists
    BY <1>2 DEF Discover, DeviceLists
  <2> QED BY <1>2, <2>1 DEF Discover, inventory, streams
<1>3. CASE SelectDevices
  <2>1. arg' \in Pools
    BY <1>3, SelectionIs DEF SelectDevices, Pools
  <2> QED BY <1>3, <2>1 DEF SelectDevices, streams
<1>4. CASE UpdateDevices
  <2> DEFINE spec == getDevicesSpec(arg)
  <2>1. CASE devicesChanged(deviceSpec, spec)
    <3>1. deviceSpec' = spec /\ devs' = NewDevs(spec) /\ upd' \in {"notify", "idle"}
      BY <1>4, <2>1 DEF UpdateDevices
    <3>2. NewDevs(spec) = IF spec = <<>> THEN 0 ELSE HcaMax
      BY DEF NewDevs
    <3> QED BY <1>4, <3>1, <3>2 DEF UpdateDevices, streams, Counts
  <2>2. CASE ~devicesChanged(deviceSpec, spec)
    BY <1>4, <2>2 DEF UpdateDevices, streams
  <2> QED BY <2>1, <2>2
<1>5. CASE Notify
  BY <1>5 DEF Notify, notifyUpdate, inventory, streams
<1>6. ASSUME NEW s \in Streams,
             Stream(s) \/ Connect(s) \/ Receive(s) \/ Disconnect(s)
      PROVE  InventoryInv'
  BY <1>6, StreamInventory, KubeletInventory
<1>7. CASE UNCHANGED vars
  BY <1>7 DEF vars, inventory, streams
<1> QED BY <1>1, <1>2, <1>3, <1>4, <1>5, <1>6, <1>7 DEF Next, PeriodicUpdate

\* UpdateDevices and the streams: the inventory is always one that some pool of
\* discovery gives, and at most one notification is pending.
THEOREM InventoryTypes == Spec => []TypeOK
<1>1. InventoryInv => TypeOK
  BY DEF InventoryInv
<1> QED BY <1>1, InitInventory, NextInventory, PTL DEF Spec

\* UpdateDevices: the number of devices on offer is rdmaHcaMax exactly while
\* there is a file to share.
THEOREM OfferMatchesSpec == Spec => []DevsMatchSpec
<1>1. InventoryInv => DevsMatchSpec
  BY DEF InventoryInv
<1> QED BY <1>1, InitInventory, NextInventory, PTL DEF Spec

-----------------------------------------------------------------------------
(* The lock: a response that is about to be sent is current.               *)

\* sendDevices holds rs.mutex from the assignment of resp.Devices until Send
\* returns, so the list that the transport takes is the list on offer.
RespIsCurrent == \A s \in Streams : pc[s] \in {"first", "send"} => resp[s] = devs

\* A stream exists exactly as long as its call, and sends nothing without it.
CallIsOpen ==
    \A s \in Streams :
        /\ pc[s] = "off" <=> link[s] = "none"
        /\ link[s] = "none" => wire[s] = <<>>

\* The kubelet has one stream for a resource.
OneOpen == \A s, t \in Streams : link[s] = "open" /\ link[t] = "open" => s = t

ViewInv == InventoryInv /\ RespIsCurrent /\ CallIsOpen /\ OneOpen

\* Nothing is sent at first.
LEMMA InitView == Init => ViewInv
BY InitInventory DEF Init, ViewInv, RespIsCurrent, CallIsOpen, OneOpen

\* Every step keeps the responses current: the writer waits for the readers.
LEMMA NextView == ViewInv /\ [Next]_vars => ViewInv'
<1> SUFFICES ASSUME ViewInv, [Next]_vars PROVE ViewInv'
  OBVIOUS
<1> USE DEF ViewInv, RespIsCurrent, CallIsOpen, OneOpen, Goto
<1>0. /\ InventoryInv'
      /\ pc \in [Streams -> {"off", "start", "first", "cdiFirst", "select", "woken",
                             "send", "cdi"}]
      /\ resp \in [Streams -> Counts]
      /\ link \in [Streams -> {"none", "open", "lost", "closed"}]
      /\ wire \in [Streams -> Seq(Counts)]
  BY NextInventory DEF InventoryInv, TypeOK
<1>1. ASSUME NEW s \in Streams, Stream(s) PROVE ViewInv'
  <2>1. CASE BeginSend(s, "start", "first") \/ BeginSend(s, "woken", "send")
    BY <1>0, <2>1 DEF BeginSend, inventory
  <2>2. CASE EndSend(s, "first", "cdiFirst") \/ EndSend(s, "send", "cdi")
    BY <1>0, <2>2 DEF EndSend, inventory
  <2>3. CASE FirstSendFails(s) \/ SendFails(s)
    BY <1>0, <2>3 DEF FirstSendFails, SendFails, Return, inventory
  <2>4. CASE UpdateCDISpec(s)
    BY <1>0, <2>4 DEF UpdateCDISpec, Return, inventory
  <2>5. CASE TakeUpdate(s)
    BY <1>0, <2>5 DEF TakeUpdate, inventory
  <2>6. CASE ContextDone(s)
    BY <1>0, <2>6 DEF ContextDone, Return, inventory
  <2> QED BY <1>1, <2>1, <2>2, <2>3, <2>4, <2>5, <2>6 DEF Stream
<1>2. CASE UpdateDevices
  BY <1>0, <1>2 DEF UpdateDevices, Readers, streams
<1>3. CASE Notify \/ HostChanges \/ Discover \/ SelectDevices
  BY <1>0, <1>3 DEF Notify, HostChanges, Discover, SelectDevices, inventory, streams
<1>4. ASSUME NEW s \in Streams, Connect(s) PROVE ViewInv'
  BY <1>0, <1>4 DEF Connect, inventory
<1>5. ASSUME NEW s \in Streams, Receive(s) PROVE ViewInv'
  BY <1>0, <1>5 DEF Receive, inventory
<1>6. ASSUME NEW s \in Streams, Disconnect(s) PROVE ViewInv'
  BY <1>0, <1>6 DEF Disconnect, Close, Lose, inventory
<1>7. CASE UNCHANGED vars
  BY <1>0, <1>7 DEF vars, inventory, streams
<1> QED BY <1>1, <1>2, <1>3, <1>4, <1>5, <1>6, <1>7 DEF Next, PeriodicUpdate

-----------------------------------------------------------------------------
(* The refinement.                                                         *)

\* The lists on their way are those of the open connection, if there is one.
LEMMA TransitIs ==
    ASSUME OneOpen
    PROVE  /\ \A s \in Streams : link[s] = "open" => Transit = wire[s]
           /\ (\A s \in Streams : link[s] # "open") => Transit = <<>>
BY DEF OneOpen, Transit

\* The same after a step.
LEMMA TransitIsNext ==
    ASSUME OneOpen'
    PROVE  /\ \A s \in Streams : link'[s] = "open" => Transit' = wire'[s]
           /\ (\A s \in Streams : link'[s] # "open") => Transit' = <<>>
BY DEF OneOpen, Transit

\* A step that leaves connections and what they carry alone keeps them.
LEMMA TransitStays ==
    ASSUME OneOpen, OneOpen',
           \A s \in Streams : link'[s] = link[s] /\ (link[s] = "open" => wire'[s] = wire[s])
    PROVE  Transit' = Transit
BY TransitIs, TransitIsNext

\* The end of a connection loses them if it was the open one.
LEMMA TransitStaysOrBreaks ==
    ASSUME OneOpen, OneOpen', NEW s \in Streams, link'[s] # "open",
           \A t \in Streams \ {s} : link'[t] = link[t] /\ wire'[t] = wire[t]
    PROVE  Transit' = Transit \/ Transit' = <<>>
<1>1. CASE \E t \in Streams \ {s} : link[t] = "open"
  BY <1>1, TransitIs, TransitIsNext
<1>2. CASE \A t \in Streams \ {s} : link[t] # "open"
  BY <1>2, TransitIsNext
<1> QED BY <1>1, <1>2

\* A step of the inventory is a step of InventoryView or leaves it alone.
LEMMA StepRefines ==
    ASSUME ViewInv, ViewInv', [Next]_vars
    PROVE  [View!Next]_<<devs, Transit, view>>
<1> USE DEF View!Next, View!Offer, View!Send, View!Receive, View!Break
<1>0. /\ OneOpen /\ OneOpen'
      /\ link \in [Streams -> {"none", "open", "lost", "closed"}]
      /\ wire \in [Streams -> Seq(Counts)]
      /\ devs' \in Counts
  BY DEF ViewInv, InventoryInv, TypeOK
<1>1. ASSUME NEW s \in Streams, Stream(s) PROVE [View!Next]_<<devs, Transit, view>>
  <2>1. CASE EndSend(s, "first", "cdiFirst") \/ EndSend(s, "send", "cdi")
    <3>1. /\ wire' = [wire EXCEPT ![s] = Append(wire[s], devs)]
          /\ UNCHANGED <<link, devs, view>>
      BY <2>1 DEF EndSend, ViewInv, RespIsCurrent, inventory
    <3>2. CASE link[s] = "open"
      <4>1. Transit' = Append(Transit, devs)
        BY <1>0, <3>1, <3>2, TransitIs, TransitIsNext
      <4> QED BY <3>1, <4>1
    <3>3. CASE link[s] # "open"
      <4>1. Transit' = Transit
        BY <1>0, <3>1, <3>3, TransitStays
      <4> QED BY <3>1, <4>1
    <3> QED BY <3>2, <3>3
  <2>2. CASE UNCHANGED <<devs, link, wire, view>>
    <3>1. Transit' = Transit
      BY <1>0, <2>2, TransitStays
    <3> QED BY <2>2, <3>1
  <2>3. CASE Return(s) /\ UNCHANGED <<devs, view>>
    <3>1. Transit' = Transit \/ Transit' = <<>>
      BY <1>0, <2>3, TransitStaysOrBreaks DEF Return
    <3> QED BY <2>3, <3>1
  <2> QED BY <1>1, <2>1, <2>2, <2>3
      DEF Stream, BeginSend, FirstSendFails, SendFails, UpdateCDISpec, TakeUpdate,
          ContextDone, inventory
<1>2. CASE UpdateDevices \/ Notify \/ HostChanges \/ Discover \/ SelectDevices
  <2>1. UNCHANGED <<link, wire, view>>
    BY <1>2 DEF UpdateDevices, Notify, HostChanges, Discover, SelectDevices, streams
  <2>2. Transit' = Transit
    BY <1>0, <2>1, TransitStays
  <2> QED BY <1>0, <2>1, <2>2
<1>3. ASSUME NEW s \in Streams, Connect(s) PROVE [View!Next]_<<devs, Transit, view>>
  <2>1. /\ link'[s] = "open" /\ wire' = wire /\ wire[s] = <<>>
        /\ \A t \in Streams : link[t] # "open"
        /\ UNCHANGED <<devs, view>>
    BY <1>0, <1>3 DEF Connect, ViewInv, CallIsOpen, inventory
  <2>2. Transit' = Transit
    BY <1>0, <2>1, TransitIs, TransitIsNext
  <2> QED BY <2>1, <2>2
<1>4. ASSUME NEW s \in Streams, Receive(s) PROVE [View!Next]_<<devs, Transit, view>>
  <2>1. /\ link[s] = "open" /\ link' = link /\ wire[s] # <<>>
        /\ view' = Head(wire[s]) /\ wire'[s] = Tail(wire[s]) /\ devs' = devs
    BY <1>0, <1>4 DEF Receive, inventory
  <2>2. Transit = wire[s] /\ Transit' = wire'[s]
    BY <1>0, <2>1, TransitIs, TransitIsNext
  <2> QED BY <2>1, <2>2
<1>5. ASSUME NEW s \in Streams, Disconnect(s) PROVE [View!Next]_<<devs, Transit, view>>
  <2>1. /\ link'[s] # "open" /\ UNCHANGED <<devs, view>>
        /\ \A t \in Streams \ {s} : link'[t] = link[t] /\ wire'[t] = wire[t]
    BY <1>0, <1>5 DEF Disconnect, Close, Lose, inventory
  <2>2. Transit' = Transit \/ Transit' = <<>>
    BY <1>0, <2>1, TransitStaysOrBreaks
  <2> QED BY <2>1, <2>2
<1>6. CASE UNCHANGED vars
  <2>1. UNCHANGED <<devs, link, wire, view>>
    BY <1>6 DEF vars, inventory, streams
  <2>2. Transit' = Transit
    BY <1>0, <2>1, TransitStays
  <2> QED BY <2>1, <2>2
<1> QED BY <1>1, <1>2, <1>3, <1>4, <1>5, <1>6 DEF Next, PeriodicUpdate

\* DeviceInventory implements InventoryView: a list is on offer when sendDevices
\* hands it to the transport, and the kubelet reads the lists in that order.
THEOREM InventoryRefinesView == Spec => ViewIsCurrent
<1>1. Init => View!Init
  <2> SUFFICES ASSUME Init PROVE View!Init
    OBVIOUS
  <2>1. OneOpen /\ \A s \in Streams : link[s] # "open"
    BY DEF Init, OneOpen
  <2>2. Transit = <<>>
    BY <2>1, TransitIs
  <2>3. devs \in Counts /\ view \in Counts
    BY InitInventory DEF InventoryInv, TypeOK
  <2> QED BY <2>2, <2>3 DEF View!Init
<1>2. ViewInv /\ ViewInv' /\ [Next]_vars => [View!Next]_<<devs, Transit, view>>
  BY StepRefines
<1> QED BY <1>1, <1>2, InitView, NextView, PTL DEF Spec, View!Spec, View!vars, ViewIsCurrent

-----------------------------------------------------------------------------
(* No update is lost.                                                      *)

\* Where a stream learns of the end of its connection at once.
UpdateInv ==
    /\ ViewInv
    /\ \A s \in Streams : link[s] # "lost"
    /\ NoLostUpdate

\* No stream is open at first.
LEMMA InitUpdate == Init => UpdateInv
BY InitView DEF Init, UpdateInv, NoLostUpdate

\* Every step hands the duty to report a change on to somebody: discovery to the
\* channel, the channel to a stream, a stream that fails back to the channel.
LEMMA NextUpdate ==
    ASSUME ~Orphans, UpdateInv, [Next]_vars
    PROVE  UpdateInv'
<1> USE DEF UpdateInv, InventoryInv, TypeOK, NoLostUpdate, Goto
<1>0. ViewInv' /\ InventoryInv
  BY NextView DEF ViewInv
<1>1. ASSUME NEW s \in Streams, Stream(s) PROVE UpdateInv'
  <2>1. CASE BeginSend(s, "start", "first") \/ BeginSend(s, "woken", "send")
    BY <1>0, <2>1 DEF Reported, BeginSend, inventory
  <2>2. CASE EndSend(s, "first", "cdiFirst") \/ EndSend(s, "send", "cdi")
    <3>1. link[s] = "open"
      BY <1>0, <2>2 DEF EndSend, ViewInv, CallIsOpen
    <3>2. wire'[s] = Append(wire[s], resp[s]) /\ resp[s] = devs /\ devs' = devs
      BY <2>2 DEF EndSend, ViewInv, RespIsCurrent, inventory
    <3>3. wire[s] \in Seq(Counts) /\ resp[s] \in Counts
      BY <1>0
    <3>4. Reported(s)' = devs'
      BY <3>2, <3>3 DEF Reported, Last
    <3> QED BY <1>0, <2>2, <3>1, <3>4 DEF EndSend, ViewInv, OneOpen
  <2>3. CASE FirstSendFails(s)
    BY <1>0, <2>3 DEF Reported, FirstSendFails, Return, inventory
  <2>4. CASE SendFails(s)
    BY <1>0, <2>4 DEF Reported, SendFails, Return, notifyUpdate
  <2>5. CASE UpdateCDISpec(s)
    BY <1>0, <2>5 DEF Reported, UpdateCDISpec, Return, inventory
  <2>6. CASE TakeUpdate(s)
    BY <1>0, <2>6 DEF Reported, TakeUpdate
  <2>7. CASE ContextDone(s)
    BY <1>0, <2>7 DEF Reported, ContextDone, Return, inventory
  <2> QED BY <1>1, <2>1, <2>2, <2>3, <2>4, <2>5, <2>6, <2>7 DEF Stream
<1>2. CASE UpdateDevices
  BY <1>0, <1>2 DEF Reported, UpdateDevices, needUpdate, streams
<1>3. CASE Notify
  BY <1>0, <1>3 DEF Reported, Notify, notifyUpdate, streams
<1>4. CASE HostChanges \/ Discover \/ SelectDevices
  BY <1>0, <1>4 DEF Reported, HostChanges, Discover, SelectDevices, inventory, streams
<1>5. ASSUME NEW s \in Streams, Connect(s) PROVE UpdateInv'
  BY <1>0, <1>5 DEF Reported, Connect, inventory
<1>6. ASSUME NEW s \in Streams, Receive(s) PROVE UpdateInv'
  <2>1. /\ link[s] = "open" /\ link' = link /\ wire[s] # <<>>
        /\ view' = Head(wire[s]) /\ wire'[s] = Tail(wire[s])
    BY <1>0, <1>6 DEF Receive
  <2>2. wire[s] \in Seq(Counts)
    BY <1>0
  <2>3. Reported(s)' = Reported(s)
    <3>0. /\ Len(wire[s]) \in Nat \ {0} /\ Head(wire[s]) = wire[s][1]
          /\ Len(Tail(wire[s])) = Len(wire[s]) - 1
          /\ \A k \in 1..Len(Tail(wire[s])) : Tail(wire[s])[k] = wire[s][k + 1]
          /\ Tail(wire[s]) = <<>> <=> Len(Tail(wire[s])) = 0
      <4>1. Tail(wire[s]) \in Seq(Counts)
        BY <2>1, <2>2, HeadTailProperties
      <4>2. Tail(wire[s]) = <<>> <=> Len(Tail(wire[s])) = 0
        BY <4>1, EmptySeq
      <4>3. Head(wire[s]) = wire[s][1]
        BY <2>1, <2>2
      <4> QED BY <2>1, <2>2, <4>2, <4>3, HeadTailProperties, EmptySeq
    <3>1. CASE Len(wire[s]) = 1
      BY <2>1, <3>0, <3>1 DEF Reported, Last
    <3>2. CASE Len(wire[s]) # 1
      <4>1. Tail(wire[s])[Len(wire[s]) - 1] = wire[s][Len(wire[s])]
        BY <3>0, <3>2
      <4> QED BY <2>1, <3>0, <3>2, <4>1 DEF Reported, Last
    <3> QED BY <3>1, <3>2
  <2> QED BY <1>0, <1>6, <2>1, <2>3 DEF Receive, ViewInv, OneOpen, inventory
<1>7. ASSUME NEW s \in Streams, Disconnect(s) PROVE UpdateInv'
  BY <1>0, <1>7 DEF Disconnect, Close, Lose, Reported, inventory
<1>8. CASE UNCHANGED vars
  BY <1>0, <1>8 DEF vars, Reported, inventory, streams
<1> QED BY <1>1, <1>2, <1>3, <1>4, <1>5, <1>6, <1>7, <1>8 DEF Next, PeriodicUpdate

\* One pending notification is enough for any number of streams, where no
\* stream outlives its connection unnoticed.
THEOREM UpdatesAreReported ==
    ASSUME ~Orphans
    PROVE  Spec => []NoLostUpdate
<1>1. UpdateInv => NoLostUpdate
  BY DEF UpdateInv
<1> QED BY <1>1, InitUpdate, NextUpdate, PTL DEF Spec

-----------------------------------------------------------------------------
(* What is offered is what was selected.                                   *)

\* devicesChanged compares lengths and looks up the new files among the old ones.
\* For the files of two pools this tells whether they are the same: a device that
\* goes takes its uverbs file with it, and a repeated rdma_cm cannot make up for it
\* because each rdma_cm comes with a uverbs file of its own.
LEMMA NoChangeMissed ==
    ASSUME NEW old, NEW new, RegularFiles(old), RegularFiles(new),
           ~devicesChanged(old, new)
    PROVE  Range(old) = Range(new)
<1> DEFINE Files(files, K) == {files[k] : k \in K}
           cm(files) == OfKind(files, "rdma_cm")
           uverbs(files) == OfKind(files, "uverbs")
<1>1. Len(old) = Len(new) /\ \A k \in DOMAIN new : new[k] \in Range(old)
  BY DEF devicesChanged
<1>2. Files(new, uverbs(new)) \subseteq Files(old, uverbs(old))
  BY <1>1 DEF OfKind, Range
<1>3. Files(new, Single(new)) \subseteq Files(old, Single(old))
  BY <1>1 DEF Single, Range
<1>4. ASSUME NEW files, RegularFiles(files)
      PROVE  /\ IsFiniteSet(Files(files, uverbs(files)))
             /\ Cardinality(Files(files, uverbs(files))) = Cardinality(cm(files))
             /\ IsFiniteSet(Files(files, Single(files)))
             /\ Cardinality(Files(files, Single(files))) = Len(files) - Cardinality(cm(files))
             /\ IsFiniteSet(cm(files)) /\ Cardinality(cm(files)) \in Nat
             /\ Len(files) \in Nat
             /\ Range(files) = Files(files, Single(files))
                    \cup IF Cardinality(cm(files)) = 0 THEN {} ELSE {RdmaCm}
  <2>1. /\ files \in Seq(STRING \X Nat) /\ Cardinality(cm(files)) = Cardinality(uverbs(files))
        /\ \A k \in cm(files) : files[k] = RdmaCm
    BY <1>4 DEF RegularFiles
  <2>2. uverbs(files) \subseteq Single(files)
    BY DEF OfKind, Single
  <2>3. /\ IsFiniteSet(Files(files, uverbs(files)))
        /\ Cardinality(Files(files, uverbs(files))) = Cardinality(uverbs(files))
    BY <1>4, <2>2, FilesAt
  <2>4. /\ IsFiniteSet(Files(files, Single(files)))
        /\ Cardinality(Files(files, Single(files))) = Cardinality(Single(files))
    BY <1>4, FilesAt
  <2>5. Cardinality(Single(files)) = Len(files) - Cardinality(cm(files))
    BY <1>4, SingleFiles
  <2>6. IsFiniteSet(cm(files)) /\ Cardinality(cm(files)) \in Nat
    BY <2>1, OfKindFinite
  <2>7. Cardinality(cm(files)) = 0 <=> cm(files) = {}
    BY <2>6, FS_EmptySet
  <2>8. Range(files) = Files(files, Single(files)) \cup Files(files, cm(files))
    BY DEF Range, Single, OfKind
  <2>9. Files(files, cm(files)) = IF cm(files) = {} THEN {} ELSE {RdmaCm}
    BY <2>1
  <2>10. Len(files) \in Nat
    BY <2>1
  <2> HIDE DEF Files, cm, uverbs
  <2> QED BY <2>1, <2>3, <2>4, <2>5, <2>6, <2>7, <2>8, <2>9, <2>10
<1> HIDE DEF Files, cm, uverbs
<1>5. Cardinality(Files(new, uverbs(new))) <= Cardinality(Files(old, uverbs(old)))
  <2>1. IsFiniteSet(Files(old, uverbs(old)))
    BY <1>4
  <2> QED BY <1>2, <2>1, FS_Subset
<1>6. /\ Cardinality(Files(new, Single(new))) <= Cardinality(Files(old, Single(old)))
      /\ Cardinality(Files(old, Single(old))) = Cardinality(Files(new, Single(new)))
             => Files(old, Single(old)) = Files(new, Single(new))
  <2>1. IsFiniteSet(Files(old, Single(old)))
    BY <1>4
  <2> QED BY <1>3, <2>1, FS_Subset
<1>7. Cardinality(cm(new)) = Cardinality(cm(old))
  BY <1>1, <1>4, <1>5, <1>6
<1>8. Files(new, Single(new)) = Files(old, Single(old))
  BY <1>1, <1>4, <1>6, <1>7
<1> QED BY <1>4, <1>7, <1>8

\* Every pool of discovery is one of devices of a host, each at its own address.
LEMMA PoolIsRegular ==
    ASSUME NEW pool \in Pools
    PROVE  \E h \in Hosts : IsPool(pool, h) /\ RegularFiles(getDevicesSpec(pool))
<1>1. PICK list \in DeviceLists, h \in Hosts : pool = Selected(list, h)
  BY DEF Pools
<1>2. PICK g \in Hosts : list = DiscoverHostDevices(g)
  BY <1>1 DEF DeviceLists
<1>3. IsHost(g) /\ IsHost(h) /\ FilesApart(h)
  BY HostsAssumption DEF IsHost, FilesApart
<1>4. IsHost(list)
  BY <1>2, <1>3, KeepIsHost DEF DiscoverHostDevices
<1>5. IsPool(pool, h)
  BY <1>1, <1>3, <1>4, GetDevicesIsPool, FilteredPass DEF Selected
<1>6. RegularFiles(getDevicesSpec(pool))
  BY <1>3, <1>5, SpecIsRegular
<1> QED BY <1>5, <1>6

\* DiscoverHostDevices starts from an empty list and GetDevices makes one device
\* for each address of it, so no pool holds a PCI device twice.
THEOREM PoolsHoldDevicesOnce == Spec => []SelectsOnce
<1>1. InventoryInv => SelectsOnce
  BY PoolIsRegular DEF InventoryInv, TypeOK, SelectsOnce, IsPool
<1> QED BY <1>1, InitInventory, NextInventory, PTL DEF Spec

\* Once UpdateDevices is past its critical section, deviceSpec holds the files of
\* the pool that it was called with.
SpecIsLatest == upd # "lock" => Range(deviceSpec) = Range(getDevicesSpec(arg))

SpecInv == InventoryInv /\ SpecIsLatest

\* newResourceServer starts with the files of its pool.
LEMMA InitSpec == Init => SpecInv
BY InitInventory DEF Init, SpecInv, SpecIsLatest

\* Every step keeps it: the files stay only where devicesChanged misses nothing.
LEMMA NextSpec == SpecInv /\ [Next]_vars => SpecInv'
<1> SUFFICES ASSUME SpecInv, [Next]_vars PROVE SpecInv'
  OBVIOUS
<1> USE DEF SpecInv, SpecIsLatest
<1>0. InventoryInv /\ InventoryInv'
  BY NextInventory
<1>1. CASE UpdateDevices
  <2> DEFINE spec == getDevicesSpec(arg)
  <2>1. arg' = arg
    BY <1>1 DEF UpdateDevices
  <2>2. CASE devicesChanged(deviceSpec, spec)
    BY <1>0, <1>1, <2>1, <2>2 DEF UpdateDevices
  <2>3. CASE ~devicesChanged(deviceSpec, spec)
    <3>1. RegularFiles(deviceSpec) /\ RegularFiles(spec)
      BY <1>0, PoolIsRegular DEF InventoryInv, TypeOK
    <3>2. Range(deviceSpec) = Range(spec)
      BY <2>3, <3>1, NoChangeMissed
    <3> QED BY <1>0, <1>1, <2>1, <2>3, <3>2 DEF UpdateDevices
  <2> QED BY <2>2, <2>3
<1>2. CASE HostChanges \/ Discover
  BY <1>0, <1>2 DEF HostChanges, Discover, inventory
<1>3. CASE SelectDevices
  BY <1>0, <1>3 DEF SelectDevices
<1>4. CASE Notify
  BY <1>0, <1>4 DEF Notify, inventory
<1>5. ASSUME NEW s \in Streams, Stream(s) PROVE SpecInv'
  BY <1>0, <1>5
  DEF Stream, BeginSend, EndSend, FirstSendFails, SendFails, UpdateCDISpec, TakeUpdate,
      ContextDone, inventory
<1>6. ASSUME NEW s \in Streams, Connect(s) \/ Receive(s) \/ Disconnect(s)
      PROVE  SpecInv'
  BY <1>0, <1>6 DEF Connect, Receive, Disconnect, inventory
<1>7. CASE UNCHANGED vars
  BY <1>0, <1>7 DEF vars, inventory
<1> QED BY <1>1, <1>2, <1>3, <1>4, <1>5, <1>6, <1>7 DEF Next, PeriodicUpdate

\* Allocate, where it answers from deviceSpec: a container gets the files of the
\* devices that discovery selected last, and none of a device that has left.
THEOREM AllocateIsLatest ==
    ASSUME ~UseCdi
    PROVE  Spec => []AllocatesLatest
<1>1. SpecInv => AllocatesLatest
  BY DEF SpecInv, SpecIsLatest, AllocatesLatest, AllocatedPaths
<1> QED BY <1>1, InitSpec, NextSpec, PTL DEF Spec

\* UpdateDevices, GetFilteredDevices: after a round of discovery that saw the host
\* as it still is, the files on offer are those of the documented rule.
THEOREM OfferIsByTheRule == Spec => []OfferFollowsRule
<1>1. ASSUME SpecInv, upd # "lock",
             arg = Selection[DiscoverHostDevices(host)][host]
      PROVE  Range(deviceSpec) = FilesOf(host, Selectors)
  <2>1. IsHost(host)
    BY <1>1, HostsAssumption DEF SpecInv, InventoryInv, TypeOK, IsHost
  <2>2. Range(getDevicesSpec(arg)) = FilesOf(host, Selectors)
    <3>1. host \in Hosts /\ DiscoverHostDevices(host) \in DeviceLists
      BY <1>1 DEF SpecInv, InventoryInv, TypeOK, DeviceLists
    <3> QED BY <1>1, <2>1, <3>1, SelectionIs, SelectionFollowsRule, SelectorsAssumption
        DEF Selected, SelectorNames
  <2> QED BY <1>1, <2>2 DEF SpecInv, SpecIsLatest
<1>2. SpecInv => OfferFollowsRule
  BY <1>1 DEF OfferFollowsRule
<1> QED BY <1>2, InitSpec, NextSpec, PTL DEF Spec

==============================================================================
