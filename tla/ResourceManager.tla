--------------------------- MODULE ResourceManager ---------------------------
(***************************************************************************)
(* One plugin process as main.go and the resource manager see it: the      *)
(* start-up, the loop over signals, the loops over the resource servers,   *)
(* the goroutine of the periodic update, and the CDI specs that the        *)
(* servers' ListAndWatch streams write and the manager cleans up.          *)
(*                                                                         *)
(* A server is up or not; how it gets there is module ServerLifecycle.     *)
(* With CDI it serves the devices that InitServers selected, whatever      *)
(* discovery finds later.  A device stands for its PCI address and for the *)
(* value of the selectors that selects it.  A CDI spec is a file with the  *)
(* devices that it describes.                                              *)
(*                                                                         *)
(* A step is one iteration of a loop.  CleanupSpecs is one step: nothing   *)
(* else removes a spec, so a file written while it runs is as good as      *)
(* written before or after.                                                *)
(***************************************************************************)
EXTENDS ConfigValidation, FiniteSets, Functions

CONSTANTS
    ConfigLists,    \* the configuration files
    Intervals,      \* values of periodicUpdateInterval
    UseCdi,         \* rm.useCdi
    Faults          \* the calls that may fail, and "crash"

ASSUME ConfigListsAssumption == ConfigLists \subseteq Seq(UserConfig)
ASSUME IntervalsAssumption == Intervals \subseteq Int
ASSUME CdiAssumption == UseCdi \in BOOLEAN

VARIABLES
    configList,     \* rm.configList
    interval,       \* rm.PeriodicUpdateInterval
    main,           \* what the main goroutine is doing
    index,          \* the server that its loop has reached
    sigs,           \* the channel of signals
    upd,            \* what the goroutine of PeriodicUpdate is doing
    server,         \* server[k]: the server of configList[k]
    pciDevices,     \* pciDevices[k]: the devices of that server
    stream,         \* stream[k]: the ListAndWatch handler that serves the kubelet
    late,           \* pools with a handler that its server did not wait for
    specs           \* specs[f]: the devices in file f of the CDI directories

settings == <<configList, interval>>
loop == <<main, index>>
servers == <<server, pciDevices>>
handlers == <<stream, late>>
vars == <<settings, loop, sigs, upd, servers, handlers, specs>>

Pools == DOMAIN configList

MainStates == {"down", "validate", "discover", "init", "start", "run", "cleanRestart",
               "restart", "stopUpdate", "cleanStop", "stop"}

TypeOK ==
    /\ configList \in Seq(UserConfig)
    /\ interval \in Intervals
    /\ main \in MainStates
    /\ index \in Pools \cup {1}
    /\ sigs \in {<<>>, <<"hup">>, <<"term">>}
    /\ upd \in {"off", "wait", "update"}
    /\ server \in [Pools -> {"none", "made", "up", "stopped"}]
    /\ pciDevices \in [Pools -> SUBSET Values]
    /\ stream \in [Pools -> {"off", "sent", "ready"}]
    /\ late \subseteq Pools
    /\ main \notin {"down", "validate"} => index \in Pools
    /\ main = "down" => sigs = <<>> /\ upd = "off" /\ late = {}

Init ==
    /\ configList = <<>>
    /\ interval \in Intervals
    /\ main = "down"
    /\ index = 1
    /\ sigs = <<>>
    /\ upd = "off"
    /\ server = <<>>
    /\ pciDevices = <<>>
    /\ stream = <<>>
    /\ late = {}
    /\ specs = <<>>

May(f) == f \in Faults

Goto(m) == main' = m /\ index' = 1

\* The next iteration of the loop m, or what comes after it.
Advance(m) ==
    IF index < Len(configList)
    THEN main' = main /\ index' = index + 1
    ELSE Goto(m)

\* The process is gone, its specs stay.
Exit ==
    /\ Goto("down")
    /\ sigs' = <<>>
    /\ upd' = "off"
    /\ server' = [k \in Pools |-> "none"]
    /\ pciDevices' = [k \in Pools |-> {}]
    /\ stream' = [k \in Pools |-> "off"]
    /\ late' = {}
    /\ UNCHANGED <<settings, specs>>

-----------------------------------------------------------------------------
(* Start-up.                                                               *)

\* ReadConfig of whatever the configuration file is by now; a file that cannot
\* be read ends the process as one that is rejected does.
Boot ==
    /\ main = "down"
    /\ configList' \in ConfigLists
    /\ interval' \in Intervals
    /\ Goto("validate")
    /\ server' = [k \in DOMAIN configList' |-> "none"]
    /\ pciDevices' = [k \in DOMAIN configList' |-> {}]
    /\ stream' = [k \in DOMAIN configList' |-> "off"]
    /\ UNCHANGED <<sigs, upd, late, specs>>

Validate ==
    /\ main = "validate"
    /\ \/ /\ ~ValidateConfigs(configList, interval)
          /\ Exit
       \/ /\ ValidateConfigs(configList, interval)
          /\ configList' = [k \in Pools |-> Normalized(configList[k])]
          /\ Goto("discover")
          /\ UNCHANGED <<interval, sigs, upd, servers, handlers, specs>>

\* ValidateRdmaSystemMode and DiscoverHostDevices.
Discover ==
    /\ main = "discover"
    /\ \/ /\ Goto("init")
          /\ UNCHANGED <<settings, sigs, upd, servers, handlers, specs>>
       \/ /\ May("discover")
          /\ Exit

\* Variant of CleanupSpecs: only the files of the pools configured now.
CleanupOwnSpecs ==
    specs' = IF UseCdi
             THEN Restrict(specs, DOMAIN specs \ {SpecFile(configList[k]) : k \in Pools})
             ELSE specs

CleanupSpecs == specs' = IF UseCdi THEN <<>> ELSE specs

\* A call of CleanupSpecs that fails ends the process, whoever made it.
CleanupFails ==
    /\ main \in {"init", "cleanRestart", "cleanStop"}
    /\ UseCdi /\ May("cleanup")
    /\ Exit

\* The devices are those of the selected ones that are there and usable.
InitServer ==
    /\ main = "init"
    /\ CleanupSpecs
    /\ \E devices \in SUBSET configList[index].selectors :
           pciDevices' = [pciDevices EXCEPT ![index] = devices]
    /\ server' = [server EXCEPT ![index] = "made"]
    /\ Advance("start")
    /\ UNCHANGED <<settings, sigs, upd, handlers>>

\* PeriodicUpdate follows the last Start.
StartServer ==
    /\ main = "start"
    /\ server' = [server EXCEPT ![index] = "up"]
    /\ Advance("run")
    /\ upd' = IF main' = "run" /\ interval > 0 THEN "wait" ELSE "off"
    /\ UNCHANGED <<settings, sigs, pciDevices, handlers, specs>>

\* StartAllServers, RestartAllServers and StopAllServers return the first
\* error; main exits on it or after it.
ServerFails ==
    /\ main \in {"start", "restart", "stop"}
    /\ May("server")
    /\ Exit

-----------------------------------------------------------------------------
(* Signals.                                                                *)

Listening == {"run", "cleanRestart", "restart", "stopUpdate", "cleanStop", "stop"}

\* Variant of Notify: a channel that takes every signal.
NotifyQueues(s) ==
    /\ main \in Listening
    /\ sigs' = Append(sigs, s)
    /\ UNCHANGED <<settings, loop, upd, servers, handlers, specs>>

\* signal.Notify never blocks: a signal is dropped when the channel is full.
Notify(s) ==
    /\ main \in Listening
    /\ sigs = <<>>
    /\ sigs' = <<s>>
    /\ UNCHANGED <<settings, loop, upd, servers, handlers, specs>>

Receive ==
    /\ main = "run"
    /\ sigs # <<>>
    /\ Goto(IF Head(sigs) = "hup" THEN "cleanRestart" ELSE "stopUpdate")
    /\ sigs' = <<>>
    /\ UNCHANGED <<settings, upd, servers, handlers, specs>>

\* grpc's Stop ends the streams of the server at index and does not wait for
\* their handlers: one that has sent its list writes its spec afterwards.
EndStream ==
    /\ stream' = [stream EXCEPT ![index] = "off"]
    /\ late' = late \cup {k \in {index} : stream[k] = "sent"}

CleanRestart ==
    /\ main = "cleanRestart"
    /\ CleanupSpecs
    /\ Goto("restart")
    /\ UNCHANGED <<settings, sigs, upd, servers, handlers>>

\* Variant of RestartServer: the specs are removed after the last restart.
RestartServerAndClean ==
    /\ main = "restart"
    /\ EndStream
    /\ Advance("run")
    /\ IF main' = "run" THEN CleanupSpecs ELSE UNCHANGED specs
    /\ UNCHANGED <<settings, sigs, upd, servers>>

RestartServer ==
    /\ main = "restart"
    /\ EndStream
    /\ Advance("run")
    /\ UNCHANGED <<settings, sigs, upd, servers, specs>>

\* Variants of StopPeriodicUpdate: it does not wait for the goroutine; it
\* sends although no goroutine was started.
StopUpdateAsync ==
    /\ main = "stopUpdate"
    /\ Goto("cleanStop")
    /\ upd' = IF upd = "wait" THEN "off" ELSE upd
    /\ UNCHANGED <<settings, sigs, servers, handlers, specs>>

StopUpdateAlways ==
    /\ main = "stopUpdate"
    /\ upd = "wait"
    /\ upd' = "off"
    /\ Goto("cleanStop")
    /\ UNCHANGED <<settings, sigs, servers, handlers, specs>>

\* The function that PeriodicUpdate returned: a send on the unbuffered stopChan,
\* received when the goroutine is back in its select.
StopPeriodicUpdate ==
    /\ main = "stopUpdate"
    /\ interval > 0 => upd = "wait"
    /\ upd' = "off"
    /\ Goto("cleanStop")
    /\ UNCHANGED <<settings, sigs, servers, handlers, specs>>

CleanStop ==
    /\ main = "cleanStop"
    /\ CleanupSpecs
    /\ Goto("stop")
    /\ UNCHANGED <<settings, sigs, upd, servers, handlers>>

\* main returns after the last server.
StopServer ==
    /\ main = "stop"
    /\ \/ /\ index < Len(configList)
          /\ index' = index + 1
          /\ server' = [server EXCEPT ![index] = "stopped"]
          /\ EndStream
          /\ UNCHANGED <<settings, main, sigs, upd, pciDevices, specs>>
       \/ /\ index = Len(configList)
          /\ Exit

\* The process is killed; before signal.Notify any of its signals does that.
Crash ==
    /\ May("crash")
    /\ main # "down"
    /\ Exit

-----------------------------------------------------------------------------
(* The periodic update and the streams.                                    *)

Tick ==
    /\ upd = "wait"
    /\ upd' = "update"
    /\ UNCHANGED <<settings, loop, sigs, servers, handlers, specs>>

\* UpdateDevices of some servers reports a change to their streams; of none if
\* DiscoverHostDevices fails.
Update ==
    /\ upd = "update"
    /\ upd' = "wait"
    /\ \E changed \in SUBSET Pools :
           stream' = [k \in Pools |->
                         IF k \in changed /\ stream[k] = "ready" THEN "sent" ELSE stream[k]]
    /\ UNCHANGED <<settings, loop, sigs, servers, late, specs>>

\* The kubelet calls ListAndWatch and gets the first list.
Connect(k) ==
    /\ server[k] = "up"
    /\ stream[k] = "off"
    /\ stream' = [stream EXCEPT ![k] = "sent"]
    /\ UNCHANGED <<settings, loop, sigs, upd, servers, late, specs>>

CreateCDISpec(k) ==
    LET file == SpecFile(configList[k])
    IN  specs' = IF UseCdi
                 THEN [f \in DOMAIN specs \cup {file} |->
                          IF f = file THEN pciDevices[k] ELSE specs[f]]
                 ELSE specs

\* updateCDISpec; an error ends the stream.
UpdateCDISpec(k) ==
    /\ stream[k] = "sent"
    /\ \/ /\ CreateCDISpec(k)
          /\ stream' = [stream EXCEPT ![k] = "ready"]
       \/ /\ UseCdi /\ May("write")
          /\ stream' = [stream EXCEPT ![k] = "off"]
          /\ UNCHANGED specs
    /\ UNCHANGED <<settings, loop, sigs, upd, servers, late>>

LateCDISpec(k) ==
    /\ k \in late
    /\ CreateCDISpec(k)
    /\ late' = late \ {k}
    /\ UNCHANGED <<settings, loop, sigs, upd, servers, stream>>

-----------------------------------------------------------------------------
(* Allocate with CDI.                                                      *)

\* Variant of AnnotationKey: the kind of the CDI devices.
AnnotationOfKind(conf) == <<"rdmadp", "nvidia.com", "net-rdma">>

\* A hash of the pool's name.
AnnotationKey(conf) == <<"rdmadp", "nvidia.com", conf.name>>

\* The annotation of a pool that has devices; there is an error for one without.
CreateContainerAnnotations(k) == [key \in {AnnotationKey(configList[k])} |-> pciDevices[k]]

\* The kubelet merges the annotations of the pools that a container requests.
MergedAnnotations(k, l) ==
    LET first  == CreateContainerAnnotations(k)
        second == CreateContainerAnnotations(l)
    IN  [key \in DOMAIN first \cup DOMAIN second |->
            IF key \in DOMAIN first THEN first[key] ELSE second[key]]

\* A runtime finds a device that a single spec describes.
Injectable == {d \in UNION Range(specs) :
                  Cardinality({f \in DOMAIN specs : d \in specs[f]}) = 1}

-----------------------------------------------------------------------------

Main ==
    \/ Validate
    \/ Discover
    \/ InitServer
    \/ CleanupFails
    \/ StartServer
    \/ ServerFails
    \/ Receive
    \/ CleanRestart
    \/ RestartServer
    \/ StopPeriodicUpdate
    \/ CleanStop
    \/ StopServer

Next ==
    \/ Boot
    \/ Main
    \/ \E s \in {"hup", "term"} : Notify(s)
    \/ Crash
    \/ Tick
    \/ Update
    \/ \E k \in Pools : Connect(k) \/ UpdateCDISpec(k) \/ LateCDISpec(k)

Spec == Init /\ [][Next]_vars

\* Goroutines run; a select with several ready cases picks each again and
\* again, so the ticker does not keep the stop message out forever.
FairSpec == Spec /\ SF_vars(Main) /\ WF_vars(Update)

-----------------------------------------------------------------------------

Validated == main \notin {"down", "validate"}

\* Two servers of a process never share a socket or a CDI spec, although the
\* names of both leave the prefix of the resource out; and newResourceServer
\* accepts whatever ValidateConfigs accepted.
PoolsAreSeparate ==
    Validated =>
        \A k, l \in Pools :
            /\ CanMake(configList[k])
            /\ k # l => /\ socketName(configList[k]) # socketName(configList[l])
                        /\ SpecFile(configList[k]) # SpecFile(configList[l])

\* Once the process serves, every spec in the CDI directories is of a pool it
\* has and describes that pool's devices: what a predecessor that was killed
\* left behind is gone, also when the configuration or the host has changed
\* since.
SpecsOfOwnPools ==
    Validated /\ main \notin {"discover", "init"} =>
        \A f \in DOMAIN specs :
            \E k \in Pools : f = SpecFile(configList[k]) /\ specs[f] = pciDevices[k]

PoolsOverlap == \E k, l \in Pools : k # l /\ pciDevices[k] \cap pciDevices[l] # {}

\* While main waits for signals, a container that requests two pools whose
\* streams have settled is annotated with the devices of both, and the runtime
\* finds them: no annotation replaces another, no spec replaces another, and
\* none is missing after RestartAllServers has removed them all.
ContainersGetTheirDevices ==
    UseCdi /\ main = "run" =>
        \A k, l \in {k \in Pools : stream[k] = "ready" /\ pciDevices[k] # {}} :
            /\ UNION Range(MergedAnnotations(k, l)) = pciDevices[k] \cup pciDevices[l]
            /\ ~PoolsOverlap => pciDevices[k] \cup pciDevices[l] \subseteq Injectable

\* No UpdateDevices runs on a server that is being stopped for good.
NoUpdateWhileStopping == main \in {"cleanStop", "stop"} => upd = "off"

\* A termination signal that reached the channel ends the process, whatever the
\* main loop and the periodic update are doing.
TermIsServed == sigs = <<"term">> ~> main = "down"

==============================================================================
