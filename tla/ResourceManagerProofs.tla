------------------------ MODULE ResourceManagerProofs ------------------------
(***************************************************************************)
(* Theorems about ResourceManager, for any configuration files, intervals  *)
(* and faults, with CDI and without it.                                    *)
(***************************************************************************)
EXTENDS ResourceManager, FiniteSetTheorems, TLAPS

-----------------------------------------------------------------------------
(* Types.                                                                  *)

\* ValidateConfigs leaves configurations of the same type.
LEMMA NormalizedType ==
    ASSUME NEW conf \in UserConfig
    PROVE  /\ Normalized(conf) \in UserConfig
           /\ Normalized(conf).name = conf.name
           /\ Normalized(conf).rdmaHcaMax = conf.rdmaHcaMax
           /\ Normalized(conf).prefix # NoPrefix
BY PrefixAssumption DEF UserConfig, Normalized, IsEmptySelector

\* Before anything has happened.
LEMMA InitType == Init => TypeOK
BY DEF Init, TypeOK, MainStates, Pools

\* The end of the process.
LEMMA ExitType ==
    ASSUME TypeOK, Exit
    PROVE  TypeOK'
BY DEF TypeOK, Exit, Goto, MainStates, Pools, settings

\* The loops stay within the servers.
LEMMA AdvanceType ==
    ASSUME TypeOK, NEW m, Advance(m), main \notin {"down", "validate"}
    PROVE  main' \in {main, m} /\ index' \in Pools
BY DEF TypeOK, Advance, Goto, Pools

\* The streams that end, and those that go on, are streams of pools.
LEMMA EndStreamType ==
    ASSUME TypeOK, EndStream, index \in Pools
    PROVE  /\ stream' \in [Pools -> {"off", "sent", "ready"}]
           /\ late' \subseteq Pools
BY DEF TypeOK, EndStream

\* Every step keeps the types.
LEMMA NextType == TypeOK /\ [Next]_vars => TypeOK'
<1> SUFFICES ASSUME TypeOK, [Next]_vars PROVE TypeOK'
  OBVIOUS
<1> USE DEF TypeOK, MainStates, Pools, Goto
<1>1. CASE Boot
  BY <1>1, ConfigListsAssumption DEF Boot
<1>2. ASSUME Main PROVE TypeOK'
  <2>1. CASE Validate
    <3>1. CASE Exit
      BY <3>1, ExitType
    <3>2. CASE ~Exit
      <4>1. configList # <<>>
        BY <2>1, <3>2 DEF Validate, ValidateConfigs
      <4>2. configList' \in Seq(UserConfig) /\ Pools' = Pools
        BY <2>1, <3>2, NormalizedType DEF Validate
      <4> QED BY <2>1, <3>2, <4>1, <4>2 DEF Validate, handlers, servers
    <3> QED BY <3>1, <3>2
  <2>2. CASE Discover
    BY <2>2, ExitType DEF Discover, settings, servers, handlers
  <2>3. CASE InitServer
    <3>1. index \in Pools /\ configList[index].selectors \subseteq Values
      <4>1. index \in Pools
        BY <2>3 DEF InitServer
      <4>2. configList[index] \in UserConfig
        BY <4>1
      <4> QED BY <4>1, <4>2 DEF UserConfig
    <3>2. pciDevices' \in [Pools -> SUBSET Values]
      BY <2>3, <3>1 DEF InitServer
    <3>3. main' \in {"init", "start"} /\ index' \in Pools
      BY <2>3, AdvanceType DEF InitServer
    <3> QED BY <2>3, <3>2, <3>3 DEF InitServer, settings, handlers
  <2>4. CASE StartServer
    BY <2>4, AdvanceType DEF StartServer, settings, handlers
  <2>5. CASE CleanupFails \/ ServerFails
    BY <2>5, ExitType DEF CleanupFails, ServerFails
  <2>6. CASE Receive
    BY <2>6 DEF Receive, settings, servers, handlers
  <2>7. CASE CleanRestart \/ CleanStop \/ StopPeriodicUpdate
    BY <2>7 DEF CleanRestart, CleanStop, StopPeriodicUpdate, settings, servers, handlers
  <2>8. CASE RestartServer
    BY <2>8, AdvanceType, EndStreamType DEF RestartServer, settings, servers
  <2>9. CASE StopServer
    <3>1. CASE Exit
      BY <3>1, ExitType
    <3>2. CASE ~Exit
      BY <2>9, <3>2, EndStreamType DEF StopServer, settings
    <3> QED BY <3>1, <3>2
  <2> QED BY <1>2, <2>1, <2>2, <2>3, <2>4, <2>5, <2>6, <2>7, <2>8, <2>9 DEF Main
<1>3. ASSUME NEW s \in {"hup", "term"}, Notify(s) PROVE TypeOK'
  BY <1>3 DEF Notify, Listening, settings, loop, servers, handlers
<1>4. CASE Crash
  BY <1>4, ExitType DEF Crash
<1>5. CASE Tick \/ Update
  BY <1>5 DEF Tick, Update, settings, loop, servers, handlers
<1>6. ASSUME NEW k \in Pools, Connect(k) \/ UpdateCDISpec(k) \/ LateCDISpec(k)
      PROVE  TypeOK'
  BY <1>6 DEF Connect, UpdateCDISpec, LateCDISpec, settings, loop, servers
<1>7. CASE UNCHANGED vars
  BY <1>7 DEF vars, settings, loop, servers, handlers
<1> QED BY <1>1, <1>2, <1>3, <1>4, <1>5, <1>6, <1>7 DEF Next

\* The variables of ResourceManager keep their types: the loops never leave the
\* servers, and a process that is down has no signals, goroutines or streams.
THEOREM TypeCorrect == Spec => []TypeOK
BY InitType, NextType, PTL DEF Spec

-----------------------------------------------------------------------------
(* Pools keep their names apart.                                           *)

\* What a step of the process does to the configuration: main reads it anew or
\* validates it, and everything else leaves it alone.
LEMMA ConfigChanges ==
    ASSUME TypeOK, [Next]_vars
    PROVE  \/ ~Validated'
           \/ main = "validate" /\ Validate /\ ~Exit
           \/ Validated /\ configList' = configList
<1> USE DEF TypeOK, MainStates, Validated, Goto
<1>1. CASE Boot
  BY <1>1 DEF Boot
<1>2. CASE Exit
  BY <1>2 DEF Exit
<1>3. CASE Main /\ ~Exit
  BY <1>3
  DEF Main, Validate, Discover, InitServer, CleanupFails, StartServer, ServerFails, Receive,
      CleanRestart, RestartServer, StopPeriodicUpdate, CleanStop, StopServer, settings
<1>4. ASSUME NEW s \in {"hup", "term"}, Notify(s) PROVE main' = main /\ configList' = configList
  BY <1>4 DEF Notify, settings, loop
<1>5. CASE Tick \/ Update
  BY <1>5 DEF Tick, Update, settings, loop
<1>6. ASSUME NEW k \in Pools, Connect(k) \/ UpdateCDISpec(k) \/ LateCDISpec(k)
      PROVE  main' = main /\ configList' = configList
  BY <1>6 DEF Connect, UpdateCDISpec, LateCDISpec, settings, loop
<1>7. CASE UNCHANGED vars
  BY <1>7 DEF vars, settings, loop
<1> QED BY <1>1, <1>2, <1>3, <1>4, <1>5, <1>6, <1>7 DEF Next, Crash

\* ValidateConfigs makes the pools separate, nothing makes them meet again.
LEMMA NextSeparate ==
    TypeOK /\ PoolsAreSeparate /\ [Next]_vars => PoolsAreSeparate'
<1> SUFFICES ASSUME TypeOK, PoolsAreSeparate, [Next]_vars
             PROVE  PoolsAreSeparate'
  OBVIOUS
<1>1. CASE ~Validated'
  BY <1>1 DEF PoolsAreSeparate
<1>2. CASE Validate /\ ~Exit
  <2>1. configList \in Seq(UserConfig) /\ ValidateConfigs(configList, interval)
    BY <1>2 DEF TypeOK, Validate
  <2>2. configList' = [k \in Pools |-> Normalized(configList[k])] /\ Pools' = Pools
    BY <1>2 DEF Validate, Pools
  <2>3. ASSUME NEW k \in Pools, NEW l \in Pools, k # l
        PROVE  configList[k].name # configList[l].name
    <3>1. k < l \/ l < k
      BY <2>1, <2>3 DEF Pools
    <3> QED BY <2>1, <2>3, <3>1 DEF Pools, ValidateConfigs, Unique
  <2>4. \A k \in Pools :
            /\ configList'[k].name = configList[k].name
            /\ configList'[k].rdmaHcaMax >= 0
            /\ configList'[k].prefix # NoPrefix
    BY <2>1, <2>2, NormalizedType DEF Pools, ValidateConfigs
  <2> QED
    BY <2>2, <2>3, <2>4 DEF PoolsAreSeparate, CanMake, socketName, SpecFile
<1>3. CASE Validated /\ configList' = configList
  BY <1>3 DEF PoolsAreSeparate, Pools
<1> QED BY <1>1, <1>2, <1>3, ConfigChanges

\* Any number of pools that ValidateConfigs accepted have sockets and CDI specs of
\* their own, and newResourceServer accepts them too.
THEOREM PoolsStaySeparate == Spec => []PoolsAreSeparate
<1>1. Init => PoolsAreSeparate
  BY DEF Init, PoolsAreSeparate, Validated
<1> QED BY <1>1, NextSeparate, TypeCorrect, PTL DEF Spec

-----------------------------------------------------------------------------
(* The periodic update.                                                    *)

\* stopPeriodicUpdate returns when the goroutine is gone, and nothing starts
\* another one: no UpdateDevices runs on a server that is being stopped.
THEOREM UpdateEndsBeforeStop == Spec => []NoUpdateWhileStopping
<1>1. Init => NoUpdateWhileStopping
  BY DEF Init, NoUpdateWhileStopping
<1>2. TypeOK /\ NoUpdateWhileStopping /\ [Next]_vars => NoUpdateWhileStopping'
  <2> SUFFICES ASSUME TypeOK, NoUpdateWhileStopping, [Next]_vars
               PROVE  NoUpdateWhileStopping'
    OBVIOUS
  <2> USE DEF NoUpdateWhileStopping, Goto
  <2>1. CASE Exit
    BY <2>1 DEF Exit
  <2>2. CASE Main /\ ~Exit
    BY <2>2
    DEF Main, Validate, Discover, InitServer, CleanupFails, StartServer, ServerFails, Receive,
        CleanRestart, RestartServer, StopPeriodicUpdate, CleanStop, StopServer, Advance
  <2>3. CASE Boot \/ Tick \/ Update
    BY <2>3 DEF Boot, Tick, Update, loop
  <2>4. ASSUME NEW s \in {"hup", "term"}, Notify(s) PROVE NoUpdateWhileStopping'
    BY <2>4 DEF Notify, loop
  <2>5. ASSUME NEW k \in Pools, Connect(k) \/ UpdateCDISpec(k) \/ LateCDISpec(k)
        PROVE  NoUpdateWhileStopping'
    BY <2>5 DEF Connect, UpdateCDISpec, LateCDISpec, loop
  <2>6. CASE UNCHANGED vars
    BY <2>6 DEF vars, loop
  <2> QED BY <2>1, <2>2, <2>3, <2>4, <2>5, <2>6 DEF Next, Crash
<1> QED BY <1>1, <1>2, TypeCorrect, PTL DEF Spec

-----------------------------------------------------------------------------
(* CDI specs.                                                              *)

Serving ==
    {"start", "run", "cleanRestart", "restart", "stopUpdate", "cleanStop", "stop"}

\* Pools whose servers have not been restarted after the clean-up of a restart.
Cleaned == IF main = "restart" THEN {k \in Pools : k >= index} ELSE {}

\* Without CDI there are no specs.  A server that is not up has no handler.  While
\* the process serves, specs are those of its pools, and a settled stream has
\* one, except between the clean-up of a restart and the restart of its server,
\* and after the clean-up of a shutdown.
SpecInv ==
    /\ ~UseCdi => specs = <<>>
    /\ main \notin Serving =>
           late = {} /\ \A k \in Pools : stream[k] = "off" /\ server[k] # "up"
    /\ SpecsOfOwnPools
    /\ UseCdi /\ main \in Serving \ {"stop"} =>
           \A k \in Pools \ Cleaned :
               stream[k] = "ready" =>
                   /\ SpecFile(configList[k]) \in DOMAIN specs
                   /\ specs[SpecFile(configList[k])] = pciDevices[k]

\* A step that leaves configuration, devices, specs and the main goroutine alone,
\* and makes no stream settled, keeps SpecInv.
LEMMA QuietSpecs ==
    ASSUME SpecInv,
           UNCHANGED <<configList, pciDevices, server, specs, main, index>>,
           \A k \in Pools : stream'[k] = "ready" => stream[k] = "ready",
           main \notin Serving => late' = late /\ \A k \in Pools : stream'[k] = stream[k]
    PROVE  SpecInv'
<1> USE DEF SpecInv
<1>1. Pools' = Pools /\ Cleaned' = Cleaned
  BY DEF Pools, Cleaned
<1>2. SpecsOfOwnPools'
  BY <1>1 DEF SpecsOfOwnPools, Validated
<1> QED BY <1>1, <1>2

\* What is written is the spec of the pool.
LEMMA WrittenSpecs ==
    ASSUME TypeOK, PoolsAreSeparate, SpecInv, NEW k \in Pools, CreateCDISpec(k),
           UNCHANGED <<configList, pciDevices, server, main, index>>,
           main \in Serving,
           \A l \in Pools : l # k /\ stream'[l] = "ready" => stream[l] = "ready"
    PROVE  SpecInv'
<1> USE DEF SpecInv, CreateCDISpec
<1>1. Pools' = Pools /\ Cleaned' = Cleaned /\ Validated /\ main \notin {"discover", "init"}
  BY DEF Pools, Cleaned, Validated, Serving
<1>2. SpecsOfOwnPools'
  BY <1>1 DEF SpecsOfOwnPools
<1>3. \A l \in Pools : l # k => SpecFile(configList[l]) # SpecFile(configList[k])
  BY <1>1 DEF PoolsAreSeparate
<1>4. CASE UseCdi
  BY <1>1, <1>2, <1>3, <1>4
<1>5. CASE ~UseCdi
  BY <1>1, <1>2, <1>5
<1> QED BY <1>4, <1>5

\* The steps of start-up: nothing is served, and InitServers clears the specs.
LEMMA StartSpecs ==
    ASSUME TypeOK, SpecInv, Boot \/ Exit \/ Validate \/ Discover \/ InitServer \/ StartServer
    PROVE  SpecInv'
<1> USE DEF SpecInv, TypeOK, MainStates, Serving, Goto
<1>1. CASE Exit
  BY <1>1 DEF Exit, Pools, SpecsOfOwnPools, Validated, settings
<1>2. CASE Boot
  BY <1>2 DEF Boot, Pools, SpecsOfOwnPools, Validated
<1>3. CASE Validate /\ ~Exit
  <2>1. Pools' = Pools
    BY <1>3 DEF Validate, Pools
  <2> QED BY <1>3, <2>1 DEF Validate, SpecsOfOwnPools, Validated, servers, handlers
<1>4. CASE Discover /\ ~Exit
  BY <1>4 DEF Discover, Pools, SpecsOfOwnPools, Validated, settings, servers, handlers
<1>5. CASE InitServer
  <2>1. Pools' = Pools /\ specs' = <<>>
    BY <1>5 DEF InitServer, CleanupSpecs, settings, Pools
  <2>2. late' = {} /\ \A k \in Pools : stream'[k] = "off" /\ server'[k] # "up"
    BY <1>5 DEF InitServer, handlers
  <2> QED BY <2>1, <2>2 DEF SpecsOfOwnPools
<1>6. CASE StartServer
  <2>1. main' \in {"start", "run"}
    BY <1>6 DEF StartServer, Advance
  <2>2. Cleaned = {} /\ Cleaned' = {} /\ Pools' = Pools
    BY <1>6, <2>1 DEF StartServer, Cleaned, Pools, settings
  <2> QED BY <1>6, <2>1, <2>2 DEF StartServer, SpecsOfOwnPools, Validated, settings, handlers
<1> QED BY <1>1, <1>2, <1>3, <1>4, <1>5, <1>6

\* The steps of a restart and of a shutdown.
LEMMA StopSpecs ==
    ASSUME TypeOK, SpecInv,
           \/ Receive \/ CleanRestart \/ RestartServer
           \/ StopPeriodicUpdate \/ CleanStop \/ (StopServer /\ ~Exit)
    PROVE  SpecInv'
<1> USE DEF SpecInv, TypeOK, MainStates, Serving, Goto
<1>1. CASE Receive \/ StopPeriodicUpdate
  <2>1. Cleaned = {} /\ Cleaned' = {} /\ Pools' = Pools
    BY <1>1 DEF Receive, StopPeriodicUpdate, Cleaned, Pools, settings
  <2>2. SpecsOfOwnPools'
    BY <1>1, <2>1
    DEF Receive, StopPeriodicUpdate, SpecsOfOwnPools, Validated, settings, servers
  <2> QED
    BY <1>1, <2>1, <2>2 DEF Receive, StopPeriodicUpdate, settings, servers, handlers
<1>2. CASE CleanRestart \/ CleanStop
  <2>1. Pools' = Pools /\ specs' = <<>>
    BY <1>2 DEF CleanRestart, CleanStop, CleanupSpecs, settings, Pools
  <2>2. CASE CleanRestart
    <3>1. Cleaned' = Pools'
      <4>1. \A k \in Pools : k >= 1
        BY DEF Pools
      <4> QED BY <2>1, <2>2, <4>1 DEF CleanRestart, Cleaned
    <3> QED BY <2>1, <2>2, <3>1 DEF CleanRestart, SpecsOfOwnPools
  <2>3. CASE CleanStop
    BY <2>1, <2>3 DEF CleanStop, SpecsOfOwnPools
  <2> QED BY <1>2, <2>2, <2>3
<1>3. CASE RestartServer
  <2>1. Pools' = Pools /\ main' \in {"restart", "run"}
    BY <1>3 DEF RestartServer, Advance, Pools, settings
  <2>2. \A k \in Pools : k # index => stream'[k] = stream[k]
    BY <1>3 DEF RestartServer, EndStream
  <2>3. stream'[index] # "ready"
    BY <1>3 DEF RestartServer, EndStream
  <2>4. \A k \in Pools : k \in Cleaned => k = index \/ k \in Cleaned'
    BY <1>3, <2>1 DEF RestartServer, Advance, Cleaned, Pools
  <2>5. SpecsOfOwnPools'
    BY <1>3, <2>1 DEF RestartServer, SpecsOfOwnPools, Validated, settings, servers
  <2> QED
    BY <1>3, <2>1, <2>2, <2>3, <2>4, <2>5 DEF RestartServer, settings, servers
<1>4. CASE StopServer /\ ~Exit
  BY <1>4 DEF StopServer, SpecsOfOwnPools, Validated, Pools, settings
<1> QED BY <1>1, <1>2, <1>3, <1>4

\* Every step keeps SpecInv.
LEMMA NextSpecs ==
    TypeOK /\ PoolsAreSeparate /\ SpecInv /\ [Next]_vars => SpecInv'
<1> SUFFICES ASSUME TypeOK, PoolsAreSeparate, SpecInv, [Next]_vars
             PROVE  SpecInv'
  OBVIOUS
<1>1. CASE Boot \/ Exit
  BY <1>1, StartSpecs
<1>2. CASE Main /\ ~Exit
  BY <1>2, StartSpecs, StopSpecs DEF Main, CleanupFails, ServerFails
<1>3. ASSUME NEW s \in {"hup", "term"}, Notify(s) PROVE SpecInv'
  BY <1>3, QuietSpecs DEF Notify, settings, loop, servers, handlers
<1>4. CASE Tick \/ UNCHANGED vars
  BY <1>4, QuietSpecs DEF Tick, vars, settings, loop, servers, handlers
<1>5. CASE Update
  <2>1. \A k \in Pools : stream'[k] = "ready" => stream[k] = "ready"
    BY <1>5 DEF Update
  <2>2. main \notin Serving => late' = late /\ \A k \in Pools : stream'[k] = stream[k]
    BY <1>5 DEF Update, SpecInv
  <2> QED BY <1>5, <2>1, <2>2, QuietSpecs DEF Update, settings, loop, servers
<1>6. ASSUME NEW k \in Pools, Connect(k) PROVE SpecInv'
  <2>1. main \in Serving
    BY <1>6 DEF Connect, SpecInv
  <2> QED BY <1>6, <2>1, QuietSpecs DEF Connect, TypeOK, settings, loop, servers
<1>7. ASSUME NEW k \in Pools, UpdateCDISpec(k) PROVE SpecInv'
  <2>1. main \in Serving
    BY <1>7 DEF UpdateCDISpec, SpecInv
  <2>2. \A l \in Pools : l # k => stream'[l] = stream[l]
    BY <1>7 DEF UpdateCDISpec, TypeOK
  <2>3. CASE CreateCDISpec(k)
    BY <1>7, <2>1, <2>2, <2>3, WrittenSpecs DEF UpdateCDISpec, settings, loop, servers
  <2>4. CASE ~CreateCDISpec(k)
    BY <1>7, <2>1, <2>2, <2>4, QuietSpecs DEF UpdateCDISpec, TypeOK, settings, loop, servers
  <2> QED BY <2>3, <2>4
<1>8. ASSUME NEW k \in Pools, LateCDISpec(k) PROVE SpecInv'
  <2>1. main \in Serving
    BY <1>8 DEF LateCDISpec, SpecInv
  <2> QED BY <1>8, <2>1, WrittenSpecs DEF LateCDISpec, settings, loop, servers
<1> QED BY <1>1, <1>2, <1>3, <1>4, <1>5, <1>6, <1>7, <1>8 DEF Next, Crash

\* The inductive invariant.
THEOREM ManagerInv == Spec => [](TypeOK /\ PoolsAreSeparate /\ SpecInv)
<1>1. Init => SpecInv
  BY DEF Init, SpecInv, SpecsOfOwnPools, Validated, Serving, Pools
<1> QED BY <1>1, NextSpecs, TypeCorrect, PoolsStaySeparate, PTL DEF Spec

\* CleanupSpecs in InitServers: once the process serves, every spec is of one of
\* its pools and describes its devices, whatever predecessors left behind.
THEOREM SpecsAreOwn == Spec => []SpecsOfOwnPools
<1>1. SpecInv => SpecsOfOwnPools
  BY DEF SpecInv
<1> QED BY <1>1, ManagerInv, PTL

\* The annotations of two pools do not hide each other.
LEMMA MergedDevices ==
    ASSUME NEW k \in Pools, NEW l \in Pools,
           k # l => configList[k].name # configList[l].name
    PROVE  UNION Range(MergedAnnotations(k, l)) = pciDevices[k] \cup pciDevices[l]
<1> DEFINE x == AnnotationKey(configList[k])
           y == AnnotationKey(configList[l])
           m == MergedAnnotations(k, l)
<1>1. x = y => k = l
  BY DEF AnnotationKey
<1>2. DOMAIN m = {x, y} /\ m[x] = pciDevices[k] /\ m[y] = pciDevices[l]
  BY <1>1 DEF MergedAnnotations, CreateContainerAnnotations
<1> HIDE DEF m
<1>3. Range(m) = {pciDevices[k], pciDevices[l]}
  BY <1>2 DEF Range
<1>4. UNION Range(m) = pciDevices[k] \cup pciDevices[l]
  BY <1>3
<1> QED BY <1>4 DEF m

\* CreateContainerAnnotations and CreateCDISpec: a container that requests settled
\* pools is annotated with the devices of each, and, where no two pools overlap,
\* each device has exactly one spec, for any number of pools and whatever
\* start-up, SIGHUP, faults and late handlers did before.
THEOREM ContainersAreServed == Spec => []ContainersGetTheirDevices
<1>1. TypeOK /\ PoolsAreSeparate /\ SpecInv => ContainersGetTheirDevices
  <2> SUFFICES ASSUME TypeOK, PoolsAreSeparate, SpecInv, UseCdi, main = "run",
                      NEW k \in Pools, NEW l \in Pools,
                      stream[k] = "ready", stream[l] = "ready"
               PROVE  /\ UNION Range(MergedAnnotations(k, l)) =
                              pciDevices[k] \cup pciDevices[l]
                      /\ ~PoolsOverlap =>
                              pciDevices[k] \cup pciDevices[l] \subseteq Injectable
    BY DEF ContainersGetTheirDevices
  <2>1. Validated /\ main \in Serving \ {"stop"} /\ Cleaned = {}
    BY DEF Validated, Serving, Cleaned
  <2>2. k # l => configList[k].name # configList[l].name
    BY <2>1 DEF PoolsAreSeparate, SpecFile
  <2>3. ASSUME ~PoolsOverlap, NEW j \in Pools, stream[j] = "ready", NEW d \in pciDevices[j]
        PROVE  d \in Injectable
    <3> DEFINE file == SpecFile(configList[j])
    <3>1. file \in DOMAIN specs /\ specs[file] = pciDevices[j]
      BY <2>1, <2>3 DEF SpecInv
    <3>2. ASSUME NEW f \in DOMAIN specs, d \in specs[f] PROVE f = file
      <4>1. PICK i \in Pools : f = SpecFile(configList[i]) /\ specs[f] = pciDevices[i]
        BY <2>1 DEF SpecInv, SpecsOfOwnPools
      <4>2. i = j
        BY <2>3, <3>2, <4>1 DEF PoolsOverlap
      <4> QED BY <4>1, <4>2
    <3>3. {f \in DOMAIN specs : d \in specs[f]} = {file}
      BY <2>3, <3>1, <3>2
    <3>4. Cardinality({file}) = 1
      BY FS_Singleton
    <3>5. d \in UNION Range(specs)
      BY <2>3, <3>1 DEF Range
    <3> QED BY <3>3, <3>4, <3>5 DEF Injectable
  <2> QED BY <2>2, <2>3, MergedDevices
<1> QED BY <1>1, ManagerInv, PTL

=============================================================================
