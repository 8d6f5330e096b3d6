# Verification of the RDMA shared device plugin

TLA+ modules, TLC configurations and TLAPS proofs for
`k8s-rdma-shared-dev-plugin`. The plugin runs on every node of a cluster,
finds the RDMA network devices of the host, and offers each configured pool of
them to the kubelet as a device plugin resource that many pods share.

`PROJECT.json` has the tables behind this text: components, runs, mutants, the
map from definitions to source lines, findings, hazards and theorems.

## 1. The system

### Components, their state and operations

| Component | State | Operations | What makes it hard |
|---|---|---|---|
| resource server, lifecycle (`pkg/resources/server.go`) | grpc server of `rsConnector`, `socketOwner`/`socketIno`, `lifecycleMu`, `stopWatcher` | `Start`, `Stop`, `Restart`, `Watch`, `register`, `NotifyRegistrationStatus` | two goroutines, an rpc handler without a lock, a replacement process on the same path during a rolling update, kubelet restarts, failing library calls |
| registration socket directory (kernel) | file at `socketPath`, bound sockets and connections (`/proc/net/unix`), `flock` on the directory | `Listen`, `Lstat`, `Remove`, `lockSocketPath`, `unixSocketInodesForPath` | shared by processes that know nothing of each other; a socket outlives its name and a name its socket |
| resource server, inventory (`pkg/resources/server.go`) | `pciDevices`, `deviceSpec`, `devs`, `mutex`, `updateResource` | `UpdateDevices`, `notifyUpdate`, `ListAndWatch`, `sendDevices`, `updateCDISpec`, `Allocate` | a writer and several streams, one notification for all of them, streams that outlive their connection |
| resource manager (`resources_manager.go`) | `configList`, `resourceServers`, `deviceList` | `InitServers`, `Start/Stop/RestartAllServers`, `PeriodicUpdate` and its stop function | loops that end at the first error, the handshake that ends the periodic update |
| main, signals (`main.go`, `watcher.go`) | a channel with room for one signal | the signal loop | signals dropped while one is pending |
| CDI specs (`pkg/cdi/cdi.go`) | spec files in the CDI directories | `CreateCDISpec`, `CreateContainerAnnotations`, `CleanupSpecs` | one directory for all pools and processes; clean-up races with streams that write |
| configuration (`ReadConfig`, `ValidateConfigs`) | `configList` | validation, defaults | uniqueness, exclusive fields |
| discovery and selection (`DiscoverHostDevices`, `GetDevices`, `GetFilteredDevices`, `device_selectors.go`, `pci_net_device.go`) | `deviceList` | discovery, construction of devices, filters | the host is looked at twice in a round; devices that fail one by one; AND of ORs |
| RDMA device specs (`rdma_device_spec.go`, `utils.go`), netlink | none | reads of sysfs and netlink | none |

Components interact so: `main` calls the resource manager, which calls `Start`,
`Restart` and `Stop` of its servers in order and starts one `Watch` goroutine
per server (unless the kubelet finds sockets by itself, *watch mode*). The
periodic update calls `UpdateDevices`. The kubelet connects to the socket,
calls `ListAndWatch` and `Allocate`, and in watch mode
`NotifyRegistrationStatus`; without watch mode the server calls the kubelet's
`Register`. Two plugin processes with the same resource, the outgoing and the
incoming pod of a rolling update, meet only in the directory of the socket and
in the CDI directories.

### What makes it correct

- *Lifecycle.* No process unlinks a socket that another has bound; a process
  removes what is its own; `Stop` ends and nothing starts the server again
  afterwards; a server that registers itself is registered again after
  whatever wiped its socket; every failing path leaves a state from which
  `Restart` and `Stop` work.
- *Inventory.* The list on offer follows discovery; a list is on offer when it is
  sent, and lists arrive in order; no change is lost; only a kubelet that keeps a
  connection and reads nothing can hold discovery up; `Allocate` hands out the
  devices selected last.
- *Resource manager, signals.* A signal is acted on; `Stop` of one server does
  not depend on another; the periodic update ends.
- *CDI.* Every annotation names a device of a spec that exists; pools do not
  overwrite each other's specs or annotations; nothing of a predecessor is left
  once the process serves.
- *Configuration, selection.* Names derived from an accepted configuration do
  not clash; on a host that stays as it is the offer becomes that of the devices
  which the documented rule, an AND of ORs, selects.

The places where a test would hardly catch a mistake are the *hazards* of
`PROJECT.json`, each at its source line with the properties that cover it.

## 2. Modules

| Module | Role |
|---|---|
| `SocketName` | abstract: how the name of a socket passes between processes |
| `SocketDir` | the kernel's side of one socket path, for any set of processes |
| `ServerLifecycle` | EXTENDS `SocketDir`: the lifecycle of one server in every process; implements `SocketName` in watch mode |
| `MCServerLifecycle` | instances for TLC |
| `ServerLifecycleProofs` | theorems about `ServerLifecycle` |
| `InventoryView` | abstract: what `ListAndWatch` promises the kubelet |
| `DeviceSelection` | discovery, construction and selection of devices, as operators |
| `DeviceSelectionProofs` | theorems about `DeviceSelection`, and the lemmas on sequences that they need |
| `DeviceInventory` | EXTENDS `DeviceSelection`: a changing host, the periodic discovery, and the inventory, streams and `Allocate` of one server; implements `InventoryView` |
| `MCDeviceInventory` | instances for TLC |
| `DeviceInventoryProofs` | EXTENDS `DeviceSelectionProofs`: theorems about `DeviceInventory` |
| `ConfigValidation` | `ValidateConfigs` and the names derived from a configuration, as operators |
| `ResourceManager` | EXTENDS `ConfigValidation`: one process with all its servers, signals, periodic update and CDI specs |
| `MCResourceManager` | an instance for TLC |
| `ResourceManagerProofs` | theorems about `ResourceManager` |

Definitions introduced by the comment "Variant of ..." are deliberately wrong
forms of the definition that follows them (a dropped guard, a missing reset, a
wrong order). Nothing uses them in the specifications. Put in the place of the
right form, each breaks the property that `PROJECT.json` pairs it with, which
shows that the property has teeth.

### SocketDir and ServerLifecycle

`path` is the file at `socketPath`: `None`, `Stale` (a file whose socket is
closed) or the inode of the socket bound there. `listener[i]` is the listening
socket of process `i`, which may have lost its name. `conn` are the processes
that have a connection of the kubelet open, which matters because
`/proc/net/unix` has a row with the listener's path for an accepted connection
too. `flock` is the holder of the directory lock.

`mu[i]` is the goroutine of `i` (`main` or `watch`) that holds `lifecycleMu`,
and `op[i]` the next statement of the lifecycle call it is in. A call is cut
into one step per statement whose effect another goroutine or process can see:

| code | steps |
|---|---|
| `startLocked` | `LockSocketPath`, `Reclaim` (clear ownership, `cleanupLocked`, `CreateServer`), `Listen` (bind, `recordSocketIDLocked`, unlock), `Serve`, `GetClientConn`, `Register`, with `ListenFails`, `GetClientConnFails`, `RegisterFails` |
| `stopAndRemoveOwnedSocketLocked` | `LockSocketPath`, `CheckOwner`, `StopServer`, `Unlink` |
| `Restart` | `Restart`, then `startLocked` |
| `Stop` | `StopBegins`, `WatchStops` (the send on `stopWatcher`), `StopLocks`, then the steps above |
| `Watch` | `WatchPolls`, `WatchStops`, `Restart` |
| `NotifyRegistrationStatus` | `NotifyRegistrationFailed` (the handler runs), `NotifyStops` |
| a kubelet | `KubeletStops`, `KubeletStarts` (clears `device-plugins`), `KubeletServes` (accepts registrations), `KubeletConnects`, `KubeletDisconnects` |

`Faults` names the calls that may fail: `listen`, `capture` (of the inode after
`Listen`), `client`, `remove`, `register`, `proc` (unreadable
`/proc/net/unix`), `flock`, and the events `crash` and `disconnect`.

Simplifications, all named in the module: one server per process; the goroutine
that `Serve` starts is scheduled at once; a signal is delivered when main waits
for one; `Close(conn)` after `GetClientConn` has no effect because the client
connection is lazy. `/proc/net/unix` shows all processes because the DaemonSet
runs with `hostNetwork` (`src/deployment/k8s/base/daemonset.yaml`). The early
returns of `Stop` and `Restart` for a missing grpc server are not steps:
`ServerWhenUnlocked`, proved, says they are never taken.

### SocketName

`SocketName` has three variables: the process that the name leads to (`owner`), the
one that is about to bind it (`claimant`), and those that have a socket (`serving`),
by that name or by none. A process claims the name, which may end its present use, and
takes it or gives up; apart from a claim, a process keeps the name until it stops
serving itself. In `ServerLifecycle` the owner is the process whose listening socket is
at the path (`Named`), the claimant the one between `Reclaim` and `Listen`
(`Claiming`), and `Serving` are those with a listening socket; `Only` picks the member
of a set that has at most one, which the inductive invariant gives. The property
`NamePassesByClaim` is this refinement. It is checked and proved for watch mode.
Without it a live socket loses its name in two more ways: a kubelet that restarts wipes
its directory, and there is the forced removal of `foreign_unlink`.

### DeviceSelection

A host is the sequence of its PCI devices, and the constant `Info` says what ghw,
sysfs, netlink and rdmamap would answer about each. `DiscoverHostDevices`,
`GetDevices` with `NewPciNetDevice`, the five selectors (one operator `Filter`
that is given the attribute to look at), `GetFilteredDevices` and
`getDevicesSpec` are translated one by one. `GetDevices` has two arguments, the
listed devices and the host as it is now: vendor and device id come from the
listing, everything else is read again, so a device may be put together from two
cards that followed each other in a slot. A loop that appends what it keeps is `Keep`, and a chain of filters keeps what
passes all of them. `FilesOf` is the rule of the user
documentation (`src/README.md:196-198`), written independently of the code: what
the files on offer should be on a given host.

Three assumptions say what hosts there are. `FilesAssumption`: for a device that can
be shared, rdmamap finds one uverbs file and the common `rdma_cm` for each of its RDMA
devices, and no other file twice. `HostsAssumption`: a PCI address is that of one device,
and two devices share no file but `rdma_cm`. `SelectorsAssumption`: a
selector record has the five selectors. The first two are facts of Linux, not of the
code, and `AllocateIsLatest` needs them: `devicesChanged` compares lengths and looks
the new files up among the old ones, so with files that are repeated at will it would
miss changes.

### InventoryView and DeviceInventory

`InventoryView` has three variables: what is offered, the lists that were sent and
not read yet, and what the kubelet read last. The offer changes, the current offer is
sent, the kubelet reads the list that was sent first, or the connection ends and takes
the unread lists with it. A list may have been replaced by the time it is read; what
the plugin promises is that it was on offer when it was sent and that no older list
follows a newer one.

`DeviceInventory` has the fields of the server (`pciDevices`, `deviceSpec`,
`devs`, of which only the length matters: the ids are 0 .. rdmaHcaMax-1), the
goroutine of the periodic update (`upd`, `arg`), the channel (`pending`) and a
set of stream handlers (`pc`, `resp`, `link`, `wire`). `rs.mutex` is a readers-writer
lock which a waiting writer closes to new readers: `UpdateDevices` waits until
no stream is in `Send`, and `BeginSend` waits while the writer wants the lock.
`Send` only hands a list to the transport: `EndSend` appends it to `wire[s]`, if fewer
than `Room` lists wait there, and releases the lock; the kubelet takes it in a step of
its own (`Receive`), at any later time or never. Where the transport has no room, `Send`
waits, with the lock held, until the kubelet reads or the connection ends.
`link[s]` tells an open connection from one that is lost without the handler
knowing (`lost`) and one whose handler will find out (`closed`). `Allocate` only
reads; its answer is the operator `AllocatedPaths`, and `Allocates` says when it has
one (`CreateContainerAnnotations` refuses a pool without devices). The `health` case of
`ListAndWatch` is left out, as nothing sends on that channel.

The `host` changes at any moment to any other of `Hosts`. A round of the periodic
update is `Discover` (the listing, `deviceList`), `SelectDevices` (the second look
and the selectors, `arg`), `UpdateDevices` (the critical section) and `Notify`.
Each of the two looks at the host is one step. A round in which ghw fails does
nothing and is no step. What `SelectDevices` can find is written as a table
(`Selection`) so that TLC computes it once.

The abstract `transit` is `Transit`, the `wire` of the one open connection. The kubelet
reads nothing from a connection that it has lost or closed.

### ConfigValidation and ResourceManager

`ResourceManager` is the process as `main.go` and `resources_manager.go` see
it. `main` and `index` are the place of the main goroutine and the server its
loop has reached; an iteration of `InitServers`, `StartAllServers`,
`RestartAllServers` or `StopAllServers` is a step, and the first error ends the
process as it does in the code (`ServerFails`, `CleanupFails`). `sigs` is the
signal channel, full with one. `upd` is the goroutine of `PeriodicUpdate`, which
receives the stop message only in its select. `stream[k]` is the handler of
`ListAndWatch` that serves the kubelet for pool `k`, `late` are handlers that
grpc's `Stop` cancelled without waiting for them, and `specs` the spec files in
the CDI directories, each with the devices it describes, which outlive the
process. A process that is down starts again with any configuration file, and
`InitServer` finds any part of the devices that the configuration selects
(`pciDevices`, which in CDI mode the server keeps for good).
`CreateContainerAnnotations` is the answer of `Allocate` in CDI mode; how the
kubelet merges it for a container with several pools (`MergedAnnotations`), and
that a runtime finds a device which exactly one spec describes (`Injectable`), is
modelled from how the comments and tests of `pkg/cdi` use them.

A server is up or down here. What that abstracts, that `Stop` ends and that a
`Restart` finds a server, is what `StopCompletes` and `ServerWhenUnlocked` say of
`ServerLifecycle`.

## 3. Runs

Passing runs:

| Run | Question | Bounds |
|---|---|---|
| `lifecycle_watch` | In watch mode, can a Stop unlink the socket of a replacement? Does the name pass between processes as `SocketName` says? Does the invariant of the proofs hold? | 2 processes, 2 inodes, all faults but `flock` |
| `lifecycle_register` | Without watch mode: do the lock, identity and shutdown protocols hold? Does a Stop have a Watch to talk to? Who can take the name of a live socket? | same |
| `lifecycle_stop` | Is the name free when a server binds? Does Stop always end? | 2 processes, 2 inodes, no faults, fair |
| `lifecycle_reregister` | Does Watch bring the registration back, whatever the kubelet does and with or without the flock? | 1 process, fair |
| `inventory` | Is a PCI device selected once? Is the inventory consistent, does `Allocate` use the devices selected last, does the offer follow the documented rule once discovery has seen the host, is every list on offer when it is sent? | 3 hosts of up to 9 devices, 2 streams, room for 1 unread list, connections lost unnoticed |
| `inventory_live` | Is no change lost? Are lists on offer when sent and read in order? What can stop discovery? On a host that stays, does the offer become what the documented rule selects, and does a kubelet that reads get it? | 2 hosts, 2 streams, room for 2 unread lists, CDI errors, fair |
| `manager` | Do pools keep their names apart? Do the CDI specs follow start-up, SIGHUP and crashes? Does a container with several pools get the devices of each? Does a termination signal end the process? | configurations of 0 to 2 pools, right and wrong, of the same and of different devices, periodic update on, off and invalid, all faults, fair |

Two processes are what a rolling update has, and every clause that relates
processes relates two of them. A process that binds has forgotten its own
inode, and another one holds or remembers at most one, so two inode numbers
always leave a fresh one. Every host of `inventory` has seven devices that miss the
pool by one thing each: the class, the driver, the link, a required RDMA file,
the link type, the first of two interface names, any interface name. The first three
come before the cards in the order of discovery, so a loop that gave up at the first
device that fails would miss the cards. Besides
them a host has a card, two cards, or a card of another vendor in the slot of
the first, where nothing matches; discovery that falls between two hosts yields one
more pool, as large as another one and with other files. One unread list is enough for a
`Send` that waits, two for lists to be read in the wrong order; the theorems are for
any room. All devices share the file `rdma_cm`.
For liveness two hosts are enough, one with a matching card and one with the
other vendor's, each behind a card without a driver: the pool empties and fills, and the mixed card has to go again.
Two streams are the kubelet's current one and
one it left behind; the theorems are for any number. Two pools are enough for a
loop to be between two servers and for two names to clash.

Counterexample runs, each about a sentence in the repository that the code does
not keep (quoted in `findings`):

| Run | What TLC finds |
|---|---|
| `foreign_unlink` | Without watch mode: Watch restarts a server, the restart fails and leaves no recorded owner; the next Stop takes "no owner" for permission and unlinks the socket that a replacement has bound meanwhile. |
| `own_socket_left` | Stop of a server the kubelet is connected to finds two rows of its path, its listener and the connection, and leaves its socket file behind. |
| `refused_server` | A server whose registration was refused is stopped, and nothing restarts it although the log says so. |
| `update_orphaned` | A stream whose connection is gone but whose context is not done takes the only notification, its `Send` succeeds, and the live stream does not report the change. |
| `allocate_cdi` | With CDI, `Allocate` still names the devices of start-up after discovery has changed the pool. |

### Fairness

`ServerLifecycle`: strong fairness of each goroutine's steps. A goroutine waits
only for `lifecycleMu`, for the flock, or for the other side of `stopWatcher`.
`sync.Mutex` hands itself to a waiter that has starved for a millisecond,
`flock(2)` queues its waiters, and a select whose channel is ready again and
again is taken, so a step that is enabled again and again happens. The handler
of `NotifyRegistrationStatus` waits for nothing: weak fairness. Nothing is
assumed of the kubelet, of signals or of faults. `Reregisters` asks for the
registration only where the kubelet stays up and the process is left alone, and
is checked with the flock as the only call that fails: after a failed
`GetClientConn`, `Remove` or capture a file may stay at the path, and Watch asks for no
more than a file.

`DeviceInventory`: weak fairness of the discovery goroutine (the ticker fires,
ghw answers in the end, the critical section and the notification are reached),
and strong fairness of streams, because `sync.RWMutex` starves neither side. A `Send`
returns where the transport has room or the connection has ended; nothing is assumed
of the kubelet, which may keep a connection and never read. Such a kubelet does
block discovery, and `DiscoveryWaitsOnlyForReaders` says that nothing else can:
either the goroutine is idle again and again, or from some time on a stream waits in
`Send` on a connection that is not closed. The other two have what they need as
hypotheses. `OfferConverges` asks for something where the host stays as it is and
discovery goes on, `ViewConverges` where the host stays and the kubelet stays connected
and reads what is sent.

`ResourceManager`: strong fairness of the main goroutine, as the stop message of
the periodic update competes with the ticker in a select, and weak fairness of
the update itself.

`CHECK_DEADLOCK` is left on everywhere.

## 4. Proofs

`ServerLifecycleProofs`, for any set of processes and inodes and any faults:

- `TypeCorrect`: `Spec => []TypeOK`.
- `Safety`: `Spec => []Inv`, if `"flock" \notin Faults`. The properties are not
  inductive by themselves. `OwnedRemovalIsSafe`, that a decision to unlink is
  still right when `os.Remove` runs, needs that whoever binds is inside the
  flock (`FlockGuardsPath`), that the inode found in `/proc/net/unix` is its
  own (`RecordedOwnerIsOwn`), and that a process which starts holds no socket.
  These need that `op` and `mu` agree, that a decision does not outlive the call that
  took it, and that a process has closed its own socket when it unlinks. The conjuncts of `Inv` are exactly these. `OwnedRemovals` and
  `FlockExcludes` are its corollaries.
- `OwnersAreOwn`: no process records the identity of another's socket, whatever
  fails, the flock included. Only `Listen` makes a socket or records one, with an
  inode that nobody has; every other step keeps sockets or forgets them
  (`NextForgets`).
- `NameIsFreeToBind`: where `os.Remove` works too, no other process binds the path
  between `cleanupLocked` and `net.Listen`. Reclaim makes the path free, it is the only
  way to a Listen (`ReclaimComesFirst`), and until then every other process is
  outside the flock and can only remove names.
- `NameIsForced`: in both modes, a live socket loses its name to another process only by
  a reclaim or by an unlink for which the other had no owner on record. This
  is the exact extent of what `foreign_unlink` finds: every other unlink follows a
  check that found no other socket.
- `ReplacementKeepsName`: in watch mode there is no such unlink, so
  `NameIsLostOnlyToReclaim` holds. The extra conjunct is `OwnershipRecorded`: no Stop
  ever runs with "no owner". Without watch mode that conjunct fails.
- `LifecycleRefinesName`: in watch mode `ServerLifecycle` implements `SocketName`. At
  most one process is named and at most one claims (`InvOne`), so the refinement
  mapping is well defined, and each step is a claim, a bind, a withdrawal, a departure
  of the process that takes it, or a stutter (`StepPassesName`, by `NameSteps`).
- `StopEndsWatch`, `StopIsReceived` and `ServerIsFound`: from the invariant `CallInv`,
  which holds whatever fails, the flock included. The grpc server is missing only inside
  a Start or Restart, a Watch that holds `lifecycleMu` is in `Restart`, main has
  left `lifecycleMu` when it waits for Watch, and no Stop starts a server.
  `StopIsReceived` is the safety half of `StopCompletes`: a Stop that sends on
  `stopWatcher` always has a receiver, and does not hold the `lifecycleMu` that the
  receiver may wait for.

`DeviceSelectionProofs`, for any `Info`, hosts and selectors:

- `SelectionFollowsRule`: on a host that is the same both times discovery looks, the
  code selects the files that `FilesOf` names. The devices that cannot be read, the order
  of the filters and the empty selectors make no difference.
- The lemmas behind it say what `Keep` and `FlattenSeq` return, for sequences of any
  length: the elements, each as often as before and in order (`KeepTakes`,
  `FlattenJoins`), and so their ranges and counts. The library's induction theorems
  cannot be used here, so induction is derived in a form that has a set in the place
  of a predicate (`InductiveSet`, from the well-foundedness of < on the natural numbers).

`DeviceInventoryProofs`, for any hosts, selectors, rdmaHcaMax and streams:

- `InventoryTypes` and `OfferMatchesSpec`: the inventory is always one that a pool of
  discovery gives, and devices are on offer exactly while there is a file to
  share, from `InventoryInv`.
- `PoolsHoldDevicesOnce`: the pool of a round holds no PCI address twice, whatever the
  host became between the two looks, because `Keep` and the second look preserve
  that a host has one device at an address.
- `AllocateIsLatest`: without CDI, `AllocatesLatest`. The heart is `NoChangeMissed`: if
  `devicesChanged` says no, the two lists have the same files. It is a counting argument.
  Each list has as many `rdma_cm` as uverbs files, and nothing but `rdma_cm` is
  repeated. The new uverbs files are among the old ones, so there are no more
  `rdma_cm` entries than before; the new files but `rdma_cm` are among the old ones
  too, and as the lists are equally long both must be all of them. With CDI the
  property fails (`allocate_cdi`).
- `OfferIsByTheRule`: from the same invariant (`SpecInv`) and `SelectionFollowsRule`,
  after a round that saw the present host both times the offer is that of the
  documented rule. It is the safety half of `OfferConverges`.
- `InventoryRefinesView`: `DeviceInventory` implements `InventoryView`, for any
  `Room`. The invariant is `ViewInv`: a response that is about to be sent equals `devs`,
  because the writer waits for the readers; nothing waits on the wire of a stream that
  has no call; and at most one connection is open, so that `Transit` is well defined
  (`TransitIs`). It says nothing about `devs` at the time a list is read: the lock is
  released by then.
- `UpdatesAreReported`: if no connection is lost unnoticed (`~Orphans`), a
  stream whose last list, read or not, is old will be told. Each step hands the duty to
  report on: discovery to the channel, the channel to a stream, a stream that
  fails back to the channel. `update_orphaned` shows the assumption is needed.

`ResourceManagerProofs`, for any configuration files, any number of pools, any
faults, with CDI and without:

- `TypeCorrect`, `PoolsStaySeparate` (names that `ValidateConfigs` told apart stay
  apart, and `newResourceServer` accepts what it accepted) and
  `UpdateEndsBeforeStop` are inductive, the last two with the types.
- `SpecsAreOwn` and `ContainersAreServed` follow from `SpecInv`: without CDI there
  are no specs, a process that does not serve yet has no handler that could write
  one, and a settled stream has the spec of its pool except between a clean-up and
  the restart of its server. That one pool's write does not disturb another's spec
  is where `PoolsAreSeparate` is needed; that a device has
  exactly one spec assumes that no two pools overlap (`~PoolsOverlap`).

Assumptions on constants are the named ASSUMEs of the modules (`NoneAssumption`,
`UnknownAssumption`, `ModeAssumption`, `FilesAssumption`, `HostsAssumption`,
`SelectorsAssumption`, `HcaMaxAssumption`, `RoomAssumption`, `SwitchesAssumption`, `PrefixAssumption`,
`ConfigListsAssumption`, `IntervalsAssumption`, `CdiAssumption`); TLC evaluates those of
a module in every run of it.

Only model-checked: liveness (`StopCompletes`, `Reregisters`,
`DiscoveryWaitsOnlyForReaders`, `OfferConverges`, `ViewConverges`, `TermIsServed`), which the
prover does not support. Every invariant, action property and refinement that a
passing run checks is a theorem. Where a theorem has a hypothesis, a run shows what
happens without it: `foreign_unlink` (watch mode), `update_orphaned` (connections that
are lost unnoticed), `allocate_cdi` (CDI). `"flock" \notin Faults` and
`"remove" \notin Faults` are the limits of the protocol itself: the code goes on
unlocked where `flock` fails, and a file that cannot be removed keeps the name
taken.

## 5. Not modelled, and the plan

Done: the lifecycle with the socket directory and the inventory, with proofs;
the resource manager, the validation of configurations, CDI specs and
annotations, with proofs; discovery and selection on a host that changes, with
proofs; the abstract `SocketName`, implemented by `ServerLifecycle`, with a proof.
What the plan has left is the delay of the goroutine started by `Serve`, which reads
the grpc server only when it runs, with the window that opens for a grpc server
stopped before it serves.

Not modelled, and why:

- Two processes that clean up the CDI directories. Nothing in the code keeps them
  apart (`CleanupSpecs` removes every spec of the kind), so there is no promise to
  check; it is listed as a hazard. That a shutdown leaves no spec is not a
  property of the code either: `StopAllServers` cleans up before it stops the
  servers, and a stream may write again (`LateCDISpec`); the next start removes it.
- Pools that select the same device in CDI mode. The validation lets them, and
  what a runtime makes of two specs for one device is outside this code;
  `ContainersGetTheirDevices` asks only for the annotations there.
- The JSON of `ReadConfig`; `LinkSetUp` in `InitServers`, whose result is only
  logged; the reads of sysfs and netlink, represented by the constants they
  yield; the reads of one device are one step, not one each.
- Generated mocks and test support, manifests and images.

`src/README.md` asks for resource names that are unique within a prefix, while
`ValidateConfigs` rejects equal names under different prefixes too. The code is
right to: socket and CDI spec leave the prefix out (`PoolsAreSeparate`).
