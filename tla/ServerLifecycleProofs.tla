------------------------ MODULE ServerLifecycleProofs ------------------------
(***************************************************************************)
(* Proofs about ServerLifecycle, for any number of processes and inodes.   *)
(***************************************************************************)
EXTENDS ServerLifecycle, TLAPS

-----------------------------------------------------------------------------
(* Type correctness.                                                       *)

\* The variables keep their types from the initial state on.
LEMMA InitType == Init => TypeOK
BY DEF Init, DirInit, TypeOK, DirTypeOK, MainStates, Ops

\* The end of a process, by itself or by the end of a call, keeps the types.
LEMMA ExitType ==
    ASSUME TypeOK, NEW i \in Instances, NEW file \in Inodes \cup {None, Stale},
           Exit(i, file)
    PROVE  TypeOK'
BY DEF TypeOK, DirTypeOK, MainStates, Ops, Exit, CloseSockets, AfterClose, Unlock, Goto

LEMMA EndType ==
    ASSUME TypeOK, NEW i \in Instances, NEW file \in Inodes \cup {None, Stale},
           End(i, file)
    PROVE  TypeOK'
<1>1. CASE Exit(i, file)
  BY <1>1, ExitType
<1>2. CASE ~Exit(i, file)
  BY <1>2 DEF TypeOK, DirTypeOK, MainStates, Ops, End, Unlock, Goto
<1> QED BY <1>1, <1>2

\* Every step keeps the types.
LEMMA NextType == TypeOK /\ [Next]_vars => TypeOK'
<1> SUFFICES ASSUME TypeOK, [Next]_vars PROVE TypeOK'
  OBVIOUS
<1> USE DEF TypeOK, DirTypeOK, MainStates, Ops, Goto
<1>1. ASSUME NEW i \in Instances, StartLocked(i) PROVE TypeOK'
  <2>1. CASE LockSocketPath(i, "flock", "reclaim")
    BY <2>1 DEF LockSocketPath
  <2>2. CASE Reclaim(i)
    BY <2>2 DEF Reclaim, cleanupLocked, clearSocketOwnershipLocked
  <2>3. ASSUME NEW n \in Inodes, Listen(i, n) PROVE TypeOK'
    BY <2>3 DEF Listen, recordSocketIDLocked, Bind, Unlock
  <2>4. CASE ListenFails(i)
    BY <2>4, EndType DEF ListenFails
  <2>5. CASE Serve(i)
    BY <2>5 DEF Serve, CloseSockets, AfterClose
  <2>6. CASE GetClientConn(i)
    BY <2>6 DEF GetClientConn, dirVars, Return
  <2>7. CASE GetClientConnFails(i)
    BY <2>7, EndType DEF GetClientConnFails
  <2>8. CASE Register(i)
    BY <2>8 DEF Register, Return
  <2>9. CASE RegisterFails(i)
    BY <2>9 DEF RegisterFails, dirVars
  <2> QED
    BY <1>1, <2>1, <2>2, <2>3, <2>4, <2>5, <2>6, <2>7, <2>8, <2>9 DEF StartLocked
<1>2. ASSUME NEW i \in Instances, StopAndRemove(i) PROVE TypeOK'
  <2>1. CASE LockSocketPath(i, "stopFlock", "check")
    BY <2>1 DEF LockSocketPath
  <2>2. CASE CheckOwner(i)
    BY <2>2 DEF CheckOwner, clearSocketOwnershipLocked, Removals, dirVars
  <2>3. CASE StopServer(i)
    BY <2>3 DEF StopServer, CloseSockets, AfterClose
  <2>4. CASE Unlink(i)
    BY <2>4, EndType DEF Unlink
  <2> QED BY <1>2, <2>1, <2>2, <2>3, <2>4 DEF StopAndRemove
<1>3. ASSUME NEW i \in Instances, NEW t \in {"main", "watch"}, Restart(i, t)
      PROVE  TypeOK'
  BY <1>3 DEF Restart, CloseSockets, AfterClose
<1>4. ASSUME NEW i \in Instances,
             StopBegins(i) \/ WatchStops(i) \/ StopLocks(i) \/ WatchPolls(i)
      PROVE  TypeOK'
  <2>1. CASE StopBegins(i)
    BY <2>1 DEF StopBegins, dirVars
  <2>2. CASE WatchStops(i)
    BY <2>2 DEF WatchStops, dirVars
  <2>3. CASE StopLocks(i)
    BY <2>3 DEF StopLocks, dirVars
  <2>4. CASE WatchPolls(i)
    BY <2>4 DEF WatchPolls, dirVars
  <2> QED BY <1>4, <2>1, <2>2, <2>3, <2>4
<1>5. ASSUME NEW i \in Instances, NotifyStops(i) PROVE TypeOK'
  <2>1. CASE Exit(i, path)
    BY <2>1, ExitType
  <2>2. CASE ~Exit(i, path)
    <3>1. /\ path' \in Inodes \cup {None, Stale}
          /\ listener' \in [Instances -> Inodes \cup {None}]
          /\ conn' \in SUBSET Instances
      BY <1>5, <2>2 DEF NotifyStops, CloseSockets, AfterClose
    <3>2. notify' \in [Instances -> BOOLEAN]
      BY <1>5, <2>2, Zenon DEF NotifyStops
    <3>3. server' \in [Instances -> {"nil", "live", "stopped"}]
      BY <1>5, <2>2 DEF NotifyStops
    <3>4. UNCHANGED <<flock, kubelet, main, watcher, mu, op, socketOwner, removal>>
      BY <1>5, <2>2 DEF NotifyStops
    <3> QED BY <3>1, <3>2, <3>3, <3>4
  <2> QED BY <2>1, <2>2
<1>6. ASSUME NEW i \in Instances, Environment(i) PROVE TypeOK'
  <2>1. CASE Crash(i)
    BY <2>1, ExitType DEF Crash
  <2>2. CASE NotifyRegistrationFailed(i)
    <3>1. notify' \in [Instances -> BOOLEAN]
      BY <2>2, Zenon DEF NotifyRegistrationFailed
    <3> QED BY <2>2, <3>1 DEF NotifyRegistrationFailed, dirVars
  <2>3. CASE Boot(i)
    BY <2>3 DEF Boot, dirVars
  <2>4. ASSUME NEW s \in {"hup", "term"}, Signal(i, s) PROVE TypeOK'
    BY <2>4 DEF Signal, dirVars
  <2>5. CASE KubeletConnects(i) \/ KubeletDisconnects(i)
    BY <2>5 DEF KubeletConnects, KubeletDisconnects, procVars
  <2> QED BY <1>6, <2>1, <2>2, <2>3, <2>4, <2>5 DEF Environment
<1>7. CASE KubeletStops \/ KubeletStarts \/ KubeletServes
  BY <1>7 DEF KubeletStops, KubeletStarts, KubeletServes, dirVars, procVars
<1>8. CASE UNCHANGED vars
  BY <1>8 DEF vars, dirVars, procVars
<1> QED
  BY <1>1, <1>2, <1>3, <1>4, <1>5, <1>6, <1>7, <1>8 DEF Next, Main, Watch, Call

\* TypeOK is an invariant of the lifecycle in both modes, with every fault.
THEOREM TypeCorrect == Spec => []TypeOK
BY InitType, NextType, PTL DEF Spec

-----------------------------------------------------------------------------
(* The safety invariant.                                                   *)

\* Inv holds before any process is up.
LEMMA InitInv == Init => Inv
BY InitType, NoneAssumption
DEF Init, DirInit, Inv, FlockGuardsPath, Critical, RecordedOwnerIsOwn,
    OwnedRemovalIsSafe, OwnershipRecorded

\* A process that ends releases the flock, the mutex and its sockets at once.
LEMMA ExitInv ==
    ASSUME Inv, NEW i \in Instances, NEW file \in Inodes \cup {None, Stale},
           Exit(i, file)
    PROVE  Inv'
<1> USE DEF Inv, TypeOK, DirTypeOK, Exit, Goto
<1>1. TypeOK'
  BY ExitType
<1>2. FlockGuardsPath'
  BY NoneAssumption DEF Unlock, FlockGuardsPath, Critical
<1>3. RecordedOwnerIsOwn'
  BY NoneAssumption DEF CloseSockets, RecordedOwnerIsOwn
<1>4. OwnedRemovalIsSafe'
  BY DEF CloseSockets, OwnedRemovalIsSafe, Others
<1>5. /\ \A j \in Instances : op'[j] = "idle" <=> mu'[j] = "free"
      /\ \A j \in Instances : main'[j] = "down" => op'[j] = "idle" /\ watcher'[j] = "off"
      /\ \A j \in Instances :
             \/ main'[j] = "down"
             \/ op'[j] \in {"flock", "reclaim", "listen", "unlink"}
             => listener'[j] = None
      /\ \A j \in Instances : removal'[j] # "keep" => op'[j] \in {"close", "unlink"}
  BY DEF CloseSockets
<1>6. (WatchMode => OwnershipRecorded)'
  BY DEF OwnershipRecorded
<1> QED BY <1>1, <1>2, <1>3, <1>4, <1>5, <1>6

\* So does a call that ends: in watch mode it is the end of the process.
LEMMA EndInv ==
    ASSUME Inv, NEW i \in Instances, NEW file \in Inodes \cup {None, Stale},
           End(i, file)
    PROVE  Inv'
<1>1. CASE Exit(i, file)
  BY <1>1, ExitInv
<1>2. CASE ~Exit(i, file)
  <2> USE <1>2 DEF Inv, TypeOK, DirTypeOK, End, Goto
  <2>1. TypeOK'
    BY EndType
  <2>2. FlockGuardsPath'
    BY NoneAssumption DEF Unlock, FlockGuardsPath, Critical
  <2>3. RecordedOwnerIsOwn'
    BY DEF RecordedOwnerIsOwn
  <2>4. OwnedRemovalIsSafe'
    BY DEF OwnedRemovalIsSafe, Others
  <2>5. /\ \A j \in Instances : op'[j] = "idle" <=> mu'[j] = "free"
        /\ \A j \in Instances : main'[j] = "down" => op'[j] = "idle" /\ watcher'[j] = "off"
        /\ \A j \in Instances :
               \/ main'[j] = "down"
               \/ op'[j] \in {"flock", "reclaim", "listen", "unlink"}
               => listener'[j] = None
        /\ \A j \in Instances : removal'[j] # "keep" => op'[j] \in {"close", "unlink"}
    OBVIOUS
  <2>6. ~WatchMode
    BY DEF OwnershipRecorded
  <2> QED BY <2>1, <2>2, <2>3, <2>4, <2>5, <2>6
<1> QED BY <1>1, <1>2

\* Every step keeps Inv where the flock can be taken.
LEMMA NextInv ==
    ASSUME "flock" \notin Faults, Inv, [Next]_vars
    PROVE  Inv'
<1> USE NoneAssumption, UnknownAssumption
    DEF Inv, TypeOK, DirTypeOK, FlockGuardsPath, Critical, RecordedOwnerIsOwn,
        OwnedRemovalIsSafe, Others, OwnershipRecorded, Goto
<1>0. TypeOK'
  BY NextType DEF Inv
<1>1. ASSUME NEW i \in Instances, StartLocked(i) PROVE Inv'
  <2>1. CASE LockSocketPath(i, "flock", "reclaim")
    BY <1>0, <2>1 DEF LockSocketPath, May
  <2>2. CASE Reclaim(i)
    BY <1>0, <2>2 DEF Reclaim, cleanupLocked, clearSocketOwnershipLocked
  <2>3. ASSUME NEW n \in Inodes, Listen(i, n) PROVE Inv'
    BY <1>0, <2>3 DEF Listen, recordSocketIDLocked, Bind, Unlock, Fresh
  <2>4. CASE ListenFails(i)
    BY <2>4, EndInv DEF ListenFails
  <2>5. CASE Serve(i)
    BY <1>0, <2>5 DEF Serve, CloseSockets
  <2>6. CASE GetClientConn(i)
    <3>1. CASE WatchMode
      BY <1>0, <2>6, <3>1 DEF GetClientConn, dirVars, Return
    <3>2. CASE ~WatchMode
      BY <1>0, <2>6, <3>2 DEF GetClientConn, dirVars
    <3> QED BY <3>1, <3>2
  <2>7. CASE GetClientConnFails(i)
    BY <2>7, EndInv DEF GetClientConnFails
  <2>8. CASE Register(i)
    BY <1>0, <2>8 DEF Register, Return
  <2>9. CASE RegisterFails(i)
    BY <1>0, <2>9 DEF RegisterFails, dirVars
  <2> QED
    BY <1>1, <2>1, <2>2, <2>3, <2>4, <2>5, <2>6, <2>7, <2>8, <2>9 DEF StartLocked
<1>2. ASSUME NEW i \in Instances, StopAndRemove(i) PROVE Inv'
  <2>1. CASE LockSocketPath(i, "stopFlock", "check")
    BY <1>0, <2>1 DEF LockSocketPath, May
  <2>2. CASE CheckOwner(i)
    <3>1. PICK r \in Removals(i) : removal' = [removal EXCEPT ![i] = r]
      BY <2>2 DEF CheckOwner, clearSocketOwnershipLocked
    <3>2. ASSUME r = "owned", NEW j \in Others(i) PROVE listener[j] = None
      <4>1. Bound = {socketOwner[i]}
        BY <3>1, <3>2 DEF Removals, socketPathOwnedSolelyBy
      <4> QED BY <4>1 DEF Bound
    <3>3. WatchMode => r # "force"
      BY <2>2, <3>1 DEF Removals, CheckOwner, clearSocketOwnershipLocked
    <3> QED BY <1>0, <2>2, <3>1, <3>2, <3>3 DEF CheckOwner, clearSocketOwnershipLocked, dirVars
  <2>3. CASE StopServer(i)
    BY <1>0, <2>3 DEF StopServer, CloseSockets
  <2>4. CASE Unlink(i)
    BY <2>4, EndInv DEF Unlink
  <2> QED BY <1>2, <2>1, <2>2, <2>3, <2>4 DEF StopAndRemove
<1>3. ASSUME NEW i \in Instances, NEW t \in {"main", "watch"}, Restart(i, t)
      PROVE  Inv'
  BY <1>0, <1>3 DEF Restart, WantsRestart, CloseSockets
<1>4. ASSUME NEW i \in Instances,
             StopBegins(i) \/ WatchStops(i) \/ WatchPolls(i) \/ StopLocks(i)
      PROVE  Inv'
  <2>1. CASE StopBegins(i)
    BY <1>0, <2>1 DEF StopBegins, dirVars
  <2>2. CASE WatchStops(i)
    BY <1>0, <2>2 DEF WatchStops, dirVars
  <2>3. CASE WatchPolls(i)
    BY <1>0, <2>3 DEF WatchPolls, dirVars
  <2>4. CASE StopLocks(i)
    BY <1>0, <2>4 DEF StopLocks, dirVars
  <2> QED BY <1>4, <2>1, <2>2, <2>3, <2>4
<1>5. ASSUME NEW i \in Instances, NotifyStops(i) PROVE Inv'
  <2>1. CASE Exit(i, path)
    BY <2>1, ExitInv
  <2>2. CASE ~Exit(i, path)
    BY <1>0, <1>5, <2>2 DEF NotifyStops, CloseSockets
  <2> QED BY <2>1, <2>2
<1>6. ASSUME NEW i \in Instances, Environment(i) PROVE Inv'
  <2>1. CASE Crash(i)
    BY <2>1, ExitInv DEF Crash
  <2>2. CASE Boot(i)
    BY <1>0, <2>2 DEF Boot, dirVars
  <2>3. ASSUME NEW s \in {"hup", "term"}, Signal(i, s) PROVE Inv'
    BY <1>0, <2>3 DEF Signal, dirVars
  <2>4. CASE NotifyRegistrationFailed(i) \/ KubeletConnects(i) \/ KubeletDisconnects(i)
    BY <1>0, <2>4
    DEF NotifyRegistrationFailed, KubeletConnects, KubeletDisconnects, dirVars, procVars
  <2> QED BY <1>6, <2>1, <2>2, <2>3, <2>4 DEF Environment
<1>7. CASE KubeletStops \/ KubeletStarts \/ KubeletServes
  BY <1>0, <1>7 DEF KubeletStops, KubeletStarts, KubeletServes, dirVars, procVars
<1>8. CASE UNCHANGED vars
  BY <1>0, <1>8 DEF vars, dirVars, procVars
<1> QED
  BY <1>1, <1>2, <1>3, <1>4, <1>5, <1>6, <1>7, <1>8 DEF Next, Main, Watch, Call

\* Inv is an invariant in both modes and with every other fault.
THEOREM Safety ==
    ASSUME "flock" \notin Faults
    PROVE  Spec => []Inv
BY InitInv, NextInv, PTL DEF Spec

\* stopAndRemoveOwnedSocketLocked: between the ownership check and os.Remove no
\* other process acquires a socket, so "owned" is still true at the unlink.
THEOREM OwnedRemovals ==
    ASSUME "flock" \notin Faults
    PROVE  Spec => []OwnedRemovalIsSafe
<1>1. Inv => OwnedRemovalIsSafe
  BY DEF Inv
<1> QED BY <1>1, Safety, PTL

\* lockSocketPath: "check + unlink" and "reclaim + bind" exclude each other
\* across processes.
THEOREM FlockExcludes ==
    ASSUME "flock" \notin Faults
    PROVE  Spec => []FlockGuardsPath
<1>1. Inv => FlockGuardsPath
  BY DEF Inv
<1> QED BY <1>1, Safety, PTL

-----------------------------------------------------------------------------
(* The recorded identities, also where the flock cannot be taken.          *)

\* Only Listen makes a socket, records one or binds a free name; every other step
\* leaves them alone or forgets them.
SocketsForgotten ==
    /\ \A j \in Instances :
           /\ listener'[j] \in {listener[j], None}
           /\ socketOwner'[j] \in {socketOwner[j], None}
    /\ path = None => path' = None

\* The end of a process or of a call forgets sockets.
LEMMA EndForgets ==
    ASSUME TypeOK, NEW i \in Instances, NEW file \in {path, None},
           Exit(i, file) \/ End(i, file)
    PROVE  SocketsForgotten
BY DEF TypeOK, DirTypeOK, SocketsForgotten, Exit, End, CloseSockets, AfterClose

\* Every step but Listen forgets sockets or keeps them.
LEMMA NextForgets ==
    ASSUME TypeOK, [Next]_vars,
           ~ \E i \in Instances, n \in Inodes : Listen(i, n)
    PROVE  SocketsForgotten
<1> USE DEF TypeOK, DirTypeOK, SocketsForgotten
<1>1. ASSUME NEW i \in Instances, StartLocked(i) PROVE SocketsForgotten
  <2>1. CASE LockSocketPath(i, "flock", "reclaim")
    BY <2>1 DEF LockSocketPath
  <2>2. CASE Reclaim(i)
    BY <2>2 DEF Reclaim, cleanupLocked, clearSocketOwnershipLocked
  <2>3. CASE ListenFails(i) \/ GetClientConnFails(i)
    BY <2>3, EndForgets DEF ListenFails, GetClientConnFails
  <2>4. CASE Serve(i)
    BY <2>4 DEF Serve, CloseSockets, AfterClose
  <2>5. CASE GetClientConn(i) \/ Register(i) \/ RegisterFails(i)
    BY <2>5 DEF GetClientConn, Register, RegisterFails, dirVars
  <2> QED BY <1>1, <2>1, <2>2, <2>3, <2>4, <2>5 DEF StartLocked
<1>2. ASSUME NEW i \in Instances, StopAndRemove(i) PROVE SocketsForgotten
  <2>1. CASE LockSocketPath(i, "stopFlock", "check")
    BY <2>1 DEF LockSocketPath
  <2>2. CASE CheckOwner(i)
    BY <2>2 DEF CheckOwner, clearSocketOwnershipLocked, dirVars
  <2>3. CASE StopServer(i)
    BY <2>3 DEF StopServer, CloseSockets, AfterClose
  <2>4. CASE Unlink(i)
    BY <2>4, EndForgets DEF Unlink
  <2> QED BY <1>2, <2>1, <2>2, <2>3, <2>4 DEF StopAndRemove
<1>3. ASSUME NEW i \in Instances, NEW t \in {"main", "watch"}, Restart(i, t)
      PROVE  SocketsForgotten
  BY <1>3 DEF Restart, CloseSockets, AfterClose
<1>4. ASSUME NEW i \in Instances,
             StopBegins(i) \/ WatchStops(i) \/ WatchPolls(i) \/ StopLocks(i)
      PROVE  SocketsForgotten
  BY <1>4 DEF StopBegins, WatchStops, WatchPolls, StopLocks, dirVars
<1>5. ASSUME NEW i \in Instances, NotifyStops(i) PROVE SocketsForgotten
  BY <1>5, EndForgets DEF NotifyStops, CloseSockets, AfterClose
<1>6. ASSUME NEW i \in Instances, Environment(i) PROVE SocketsForgotten
  BY <1>6, EndForgets
  DEF Environment, Crash, Boot, Signal, NotifyRegistrationFailed, KubeletConnects,
      KubeletDisconnects, dirVars, procVars
<1>7. CASE KubeletStops \/ KubeletStarts \/ KubeletServes
  BY <1>7 DEF KubeletStops, KubeletStarts, KubeletServes, dirVars, procVars
<1>8. CASE UNCHANGED vars
  BY <1>8 DEF vars, dirVars, procVars
<1> QED
  BY <1>1, <1>2, <1>3, <1>4, <1>5, <1>6, <1>7, <1>8
  DEF Next, Main, Watch, Call, StartLocked

\* A new socket has an inode that nobody has recorded.
LEMMA NextOwn == TypeOK /\ RecordedOwnerIsOwn /\ [Next]_vars => RecordedOwnerIsOwn'
<1> SUFFICES ASSUME TypeOK, RecordedOwnerIsOwn, [Next]_vars
             PROVE  RecordedOwnerIsOwn'
  OBVIOUS
<1> USE NoneAssumption, UnknownAssumption DEF RecordedOwnerIsOwn
<1>1. ASSUME NEW i \in Instances, NEW n \in Inodes, Listen(i, n)
      PROVE  RecordedOwnerIsOwn'
  BY <1>1 DEF TypeOK, DirTypeOK, Listen, Bind, recordSocketIDLocked, Fresh
<1>2. CASE SocketsForgotten
  BY <1>2 DEF SocketsForgotten
<1> QED BY <1>1, <1>2, NextForgets

\* recordSocketIDLocked: no process ever holds the identity of another's socket,
\* whatever fails, the flock included.
THEOREM OwnersAreOwn == Spec => []RecordedOwnerIsOwn
<1>1. Init => RecordedOwnerIsOwn
  BY DEF Init, DirInit, RecordedOwnerIsOwn
<1>2. TypeOK /\ RecordedOwnerIsOwn /\ [Next]_vars => RecordedOwnerIsOwn'
  BY NextOwn
<1> QED BY <1>1, <1>2, TypeCorrect, PTL DEF Spec

-----------------------------------------------------------------------------
(* The free name.                                                          *)

\* Only a Reclaim leads to Listen.
LEMMA ReclaimComesFirst ==
    ASSUME TypeOK, [Next]_vars, NEW i \in Instances, op'[i] = "listen", op[i] # "listen"
    PROVE  Reclaim(i)
<1> USE DEF TypeOK, Goto
<1>1. ASSUME NEW j \in Instances, StartLocked(j) PROVE Reclaim(i)
  BY <1>1
  DEF StartLocked, LockSocketPath, Reclaim, Listen, ListenFails, Serve, GetClientConn,
      GetClientConnFails, Register, RegisterFails, Return, End, Exit
<1>2. ASSUME NEW j \in Instances, StopAndRemove(j) PROVE FALSE
  BY <1>2 DEF StopAndRemove, LockSocketPath, CheckOwner, StopServer, Unlink, End, Exit
<1>3. ASSUME NEW j \in Instances, NEW t \in {"main", "watch"}, Restart(j, t) PROVE FALSE
  BY <1>3 DEF Restart
<1>4. ASSUME NEW j \in Instances,
             \/ StopBegins(j) \/ WatchStops(j) \/ WatchPolls(j) \/ StopLocks(j)
             \/ NotifyStops(j) \/ Environment(j)
      PROVE  FALSE
  BY <1>4
  DEF StopBegins, WatchStops, WatchPolls, StopLocks, NotifyStops, Environment, Crash, Boot,
      Signal, NotifyRegistrationFailed, KubeletConnects, KubeletDisconnects, Exit, procVars
<1>5. CASE KubeletStops \/ KubeletStarts \/ KubeletServes
  BY <1>5 DEF KubeletStops, KubeletStarts, KubeletServes, procVars
<1>6. CASE UNCHANGED vars
  BY <1>6 DEF vars, procVars
<1> QED BY <1>1, <1>2, <1>3, <1>4, <1>5, <1>6 DEF Next, Main, Watch, Call

\* Every step keeps the name free for the one process that is about to bind it.
LEMMA NextFree ==
    ASSUME "flock" \notin Faults, "remove" \notin Faults,
           Inv, BindFindsFreeName, [Next]_vars
    PROVE  BindFindsFreeName'
<1> SUFFICES ASSUME NEW i \in Instances, op'[i] = "listen" PROVE path' = None
  BY DEF BindFindsFreeName
<1>1. CASE op[i] # "listen"
  BY <1>1, ReclaimComesFirst DEF Inv, Reclaim, cleanupLocked, May
<1>2. CASE op[i] = "listen"
  <2>1. ASSUME NEW j \in Instances, NEW n \in Inodes, Listen(j, n) PROVE FALSE
    <3>1. i = j
      BY <1>2, <2>1 DEF Inv, FlockGuardsPath, Critical, Listen
    <3> QED BY <2>1, <3>1 DEF Inv, TypeOK, Listen, Goto
  <2>2. SocketsForgotten
    BY <2>1, NextForgets DEF Inv
  <2> QED BY <1>2, <2>2 DEF SocketsForgotten, BindFindsFreeName
<1> QED BY <1>1, <1>2

\* Start, Restart: between cleanupLocked and net.Listen no other process binds the
\* path, so "address already in use" cannot come from a sibling, where os.Remove
\* works and the flock can be taken.
THEOREM NameIsFreeToBind ==
    ASSUME "flock" \notin Faults, "remove" \notin Faults
    PROVE  Spec => []BindFindsFreeName
<1>1. Init => BindFindsFreeName
  BY DEF Init, BindFindsFreeName
<1>2. Inv /\ BindFindsFreeName /\ [Next]_vars => BindFindsFreeName'
  BY NextFree
<1> QED BY <1>1, <1>2, Safety, PTL DEF Spec

-----------------------------------------------------------------------------
(* Who may take the name of a live socket.                                 *)

NameKept ==
    \A j \in Instances :
        listener[j] # None /\ path = listener[j] /\ path' # path =>
            \/ listener'[j] = None
            \/ kubelet' # kubelet
            \/ \E i \in Others(j) :
                   \/ op[i] = "reclaim" /\ op'[i] = "listen"
                   \/ op[i] = "unlink" /\ removal[i] = "force"

\* A process that closes its sockets spares the name of every other one:
\* SetUnlinkOnClose(false) leaves the file, and no two sockets share an inode.
LEMMA CloseKeepsName ==
    ASSUME Inv, NEW i \in Instances, CloseSockets(i, path)
    PROVE  NameKept
<1> SUFFICES ASSUME NEW j \in Instances,
                    listener[j] # None, path = listener[j], path' # path
             PROVE  listener'[j] = None
  BY DEF NameKept
<1>1. CASE i = j
  BY <1>1 DEF Inv, TypeOK, DirTypeOK, CloseSockets
<1>2. CASE i # j
  BY <1>2 DEF Inv, RecordedOwnerIsOwn, CloseSockets, AfterClose
<1> QED BY <1>1, <1>2

\* A step from a state of Inv takes the name of a live socket only to reclaim
\* it, or by a forced removal: any other unlink by Stop follows a check that found
\* no other socket.
LEMMA NextKeepsName ==
    ASSUME Inv, [Next]_vars
    PROVE  NameKept
<1> USE DEF Inv, TypeOK, DirTypeOK
<1>1. ASSUME NEW i \in Instances, StartLocked(i) PROVE NameKept
  <2>1. CASE Reclaim(i)
    BY <2>1 DEF Reclaim, cleanupLocked, clearSocketOwnershipLocked, Goto, NameKept, Others
  <2>2. ASSUME NEW n \in Inodes, Listen(i, n) PROVE NameKept
    BY <2>2 DEF Listen, recordSocketIDLocked, Bind, NameKept
  <2>3. CASE Serve(i)
    BY <2>3, CloseKeepsName DEF Serve, NameKept
  <2>4. CASE ListenFails(i) \/ GetClientConnFails(i)
    BY <2>4, CloseKeepsName DEF ListenFails, GetClientConnFails, End, Exit, NameKept
  <2>5. CASE \/ LockSocketPath(i, "flock", "reclaim")
             \/ GetClientConn(i) \/ Register(i) \/ RegisterFails(i)
    BY <2>5
    DEF LockSocketPath, GetClientConn, Register, RegisterFails, dirVars, NameKept
  <2> QED BY <1>1, <2>1, <2>2, <2>3, <2>4, <2>5 DEF StartLocked
<1>2. ASSUME NEW i \in Instances, StopAndRemove(i) PROVE NameKept
  <2>1. CASE Unlink(i)
    <3>1. CASE End(i, path)
      BY <3>1, CloseKeepsName DEF End, Exit, NameKept
    <3>2. CASE removal[i] = "owned" /\ End(i, None)
      <4>1. \A j \in Others(i) : listener[j] = None
        BY <3>2 DEF OwnedRemovalIsSafe
      <4>2. listener[i] = None
        BY <2>1 DEF Unlink
      <4> QED BY <4>1, <4>2 DEF NameKept, Others
    <3>3. CASE removal[i] = "force" /\ End(i, None)
      <4>1. op[i] = "unlink" /\ listener[i] = None
        BY <2>1 DEF Unlink
      <4> QED BY <3>3, <4>1 DEF NameKept, Others
    <3> QED BY <2>1, <3>1, <3>2, <3>3 DEF Unlink
  <2>2. CASE StopServer(i)
    BY <2>2, CloseKeepsName DEF StopServer
  <2>3. CASE LockSocketPath(i, "stopFlock", "check") \/ CheckOwner(i)
    BY <2>3 DEF LockSocketPath, CheckOwner, clearSocketOwnershipLocked, dirVars, NameKept
  <2> QED BY <1>2, <2>1, <2>2, <2>3 DEF StopAndRemove
<1>3. ASSUME NEW i \in Instances, NEW t \in {"main", "watch"}, Restart(i, t)
      PROVE  NameKept
  BY <1>3, CloseKeepsName DEF Restart
<1>4. ASSUME NEW i \in Instances,
             StopBegins(i) \/ WatchStops(i) \/ WatchPolls(i) \/ StopLocks(i)
      PROVE  NameKept
  BY <1>4 DEF StopBegins, WatchStops, WatchPolls, StopLocks, dirVars, NameKept
<1>5. ASSUME NEW i \in Instances, NotifyStops(i) PROVE NameKept
  BY <1>5, CloseKeepsName DEF NotifyStops, Exit, NameKept
<1>6. ASSUME NEW i \in Instances, Environment(i) PROVE NameKept
  BY <1>6, CloseKeepsName
  DEF Environment, Crash, Exit, Boot, Signal, NotifyRegistrationFailed, KubeletConnects,
      KubeletDisconnects, dirVars, procVars, NameKept
<1>7. CASE KubeletStops \/ KubeletStarts \/ KubeletServes
  BY <1>7 DEF KubeletStops, KubeletStarts, KubeletServes, dirVars, NameKept
<1>8. CASE UNCHANGED vars
  BY <1>8 DEF vars, dirVars, NameKept
<1> QED
  BY <1>1, <1>2, <1>3, <1>4, <1>5, <1>6, <1>7, <1>8 DEF Next, Main, Watch, Call

\* In both modes a live socket loses its name to an unlink by another process only
\* where that process has no owner on record.
THEOREM NameIsForced ==
    ASSUME "flock" \notin Faults
    PROVE  Spec => NameIsLostToReclaimOrForce
<1>1. Inv /\ [Next]_vars => [NameKept]_vars
  BY NextKeepsName
<1>2. Spec => [][NameKept]_vars
  BY <1>1, Safety, PTL DEF Spec
<1> QED BY <1>2 DEF NameIsLostToReclaimOrForce, NameKept

\* In watch mode a live socket never loses its name to the Stop of another
\* process: there is always an owner on record, and os.Remove spares the socket of
\* a replacement.
THEOREM ReplacementKeepsName ==
    ASSUME "flock" \notin Faults, WatchMode
    PROVE  Spec => NameIsLostOnlyToReclaim
<1> DEFINE Kept == \A j \in Instances :
                       listener[j] # None /\ path = listener[j] /\ path' # path =>
                           \/ listener'[j] = None
                           \/ kubelet' # kubelet
                           \/ \E i \in Others(j) : op[i] = "reclaim" /\ op'[i] = "listen"
<1>1. Inv /\ [Next]_vars => [Kept]_vars
  <2>1. Inv => \A i \in Instances : removal[i] # "force"
    BY DEF Inv, OwnershipRecorded
  <2> QED BY <2>1, NextKeepsName DEF NameKept, Others
<1>2. Spec => [][Kept]_vars
  <2> HIDE DEF Kept
  <2> QED BY <1>1, Safety, PTL DEF Spec
<1> QED BY <1>2 DEF NameIsLostOnlyToReclaim

-----------------------------------------------------------------------------
(* The refinement of SocketName, in watch mode.                            *)

\* The name leads to one socket, and the flock admits one claim.
OneOwner == \A i, j \in Named : i = j
OneClaim == \A i, j \in Claiming : i = j

LEMMA InvOne == Inv => OneOwner /\ OneClaim
<1> SUFFICES ASSUME Inv PROVE OneOwner /\ OneClaim
  OBVIOUS
<1>1. OneOwner
  BY DEF Inv, RecordedOwnerIsOwn, OneOwner, Named
<1>2. OneClaim
  BY DEF Inv, FlockGuardsPath, Critical, OneClaim, Claiming
<1> QED BY <1>1, <1>2

\* A set without two members has the one that Only chooses.
LEMMA OnlyOne ==
    ASSUME NEW S, \A i, j \in S : i = j, None \notin S
    PROVE  /\ \A i \in S : Only(S) = i
           /\ S = {} <=> Only(S) = None
BY DEF Only

nameVars == <<Only(Named), Only(Claiming), Serving>>

\* What a step may do to the name and to the claims, process by process.
LEMMA NameSteps ==
    ASSUME Inv, Inv', NEW i \in Instances,
           \/ /\ Claiming = {} /\ Claiming' = {i}
              /\ Named' = {} \/ Named' = Named
              /\ i \notin Serving /\ Serving' = Serving
           \/ /\ Claiming = {i} /\ Claiming' = {}
              /\ \/ Named' = Named /\ Serving' = Serving
                 \/ Named = {} /\ Named' = {i} /\ Serving' = Serving \cup {i}
           \/ /\ Claiming' = Claiming
              /\ Named' = Named \ {i} /\ Serving' = Serving \ {i}
    PROVE  [Name!Next]_nameVars
<1> USE DEF Name!Next, Name!Claim, Name!Take, Name!GiveUp, Name!Leave, nameVars
<1>1. Named \subseteq Instances /\ Claiming \subseteq Instances /\ None \notin Instances
  BY NoneAssumption DEF Named, Claiming
<1>2. /\ \A j \in Named : Only(Named) = j
      /\ Named = {} <=> Only(Named) = None
      /\ \A j \in Claiming : Only(Claiming) = j
      /\ Claiming = {} <=> Only(Claiming) = None
  BY <1>1, InvOne, OnlyOne DEF OneOwner, OneClaim
<1>3. ASSUME NEW S, S = {i} PROVE Only(S) = i
  BY <1>3 DEF Only
<1>4. Only({}) = None
  BY DEF Only
<1>5. CASE /\ Claiming = {} /\ Claiming' = {i} /\ (Named' = {} \/ Named' = Named)
           /\ i \notin Serving /\ Serving' = Serving
  BY <1>2, <1>3, <1>4, <1>5
<1>6. CASE /\ Claiming = {i} /\ Claiming' = {}
           /\ \/ Named' = Named /\ Serving' = Serving
              \/ Named = {} /\ Named' = {i} /\ Serving' = Serving \cup {i}
  BY <1>2, <1>3, <1>4, <1>6
<1>7. CASE Claiming' = Claiming /\ Named' = Named \ {i} /\ Serving' = Serving \ {i}
  <2>1. CASE i \in Named
    <3>1. Named' = {}
      BY <1>7, <2>1, InvOne DEF OneOwner
    <3>2. i \in Serving
      BY <2>1 DEF Named, Serving
    <3> QED BY <1>2, <1>4, <1>7, <2>1, <3>1, <3>2
  <2>2. CASE i \in Serving \ Named
    <3>1. Named' = Named
      BY <1>7, <2>2
    <3>2. Only(Named) # i
      BY <1>1, <1>2, <2>2
    <3> QED BY <1>7, <2>2, <3>1, <3>2
  <2>3. CASE i \notin Serving
    <3>1. i \notin Named
      BY <2>3 DEF Named, Serving
    <3> QED BY <1>7, <2>3, <3>1
  <2> QED BY <2>1, <2>2, <2>3
<1> QED BY <1>5, <1>6, <1>7

\* A process that closes its socket ends its own use of the name.
LEMMA CloseLeavesName ==
    ASSUME Inv, NEW i \in Instances, CloseSockets(i, path)
    PROVE  /\ Named' = Named \ {i} /\ Serving' = Serving \ {i}
           /\ listener[i] = None => Named' = Named /\ Serving' = Serving
<1>1. ASSUME NEW j \in Instances, j # i PROVE j \in Named <=> j \in Named'
  BY <1>1, NoneAssumption
  DEF Named, Inv, TypeOK, DirTypeOK, RecordedOwnerIsOwn, CloseSockets, AfterClose
<1>2. i \notin Named'
  BY DEF Named, Inv, TypeOK, DirTypeOK, CloseSockets
<1>3. listener[i] = None => i \notin Named
  BY DEF Named
<1>4. Named \subseteq Instances /\ Named' \subseteq Instances
  BY DEF Named
<1>5. Serving' = Serving \ {i} /\ (listener[i] = None => i \notin Serving)
  BY DEF Serving, Inv, TypeOK, DirTypeOK, CloseSockets
<1> QED BY <1>1, <1>2, <1>3, <1>4, <1>5

\* The end of a process: it leaves the name or gives up its claim.
LEMMA ExitPassesName ==
    ASSUME Inv, Inv', NEW i \in Instances, Exit(i, path)
    PROVE  [Name!Next]_nameVars
<1>1. /\ Named' = Named \ {i} /\ Serving' = Serving \ {i}
      /\ listener[i] = None => Named' = Named /\ Serving' = Serving
  BY CloseLeavesName DEF Exit
<1>2. CASE op[i] = "listen"
  <2>1. Claiming = {i} /\ Claiming' = {}
    BY <1>2, InvOne DEF OneClaim, Claiming, Exit, Goto, Inv, TypeOK
  <2>2. Named' = Named /\ Serving' = Serving
    BY <1>1, <1>2 DEF Inv
  <2> QED BY <2>1, <2>2, NameSteps
<1>3. CASE op[i] # "listen"
  <2>1. Claiming' = Claiming
    BY <1>3 DEF Claiming, Exit, Goto, Inv, TypeOK
  <2> QED BY <1>1, <2>1, NameSteps
<1> QED BY <1>2, <1>3

\* A step that neither claims nor touches sockets.
LEMMA QuietPassesName ==
    ASSUME UNCHANGED <<path, listener>>, Claiming' = Claiming
    PROVE  [Name!Next]_nameVars
<1>1. Named' = Named /\ Serving' = Serving
  BY DEF Named, Serving
<1> QED BY <1>1 DEF nameVars

\* A step of the detailed lifecycle is a step of SocketName or leaves it alone.
LEMMA StepPassesName ==
    ASSUME WatchMode, Inv, Inv', [Next]_vars
    PROVE  [Name!Next]_nameVars
<1> DEFINE Passes == [Name!Next]_nameVars
<1> USE DEF Inv, TypeOK, DirTypeOK, Goto
<1>1. ASSUME NEW i \in Instances, StartLocked(i) PROVE Passes
  <2>1. CASE Reclaim(i)
    <3>1. Claiming = {}
      BY <2>1 DEF Reclaim, Claiming, FlockGuardsPath, Critical
    <3>2. Claiming' = {i}
      BY <2>1, <3>1 DEF Reclaim, Claiming
    <3>3. Named' = {} \/ Named' = Named
      BY <2>1 DEF Reclaim, cleanupLocked, Named
    <3>4. i \notin Serving /\ Serving' = Serving
      BY <2>1 DEF Reclaim, Serving
    <3> QED BY <3>1, <3>2, <3>3, <3>4, NameSteps
  <2>2. ASSUME NEW n \in Inodes, Listen(i, n) PROVE Passes
    <3>1. Claiming = {i} /\ Claiming' = {}
      BY <2>2, InvOne DEF OneClaim, Claiming, Listen
    <3>2. Named = {}
      BY <2>2 DEF Named, Listen, Bind
    <3>3. Named' = {i}
      BY <2>2, NoneAssumption DEF Named, Listen, Bind, Fresh
    <3>4. Serving' = Serving \cup {i}
      BY <2>2, NoneAssumption DEF Serving, Listen, Bind
    <3> QED BY <3>1, <3>2, <3>3, <3>4, NameSteps
  <2>3. CASE Serve(i)
    <3>1. Claiming' = Claiming
      BY <2>3 DEF Serve, Claiming
    <3>2. CASE server[i] = "stopped"
      BY <2>3, <3>1, <3>2, CloseLeavesName, NameSteps DEF Serve
    <3>3. CASE server[i] # "stopped"
      BY <2>3, <3>1, <3>3, QuietPassesName DEF Serve
    <3> QED BY <3>2, <3>3
  <2>4. CASE ListenFails(i) \/ GetClientConnFails(i)
    <3>1. mu[i] # "watch"
      BY <2>4 DEF OwnershipRecorded, ListenFails, GetClientConnFails
    <3> QED BY <2>4, <3>1, ExitPassesName DEF ListenFails, GetClientConnFails, End
  <2>5. CASE LockSocketPath(i, "flock", "reclaim")
    <3>1. Claiming' = Claiming
      BY <2>5 DEF LockSocketPath, Claiming
    <3> QED BY <2>5, <3>1, QuietPassesName DEF LockSocketPath
  <2>6. CASE GetClientConn(i)
    <3>1. Claiming' = Claiming
      BY <2>6 DEF GetClientConn, Return, Claiming
    <3> QED BY <2>6, <3>1, QuietPassesName DEF GetClientConn, dirVars
  <2>7. CASE Register(i) \/ RegisterFails(i)
    <3>1. Claiming' = Claiming
      BY <2>7 DEF Register, RegisterFails, Return, Claiming
    <3> QED BY <2>7, <3>1, QuietPassesName DEF Register, RegisterFails, dirVars
  <2> QED BY <1>1, <2>1, <2>2, <2>3, <2>4, <2>5, <2>6, <2>7 DEF StartLocked
<1>2. ASSUME NEW i \in Instances, StopAndRemove(i) PROVE Passes
  <2>1. CASE Unlink(i)
    <3>1. mu[i] # "watch"
      BY DEF OwnershipRecorded
    <3>2. CASE End(i, path)
      BY <3>1, <3>2, ExitPassesName DEF End
    <3>3. CASE removal[i] # "keep" /\ End(i, None)
      <4>1. \A j \in Others(i) : listener[j] = None
        BY <3>3 DEF OwnershipRecorded, OwnedRemovalIsSafe
      <4>2. Named \subseteq {i} /\ Named' = {}
        BY <3>1, <3>3, <4>1 DEF Named, Others, End, Exit, CloseSockets
      <4>3. Serving' = Serving \ {i}
        BY <3>1, <3>3 DEF Serving, End, Exit, CloseSockets
      <4>4. Claiming' = Claiming
        BY <2>1, <3>1, <3>3 DEF Unlink, End, Exit, Claiming
      <4> QED BY <4>2, <4>3, <4>4, NameSteps
    <3> QED BY <2>1, <3>2, <3>3 DEF Unlink
  <2>2. CASE StopServer(i)
    <3>1. Claiming' = Claiming
      BY <2>2 DEF StopServer, Claiming
    <3> QED BY <2>2, <3>1, CloseLeavesName, NameSteps DEF StopServer
  <2>3. CASE LockSocketPath(i, "stopFlock", "check") \/ CheckOwner(i)
    <3>1. Claiming' = Claiming
      BY <2>3 DEF LockSocketPath, CheckOwner, Claiming
    <3> QED BY <2>3, <3>1, QuietPassesName DEF LockSocketPath, CheckOwner, dirVars
  <2> QED BY <1>2, <2>1, <2>2, <2>3 DEF StopAndRemove
<1>3. ASSUME NEW i \in Instances, NEW t \in {"main", "watch"}, Restart(i, t)
      PROVE  Passes
  <2>1. Claiming' = Claiming
    BY <1>3 DEF Restart, Claiming
  <2> QED BY <1>3, <2>1, CloseLeavesName, NameSteps DEF Restart
<1>4. ASSUME NEW i \in Instances,
             StopBegins(i) \/ WatchStops(i) \/ WatchPolls(i) \/ StopLocks(i)
      PROVE  Passes
  <2>1. Claiming' = Claiming
    BY <1>4 DEF StopBegins, WatchStops, WatchPolls, StopLocks, Claiming
  <2> QED BY <1>4, <2>1, QuietPassesName
      DEF StopBegins, WatchStops, WatchPolls, StopLocks, dirVars
<1>5. ASSUME NEW i \in Instances, NotifyStops(i) PROVE Passes
  <2>1. CASE Exit(i, path)
    BY <2>1, ExitPassesName
  <2>2. CASE ~Exit(i, path)
    <3>1. Claiming' = Claiming
      BY <1>5, <2>2 DEF NotifyStops, Claiming
    <3>2. CASE CloseSockets(i, path)
      BY <3>1, <3>2, CloseLeavesName, NameSteps
    <3>3. CASE UNCHANGED <<path, listener, conn>>
      BY <3>1, <3>3, QuietPassesName
    <3> QED BY <1>5, <2>2, <3>2, <3>3 DEF NotifyStops
  <2> QED BY <2>1, <2>2
<1>6. ASSUME NEW i \in Instances, Environment(i) PROVE Passes
  <2>1. CASE Crash(i)
    BY <2>1, ExitPassesName DEF Crash
  <2>2. CASE ~Crash(i)
    <3>1. Claiming' = Claiming
      BY <1>6, <2>2
      DEF Environment, Boot, Signal, NotifyRegistrationFailed, KubeletConnects,
          KubeletDisconnects, procVars, Claiming
    <3> QED BY <1>6, <2>2, <3>1, QuietPassesName
        DEF Environment, Boot, Signal, NotifyRegistrationFailed, KubeletConnects,
            KubeletDisconnects, dirVars
  <2> QED BY <2>1, <2>2
<1>7. CASE KubeletStops \/ KubeletStarts \/ KubeletServes \/ UNCHANGED vars
  <2>1. Claiming' = Claiming
    BY <1>7 DEF KubeletStops, KubeletStarts, KubeletServes, vars, procVars, Claiming
  <2> QED BY <1>7, <2>1, QuietPassesName
      DEF KubeletStops, KubeletStarts, KubeletServes, vars, dirVars
<1> QED BY <1>1, <1>2, <1>3, <1>4, <1>5, <1>6, <1>7 DEF Next, Main, Watch, Call

\* ServerLifecycle implements SocketName in watch mode, where the flock can be
\* taken: the name passes from one process to another only by a claim and a bind
\* of the same process, and nobody ends another's use of it in any other way.
THEOREM LifecycleRefinesName ==
    ASSUME "flock" \notin Faults, WatchMode
    PROVE  Spec => NamePassesByClaim
<1>1. Init => Name!Init
  <2> SUFFICES ASSUME Init PROVE Name!Init
    OBVIOUS
  <2>1. Named = {} /\ Claiming = {} /\ Serving = {}
    BY DEF Init, DirInit, Named, Claiming, Serving
  <2> QED BY <2>1 DEF Name!Init, Only
<1>2. Inv /\ Inv' /\ [Next]_vars => [Name!Next]_nameVars
  BY StepPassesName
<1> QED BY <1>1, <1>2, Safety, PTL DEF Spec, Name!Spec, NamePassesByClaim, nameVars

-----------------------------------------------------------------------------
(* Lifecycle calls and the watcher, with any fault.                        *)

\* CallInv holds before any process is up.
LEMMA InitCall == Init => CallInv
BY InitType DEF Init, CallInv, StopIsFinal

\* The end of a process, and of a call that did not leave the server running.
LEMMA ExitCall ==
    ASSUME CallInv, NEW i \in Instances, NEW file \in Inodes \cup {None, Stale},
           Exit(i, file)
    PROVE  CallInv'
<1>1. TypeOK'
  BY ExitType DEF CallInv
<1>2. \A j \in Instances \ {i} :
         UNCHANGED <<main[j], watcher[j], mu[j], op[j], server[j]>>
  BY DEF CallInv, TypeOK, Exit, Goto
<1> QED BY <1>1, <1>2 DEF CallInv, StopIsFinal, TypeOK, Exit, Goto

LEMMA EndCall ==
    ASSUME CallInv, NEW i \in Instances, NEW file \in Inodes \cup {None, Stale},
           End(i, file), server[i] # "nil"
    PROVE  CallInv'
<1>1. CASE Exit(i, file)
  BY <1>1, ExitCall
<1>2. CASE ~Exit(i, file)
  BY <1>2, EndType DEF CallInv, StopIsFinal, TypeOK, End, Goto
<1> QED BY <1>1, <1>2

\* Every step keeps CallInv.
LEMMA NextCall == CallInv /\ [Next]_vars => CallInv'
<1> SUFFICES ASSUME CallInv, [Next]_vars PROVE CallInv'
  OBVIOUS
<1> USE DEF CallInv, StopIsFinal, TypeOK, Goto
<1>0. TypeOK' /\ path \in Inodes \cup {None, Stale}
  BY NextType DEF DirTypeOK
<1>1. ASSUME NEW i \in Instances, StartLocked(i) PROVE CallInv'
  <2>1. CASE LockSocketPath(i, "flock", "reclaim")
    BY <1>0, <2>1 DEF LockSocketPath
  <2>2. CASE Reclaim(i)
    BY <1>0, <2>2 DEF Reclaim, cleanupLocked, clearSocketOwnershipLocked
  <2>3. ASSUME NEW n \in Inodes, Listen(i, n) PROVE CallInv'
    BY <1>0, <2>3 DEF Listen, recordSocketIDLocked
  <2>4. CASE ListenFails(i)
    BY <1>0, <2>4, EndCall DEF ListenFails
  <2>5. CASE Serve(i)
    BY <1>0, <2>5 DEF Serve
  <2>6. CASE GetClientConn(i)
    <3>1. CASE WatchMode
      BY <1>0, <2>6, <3>1 DEF GetClientConn, Return
    <3>2. CASE ~WatchMode
      BY <1>0, <2>6, <3>2 DEF GetClientConn
    <3> QED BY <3>1, <3>2
  <2>7. CASE GetClientConnFails(i)
    BY <1>0, <2>7, EndCall DEF GetClientConnFails
  <2>8. CASE Register(i)
    BY <1>0, <2>8, ModeAssumption DEF Register, Return
  <2>9. CASE RegisterFails(i)
    BY <1>0, <2>9 DEF RegisterFails
  <2> QED
    BY <1>1, <2>1, <2>2, <2>3, <2>4, <2>5, <2>6, <2>7, <2>8, <2>9 DEF StartLocked
<1>2. ASSUME NEW i \in Instances, StopAndRemove(i) PROVE CallInv'
  <2>1. CASE LockSocketPath(i, "stopFlock", "check")
    BY <1>0, <2>1 DEF LockSocketPath
  <2>2. CASE CheckOwner(i)
    BY <1>0, <2>2 DEF CheckOwner, clearSocketOwnershipLocked
  <2>3. CASE StopServer(i)
    BY <1>0, <2>3 DEF StopServer
  <2>4. CASE Unlink(i)
    BY <1>0, <2>4, EndCall DEF Unlink
  <2> QED BY <1>2, <2>1, <2>2, <2>3, <2>4 DEF StopAndRemove
<1>3. ASSUME NEW i \in Instances, NEW t \in {"main", "watch"}, Restart(i, t)
      PROVE  CallInv'
  BY <1>0, <1>3 DEF Restart, WantsRestart
<1>4. ASSUME NEW i \in Instances,
             StopBegins(i) \/ WatchStops(i) \/ WatchPolls(i) \/ StopLocks(i)
      PROVE  CallInv'
  <2>1. CASE StopBegins(i)
    BY <1>0, <2>1, ModeAssumption DEF StopBegins
  <2>2. CASE WatchStops(i)
    BY <1>0, <2>2 DEF WatchStops
  <2>3. CASE WatchPolls(i)
    BY <1>0, <2>3 DEF WatchPolls
  <2>4. CASE StopLocks(i)
    BY <1>0, <2>4 DEF StopLocks
  <2> QED BY <1>4, <2>1, <2>2, <2>3, <2>4
<1>5. ASSUME NEW i \in Instances, NotifyStops(i) PROVE CallInv'
  <2>1. CASE Exit(i, path)
    BY <1>0, <2>1, ExitCall
  <2>2. CASE ~Exit(i, path)
    BY <1>0, <1>5, <2>2 DEF NotifyStops
  <2> QED BY <2>1, <2>2
<1>6. ASSUME NEW i \in Instances, Environment(i) PROVE CallInv'
  <2>1. CASE Crash(i)
    BY <1>0, <2>1, ExitCall DEF Crash
  <2>2. CASE Boot(i)
    BY <1>0, <2>2 DEF Boot
  <2>3. ASSUME NEW s \in {"hup", "term"}, Signal(i, s) PROVE CallInv'
    BY <1>0, <2>3 DEF Signal
  <2>4. CASE NotifyRegistrationFailed(i) \/ KubeletConnects(i) \/ KubeletDisconnects(i)
    BY <1>0, <2>4
    DEF NotifyRegistrationFailed, KubeletConnects, KubeletDisconnects, procVars
  <2> QED BY <1>6, <2>1, <2>2, <2>3, <2>4 DEF Environment
<1>7. CASE KubeletStops \/ KubeletStarts \/ KubeletServes
  BY <1>0, <1>7 DEF KubeletStops, KubeletStarts, KubeletServes, dirVars, procVars
<1>8. CASE UNCHANGED vars
  BY <1>0, <1>8 DEF vars, procVars
<1> QED
  BY <1>1, <1>2, <1>3, <1>4, <1>5, <1>6, <1>7, <1>8 DEF Next, Main, Watch, Call

\* Stop: after the message to stopWatcher no Restart of Watch is under way or
\* can begin, in both modes and whatever fails.
THEOREM StopEndsWatch == Spec => []StopIsFinal
<1>1. CallInv => StopIsFinal
  BY DEF CallInv
<1> QED BY <1>1, InitCall, NextCall, PTL DEF Spec

\* Stop does not wait for a Watch that has returned, nor in a circle with one that
\* waits for lifecycleMu: the send on stopWatcher has a receiver, whatever fails.
THEOREM StopIsReceived == Spec => []StopFindsWatch
<1>1. CallInv => StopFindsWatch
  BY ModeAssumption DEF CallInv, StopFindsWatch
<1> QED BY <1>1, InitCall, NextCall, PTL DEF Spec

\* Whoever takes lifecycleMu after the first Start finds a grpc server, also
\* after a Restart or a registration that failed.
THEOREM ServerIsFound == Spec => []ServerWhenUnlocked
<1>1. CallInv => ServerWhenUnlocked
  BY DEF CallInv, ServerWhenUnlocked
<1> QED BY <1>1, InitCall, NextCall, PTL DEF Spec

==============================================================================
