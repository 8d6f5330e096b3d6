--------------------------- MODULE ServerLifecycle ---------------------------
(***************************************************************************)
(* The lifecycle of one resource server (pkg/resources/server.go) in every *)
(* plugin process of the node that serves the same resource name: Start,   *)
(* Stop, Restart, the Watch goroutine, the registration at the kubelet and *)
(* the handler of NotifyRegistrationStatus.  The processes share nothing   *)
(* but the directory of the registration socket (module SocketDir).        *)
(*                                                                         *)
(* A process has two goroutines that run lifecycle code, main and Watch,   *)
(* serialized by lifecycleMu (mu).  op is the next statement of the        *)
(* lifecycle call in progress, one step for every statement that another   *)
(* goroutine or process can see.                                           *)
(*                                                                         *)
(* Simplifications: one resource server per process, so the end of its     *)
(* Stop is the end of the process; the Serve goroutine is scheduled by     *)
(* the step that starts it; a signal is delivered when main waits for one. *)
(***************************************************************************)
EXTENDS SocketDir

CONSTANTS
    Unknown,    \* socketOwnerUnknown: Listen succeeded, the capture failed
    WatchMode,  \* rs.watchMode: the kubelet finds the socket by itself
    Faults      \* the calls that may fail, and "crash"

ASSUME UnknownAssumption == Unknown \notin Inodes \cup {None, Stale}
ASSUME ModeAssumption == WatchMode \in BOOLEAN

VARIABLES
    kubelet,      \* "up", "down" or "starting"
    main,         \* main[i]: what the main goroutine of i is doing
    watcher,      \* watcher[i]: what the Watch goroutine of i is doing
    mu,           \* mu[i]: the goroutine that holds lifecycleMu
    op,           \* op[i]: next statement of the lifecycle call in progress
    server,       \* server[i]: rsConnector's grpc server
    socketOwner,  \* socketOwner[i]: None, Unknown or the inode (socketIno)
    removal,      \* removal[i]: removePath, with the case that decided it
    notify        \* notify[i]: a handler of a failed registration is running

procVars == <<main, watcher, mu, op, server, socketOwner, removal, notify>>
vars == <<dirVars, kubelet, procVars>>

MainStates == {"down", "start", "run", "hup", "term", "signal", "stop"}
Ops == {"idle", "flock", "reclaim", "listen", "serve", "client", "register",
        "stopFlock", "check", "close", "unlink"}

TypeOK ==
    /\ DirTypeOK
    /\ kubelet \in {"up", "down", "starting"}
    /\ main \in [Instances -> MainStates]
    /\ watcher \in [Instances -> {"off", "poll", "restart", "done"}]
    /\ mu \in [Instances -> {"free", "main", "watch"}]
    /\ op \in [Instances -> Ops]
    /\ server \in [Instances -> {"nil", "live", "stopped"}]
    /\ socketOwner \in [Instances -> Inodes \cup {None, Unknown}]
    /\ removal \in [Instances -> {"keep", "owned", "force"}]
    /\ notify \in [Instances -> BOOLEAN]

Init ==
    /\ DirInit
    /\ kubelet = "up"
    /\ main = [i \in Instances |-> "down"]
    /\ watcher = [i \in Instances |-> "off"]
    /\ mu = [i \in Instances |-> "free"]
    /\ op = [i \in Instances |-> "idle"]
    /\ server = [i \in Instances |-> "nil"]
    /\ socketOwner = [i \in Instances |-> None]
    /\ removal = [i \in Instances |-> "keep"]
    /\ notify = [i \in Instances |-> FALSE]

May(f) == f \in Faults

Goto(i, o) == op' = [op EXCEPT ![i] = o]

-----------------------------------------------------------------------------
(* How a lifecycle call ends.                                              *)

\* The process is gone: its descriptors are closed, the flock is released.
Exit(i, file) ==
    /\ CloseSockets(i, file)
    /\ Unlock(i)
    /\ main' = [main EXCEPT ![i] = "down"]
    /\ watcher' = [watcher EXCEPT ![i] = "off"]
    /\ mu' = [mu EXCEPT ![i] = "free"]
    /\ Goto(i, "idle")
    /\ server' = [server EXCEPT ![i] = "nil"]
    /\ socketOwner' = [socketOwner EXCEPT ![i] = None]
    /\ removal' = [removal EXCEPT ![i] = "keep"]
    /\ notify' = [notify EXCEPT ![i] = FALSE]
    /\ UNCHANGED kubelet

\* The call returned nil.  After the first Start, main starts the watcher
\* of a server that registers itself.
Return(i) ==
    /\ mu' = [mu EXCEPT ![i] = "free"]
    /\ Goto(i, "idle")
    /\ main' = IF mu[i] = "main" THEN [main EXCEPT ![i] = "run"] ELSE main
    /\ watcher' =
           IF mu[i] = "watch" \/ (main[i] = "start" /\ ~WatchMode)
           THEN [watcher EXCEPT ![i] = "poll"] ELSE watcher

\* Variant of End: Watch returns when a Restart fails.
EndStopsWatch(i, file) ==
    \/ /\ mu[i] = "watch"
       /\ path' = file
       /\ Unlock(i)
       /\ mu' = [mu EXCEPT ![i] = "free"]
       /\ Goto(i, "idle")
       /\ watcher' = [watcher EXCEPT ![i] = "done"]
       /\ removal' = [removal EXCEPT ![i] = "keep"]
       /\ UNCHANGED <<listener, conn, kubelet, main, server, socketOwner, notify>>
    \/ /\ mu[i] = "main"
       /\ Exit(i, file)

\* The call ended and file is left at the path.  Watch logs an error of
\* Restart and polls on; main has stopped the server or exits on the error.
End(i, file) ==
    \/ /\ mu[i] = "watch"
       /\ path' = file
       /\ Unlock(i)
       /\ mu' = [mu EXCEPT ![i] = "free"]
       /\ Goto(i, "idle")
       /\ watcher' = [watcher EXCEPT ![i] = "poll"]
       /\ removal' = [removal EXCEPT ![i] = "keep"]
       /\ UNCHANGED <<listener, conn, kubelet, main, server, socketOwner, notify>>
    \/ /\ mu[i] = "main"
       /\ Exit(i, file)

-----------------------------------------------------------------------------
(* Start and Restart.                                                      *)

Boot(i) ==
    /\ main[i] = "down"
    /\ main' = [main EXCEPT ![i] = "start"]
    /\ mu' = [mu EXCEPT ![i] = "main"]
    /\ Goto(i, "flock")
    /\ UNCHANGED <<dirVars, kubelet, watcher, server, socketOwner, removal, notify>>

WantsRestart(i, t) ==
    \/ t = "main" /\ main[i] = "hup"
    \/ t = "watch" /\ watcher[i] = "restart"

\* Restart takes lifecycleMu, stops the grpc server and deletes it.  Its early
\* return for a missing server is never taken (ServerWhenUnlocked).
Restart(i, t) ==
    /\ mu[i] = "free"
    /\ WantsRestart(i, t)
    /\ server[i] # "nil"
    /\ mu' = [mu EXCEPT ![i] = t]
    /\ CloseSockets(i, path)
    /\ server' = [server EXCEPT ![i] = "nil"]
    /\ Goto(i, "flock")
    /\ UNCHANGED <<flock, kubelet, main, watcher, socketOwner, removal, notify>>

\* A caller that cannot take the flock proceeds without it.
LockSocketPath(i, from, to) ==
    /\ op[i] = from
    /\ Goto(i, to)
    /\ \/ flock = None /\ flock' = i
       \/ May("flock") /\ UNCHANGED flock
    /\ UNCHANGED <<path, listener, conn, kubelet, main, watcher, mu, server,
                   socketOwner, removal, notify>>

clearSocketOwnershipLocked(i) == socketOwner' = [socketOwner EXCEPT ![i] = None]

\* cleanupLocked without an owner removes whatever has the name; its caller
\* ignores the error.
cleanupLocked == path' \in {None} \cup (IF May("remove") THEN {path} ELSE {})

\* Variants of Reclaim: the flock is released before Listen; the owner of the
\* last socket still counts, so the file that this socket left is kept.
ReclaimUnlocks(i) ==
    /\ op[i] = "reclaim"
    /\ cleanupLocked
    /\ Unlock(i)
    /\ clearSocketOwnershipLocked(i)
    /\ server' = [server EXCEPT ![i] = "live"]
    /\ Goto(i, "listen")
    /\ UNCHANGED <<listener, conn, kubelet, main, watcher, mu, removal, notify>>

ReclaimOwned(i) ==
    /\ op[i] = "reclaim"
    /\ path' = IF socketOwner[i] = None THEN None ELSE path
    /\ clearSocketOwnershipLocked(i)
    /\ server' = [server EXCEPT ![i] = "live"]
    /\ Goto(i, "listen")
    /\ UNCHANGED <<listener, conn, flock, kubelet, main, watcher, mu, removal, notify>>

\* The ownership is forgotten, the name freed, a new grpc server created.
Reclaim(i) ==
    /\ op[i] = "reclaim"
    /\ cleanupLocked
    /\ clearSocketOwnershipLocked(i)
    /\ server' = [server EXCEPT ![i] = "live"]
    /\ Goto(i, "listen")
    /\ UNCHANGED <<listener, conn, flock, kubelet, main, watcher, mu, removal, notify>>

Fresh == {n \in Inodes : \A i \in Instances : n \notin {listener[i], socketOwner[i]}}

\* Variant of recordSocketIDLocked: a failed capture leaves no owner.
recordSocketIDOrNone(i, n) ==
    \E o \in {n} \cup (IF May("capture") THEN {None} ELSE {}) :
        socketOwner' = [socketOwner EXCEPT ![i] = o]

\* The inode comes from the listener, not from the shared path.
recordSocketIDLocked(i, n) ==
    \E o \in {n} \cup (IF May("capture") THEN {Unknown} ELSE {}) :
        socketOwner' = [socketOwner EXCEPT ![i] = o]

\* The socket is bound and its identity recorded, then the flock is released.
Listen(i, n) ==
    /\ op[i] = "listen"
    /\ n \in Fresh
    /\ Bind(i, n)
    /\ Unlock(i)
    /\ recordSocketIDLocked(i, n)
    /\ Goto(i, "serve")
    /\ UNCHANGED <<conn, kubelet, main, watcher, mu, server, removal, notify>>

ListenFails(i) ==
    /\ op[i] = "listen"
    /\ path # None \/ May("listen")
    /\ End(i, path)

\* Variant of Serve: the identity is taken from the path, without the flock.
ServeRecordsPath(i) ==
    /\ op[i] = "serve"
    /\ socketOwner' =
           [socketOwner EXCEPT ![i] = IF path \in Inodes THEN path ELSE Unknown]
    /\ IF server[i] = "stopped"
       THEN CloseSockets(i, path)
       ELSE UNCHANGED <<path, listener, conn>>
    /\ Goto(i, "client")
    /\ UNCHANGED <<flock, kubelet, main, watcher, mu, server, removal, notify>>

\* grpc closes a listener that is served by a server already stopped.
Serve(i) ==
    /\ op[i] = "serve"
    /\ IF server[i] = "stopped"
       THEN CloseSockets(i, path)
       ELSE UNCHANGED <<path, listener, conn>>
    /\ Goto(i, "client")
    /\ UNCHANGED <<flock, kubelet, main, watcher, mu, server, socketOwner, removal, notify>>

GetClientConn(i) ==
    /\ op[i] = "client"
    /\ \/ /\ WatchMode
          /\ Return(i)
       \/ /\ ~WatchMode
          /\ Goto(i, "register")
          /\ UNCHANGED <<main, watcher, mu>>
    /\ UNCHANGED <<dirVars, kubelet, server, socketOwner, removal, notify>>

GetClientConnFails(i) ==
    /\ op[i] = "client"
    /\ May("client")
    /\ End(i, path)

\* The kubelet connects back to the endpoint named in the request, which is
\* the server of whichever process is bound there.
CanRegister == kubelet = "up" /\ path \in Bound

Register(i) ==
    /\ op[i] = "register"
    /\ CanRegister
    /\ conn' = conn \cup {j \in Instances : listener[j] = path}
    /\ Return(i)
    /\ UNCHANGED <<path, listener, flock, kubelet, server, socketOwner, removal, notify>>

\* Variant of RegisterFails: the error is returned with the socket in place.
RegisterFailsServing(i) ==
    /\ op[i] = "register"
    /\ ~CanRegister \/ May("register")
    /\ End(i, path)

RegisterFails(i) ==
    /\ op[i] = "register"
    /\ ~CanRegister \/ May("register")
    /\ Goto(i, "stopFlock")
    /\ UNCHANGED <<dirVars, kubelet, main, watcher, mu, server, socketOwner, removal, notify>>

-----------------------------------------------------------------------------
(* stopAndRemoveOwnedSocketLocked, for Stop and for a failed registration. *)

\* Variant of Removals: the error is not turned into an answer.
RemovalsOrError(i) ==
    CASE socketOwner[i] = None -> {"force"}
      [] socketOwner[i] = Unknown -> {"keep"}
      [] OTHER ->
           {IF path # None /\ socketPathOwnedSolelyBy(socketOwner[i])
            THEN "owned" ELSE "keep"}
           \cup (IF May("proc") THEN {"error"} ELSE {})

\* shouldRemoveSocketPathLocked; an error of Lstat or of /proc/net/unix
\* keeps the file.
Removals(i) ==
    CASE socketOwner[i] = None -> {"force"}
      [] socketOwner[i] = Unknown -> {"keep"}
      [] OTHER ->
           {IF path # None /\ socketPathOwnedSolelyBy(socketOwner[i])
            THEN "owned" ELSE "keep"}
           \cup (IF May("proc") THEN {"keep"} ELSE {})

CheckOwner(i) ==
    /\ op[i] = "check"
    /\ \E r \in Removals(i) : removal' = [removal EXCEPT ![i] = r]
    /\ clearSocketOwnershipLocked(i)
    /\ Goto(i, "close")
    /\ UNCHANGED <<dirVars, kubelet, main, watcher, mu, server, notify>>

\* Variant of StopServer: the server is deleted with every stop.
StopServerDeletes(i) ==
    /\ op[i] = "close"
    /\ CloseSockets(i, path)
    /\ server' = [server EXCEPT ![i] = "nil"]
    /\ Goto(i, "unlink")
    /\ UNCHANGED <<flock, kubelet, main, watcher, mu, socketOwner, removal, notify>>

StopServer(i) ==
    /\ op[i] = "close"
    /\ CloseSockets(i, path)
    /\ server' = [server EXCEPT ![i] = "stopped"]
    /\ Goto(i, "unlink")
    /\ UNCHANGED <<flock, kubelet, main, watcher, mu, socketOwner, removal, notify>>

\* os.Remove takes whatever has the name by now.
Unlink(i) ==
    /\ op[i] = "unlink"
    /\ \/ /\ removal[i] = "keep" \/ May("remove")
          /\ End(i, path)
       \/ /\ removal[i] # "keep"
          /\ End(i, None)

-----------------------------------------------------------------------------
(* The main goroutine after Start, and the Watch goroutine.                *)

Signal(i, s) ==
    /\ main[i] = "run"
    /\ s \in {"hup", "term"}
    /\ main' = [main EXCEPT ![i] = s]
    /\ UNCHANGED <<dirVars, kubelet, watcher, mu, op, server, socketOwner, removal, notify>>

\* Variant of StopBegins: Watch is not told.
StopBeginsSilently(i) ==
    /\ main[i] = "term"
    /\ mu[i] = "free"
    /\ server[i] # "nil"
    /\ main' = [main EXCEPT ![i] = "stop"]
    /\ UNCHANGED <<dirVars, kubelet, watcher, mu, op, server, socketOwner, removal, notify>>

\* Stop, up to the send on stopWatcher: lifecycleMu is taken and released to
\* see whether the server runs, which it does (ServerWhenUnlocked).
StopBegins(i) ==
    /\ main[i] = "term"
    /\ mu[i] = "free"
    /\ server[i] # "nil"
    /\ main' = [main EXCEPT ![i] = IF WatchMode THEN "stop" ELSE "signal"]
    /\ UNCHANGED <<dirVars, kubelet, watcher, mu, op, server, socketOwner, removal, notify>>

\* The send and the receive of the unbuffered stopWatcher are one step.
WatchStops(i) ==
    /\ main[i] = "signal"
    /\ watcher[i] = "poll"
    /\ main' = [main EXCEPT ![i] = "stop"]
    /\ watcher' = [watcher EXCEPT ![i] = "done"]
    /\ UNCHANGED <<dirVars, kubelet, mu, op, server, socketOwner, removal, notify>>

\* The default case of Watch's select, when Lstat finds no file.
WatchPolls(i) ==
    /\ watcher[i] = "poll"
    /\ main[i] # "signal"
    /\ path = None
    /\ watcher' = [watcher EXCEPT ![i] = "restart"]
    /\ UNCHANGED <<dirVars, kubelet, main, mu, op, server, socketOwner, removal, notify>>

StopLocks(i) ==
    /\ main[i] = "stop"
    /\ mu[i] = "free"
    /\ op[i] = "idle"
    /\ mu' = [mu EXCEPT ![i] = "main"]
    /\ Goto(i, "stopFlock")
    /\ UNCHANGED <<dirVars, kubelet, main, watcher, server, socketOwner, removal, notify>>

\* The process is killed, or its node goes down with it.
Crash(i) ==
    /\ May("crash")
    /\ main[i] # "down"
    /\ Exit(i, path)

-----------------------------------------------------------------------------
(* NotifyRegistrationStatus.  The handler takes no lock, and stopping its  *)
(* own server does not end it.                                             *)

NotifyRegistrationFailed(i) ==
    /\ WatchMode
    /\ i \in conn
    /\ ~notify[i]
    /\ notify' = [notify EXCEPT ![i] = TRUE]
    /\ UNCHANGED <<dirVars, kubelet, main, watcher, mu, op, server, socketOwner, removal>>

\* Stop of whatever server the connector has by now; a nil one panics.
NotifyStops(i) ==
    /\ notify[i]
    /\ \/ /\ server[i] = "nil"
          /\ Exit(i, path)
       \/ /\ server[i] # "nil"
          /\ notify' = [notify EXCEPT ![i] = FALSE]
          /\ server' = [server EXCEPT ![i] = "stopped"]
          /\ IF op[i] = "serve"
             THEN UNCHANGED <<path, listener, conn>>
             ELSE CloseSockets(i, path)
          /\ UNCHANGED <<flock, kubelet, main, watcher, mu, op, socketOwner, removal>>

-----------------------------------------------------------------------------
(* The kubelet.                                                            *)

KubeletStops ==
    /\ kubelet # "down"
    /\ kubelet' = "down"
    /\ conn' = {}
    /\ UNCHANGED <<path, listener, flock, procVars>>

\* A kubelet that starts clears the device-plugins directory, where the
\* servers that register themselves have their sockets, and then listens for
\* them.
KubeletStarts ==
    /\ kubelet = "down"
    /\ kubelet' = "starting"
    /\ path' = IF WatchMode THEN path ELSE None
    /\ UNCHANGED <<listener, conn, flock, procVars>>

KubeletServes ==
    /\ kubelet = "starting"
    /\ kubelet' = "up"
    /\ UNCHANGED <<dirVars, procVars>>

\* In watch mode the kubelet finds the socket in its plugins_registry.
KubeletConnects(i) ==
    /\ WatchMode
    /\ kubelet = "up"
    /\ listener[i] # None
    /\ path = listener[i]
    /\ conn' = conn \cup {i}
    /\ UNCHANGED <<path, listener, flock, kubelet, procVars>>

KubeletDisconnects(i) ==
    /\ WatchMode \/ May("disconnect")
    /\ conn' = conn \ {i}
    /\ UNCHANGED <<path, listener, flock, kubelet, procVars>>

-----------------------------------------------------------------------------

StartLocked(i) ==
    \/ LockSocketPath(i, "flock", "reclaim")
    \/ Reclaim(i)
    \/ \E n \in Inodes : Listen(i, n)
    \/ ListenFails(i)
    \/ Serve(i)
    \/ GetClientConn(i)
    \/ GetClientConnFails(i)
    \/ Register(i)
    \/ RegisterFails(i)

StopAndRemove(i) ==
    \/ LockSocketPath(i, "stopFlock", "check")
    \/ CheckOwner(i)
    \/ StopServer(i)
    \/ Unlink(i)

\* The lifecycle call of goroutine t.
Call(i, t) == mu[i] = t /\ (StartLocked(i) \/ StopAndRemove(i))

Main(i) ==
    \/ Call(i, "main")
    \/ Restart(i, "main")
    \/ StopBegins(i)
    \/ WatchStops(i)
    \/ StopLocks(i)

Watch(i) ==
    \/ Call(i, "watch")
    \/ Restart(i, "watch")
    \/ WatchPolls(i)

Environment(i) ==
    \/ Boot(i)
    \/ \E s \in {"hup", "term"} : Signal(i, s)
    \/ Crash(i)
    \/ NotifyRegistrationFailed(i)
    \/ KubeletConnects(i)
    \/ KubeletDisconnects(i)

Next ==
    \/ \E i \in Instances : Main(i) \/ Watch(i) \/ NotifyStops(i) \/ Environment(i)
    \/ KubeletStops
    \/ KubeletStarts
    \/ KubeletServes

Spec == Init /\ [][Next]_vars

\* A goroutine is always about to make one step.  If that step is to take a
\* mutex or the flock, the goroutine gets it when it is free again and again:
\* sync.Mutex hands itself over to a starving waiter, flock(2) queues them.
Fairness ==
    \A i \in Instances :
        SF_vars(Main(i)) /\ SF_vars(Watch(i)) /\ WF_vars(NotifyStops(i))

FairSpec == Spec /\ Fairness

-----------------------------------------------------------------------------
(* Safety.                                                                 *)

Others(i) == Instances \ {i}

\* The statements that run under the flock.
Critical == {"reclaim", "listen", "check", "close", "unlink"}

\* lockSocketPath makes "check + unlink" and "reclaim + bind" of all processes
\* exclude each other: whoever is inside holds the flock and nobody else does.
FlockGuardsPath == \A i \in Instances : op[i] \in Critical <=> flock = i

\* When shouldRemoveSocketPathLocked found this server to be the sole binder,
\* no other process has a socket by the time os.Remove runs: the answer taken
\* from /proc/net/unix is still true after the listener is closed.
OwnedRemovalIsSafe ==
    \A i \in Instances : removal[i] = "owned" =>
        \A j \in Others(i) : listener[j] = None

\* The inode that a process recorded for its own listener is never that of
\* another process, so the identity check cannot take one for the other.
RecordedOwnerIsOwn ==
    \A i, j \in Instances :
        listener[j] # None /\ i # j =>
            /\ socketOwner[i] # listener[j]
            /\ listener[i] # listener[j]

\* A reclaim under the flock leaves the name free until its own Listen: net's
\* "address already in use" cannot come from another plugin process.
BindFindsFreeName == \A i \in Instances : op[i] = "listen" => path = None

\* Once Stop has handed its message to Watch, no Restart is under way or to
\* come: the server that Stop is about to delete stays deleted.
StopIsFinal ==
    \A i \in Instances : main[i] = "stop" =>
        watcher[i] \in {"off", "done"} /\ mu[i] # "watch"

\* A Stop that waits for its message to be received waits for a Watch that is there
\* and polls or is on its way back to it; a Watch that is in Restart waits for
\* lifecycleMu, which main does not hold meanwhile.
StopFindsWatch ==
    \A i \in Instances : main[i] = "signal" =>
        watcher[i] \in {"poll", "restart"} /\ mu[i] # "main"

\* Whoever gets lifecycleMu after the first Start finds a grpc server, also
\* after a Restart that failed: Stop does not skip the clean-up and Restart
\* never returns "grpc server instance not found".
ServerWhenUnlocked ==
    \A i \in Instances :
        main[i] \notin {"down", "start"} /\ mu[i] = "free" => server[i] # "nil"

\* A live socket loses its name only to a process that reclaims it and binds
\* its own, or to a kubelet that clears the directory: no Stop and no failed
\* registration of another process unlinks it.
NameIsLostOnlyToReclaim ==
    [][\A j \in Instances :
           listener[j] # None /\ path = listener[j] /\ path' # path =>
               \/ listener'[j] = None
               \/ kubelet' # kubelet
               \/ \E i \in Others(j) : op[i] = "reclaim" /\ op'[i] = "listen"]_vars

\* In either mode, the one other way to lose the name is the removal by a process
\* that has no owner on record, the case left for a process that never bound.
NameIsLostToReclaimOrForce ==
    [][\A j \in Instances :
           listener[j] # None /\ path = listener[j] /\ path' # path =>
               \/ listener'[j] = None
               \/ kubelet' # kubelet
               \/ \E i \in Others(j) :
                      \/ op[i] = "reclaim" /\ op'[i] = "listen"
                      \/ op[i] = "unlink" /\ removal[i] = "force"]_vars

\* Stop removes its own socket file when no other process holds the path.
StopRemovesOwnSocket ==
    \A i \in Instances :
        /\ op[i] = "close"
        /\ listener[i] # None
        /\ path = listener[i]
        /\ \A j \in Others(i) : listener[j] = None
        => removal[i] # "keep"

\* In watch mode every server that is up has recorded its socket, or that it
\* could not, whenever Stop may look: the case that removes the name whatever
\* it refers to is left to Start.
OwnershipRecorded ==
    \A i \in Instances :
        /\ watcher[i] = "off" /\ mu[i] # "watch" /\ op[i] # "register"
        /\ removal[i] # "force"
        /\ main[i] # "down" /\ op[i] \in {"idle", "serve", "client", "stopFlock", "check"}
              => socketOwner[i] # None

\* Who has a socket, whose socket the name leads to, and who is between the reclaim
\* of the name and its Listen.
Serving == {i \in Instances : listener[i] # None}
Named == {i \in Instances : listener[i] # None /\ path = listener[i]}
Claiming == {i \in Instances : op[i] = "listen"}

Only(S) == IF S = {} THEN None ELSE CHOOSE i \in S : TRUE

\* In watch mode the name passes from process to process as SocketName says: one
\* claims it at a time, the one that claims is the one that binds, and but for a
\* claim a socket keeps its name until its own process closes it.
Name == INSTANCE SocketName WITH
            Processes <- Instances, Nobody <- None,
            owner <- Only(Named), claimant <- Only(Claiming), serving <- Serving
NamePassesByClaim == Name!Spec

\* The inductive invariant behind the safety properties, for a node where the
\* flock can be taken: a lifecycle call holds lifecycleMu from its first
\* statement to its last, a server that starts or unlinks has no socket, a decision
\* to unlink lives from the check to the unlink, and both happen under the
\* flock.
Inv ==
    /\ TypeOK
    /\ FlockGuardsPath
    /\ RecordedOwnerIsOwn
    /\ OwnedRemovalIsSafe
    /\ \A i \in Instances : op[i] = "idle" <=> mu[i] = "free"
    /\ \A i \in Instances : main[i] = "down" => op[i] = "idle" /\ watcher[i] = "off"
    /\ \A i \in Instances :
           \/ main[i] = "down"
           \/ op[i] \in {"flock", "reclaim", "listen", "unlink"}
           => listener[i] = None
    /\ \A i \in Instances : removal[i] # "keep" => op[i] \in {"close", "unlink"}
    /\ WatchMode => OwnershipRecorded

\* The inductive invariant behind StopIsFinal, StopFindsWatch and
\* ServerWhenUnlocked, whatever fails: the grpc server is missing only while a
\* Start or Restart makes a new one, a Watch that holds lifecycleMu has not
\* received its message yet, main leaves lifecycleMu before it waits, and a Stop
\* does not start the server.
CallInv ==
    /\ TypeOK
    /\ StopIsFinal
    /\ \A i \in Instances :
           /\ op[i] = "idle" <=> mu[i] = "free"
           /\ main[i] = "down" => op[i] = "idle" /\ watcher[i] = "off"
           /\ server[i] = "nil" => main[i] = "down" \/ op[i] \in {"flock", "reclaim"}
           /\ mu[i] = "watch" => watcher[i] = "restart"
           /\ WatchMode => watcher[i] = "off" /\ main[i] # "signal"
           /\ ~WatchMode /\ main[i] \in {"run", "hup", "term", "signal"}
                  => watcher[i] \in {"poll", "restart"}
           /\ mu[i] = "main" => main[i] \in {"start", "hup", "stop"}
           /\ main[i] = "stop" => op[i] \in {"idle", "stopFlock", "check", "close", "unlink"}

-----------------------------------------------------------------------------
(* Liveness.                                                               *)

\* A process told to terminate does: neither the send to Watch nor the mutex
\* nor the flock blocks Stop forever.
StopCompletes == \A i \in Instances : main[i] = "term" ~> main[i] = "down"

\* A server that registers itself is found by the kubelet again and again,
\* whatever wiped the directory or dropped the registration in between, once
\* the kubelet stays up and the process is left alone.  Where GetClientConn, Remove
\* or the capture of the inode fails, a file may stay, and Watch asks for no more.
Reregisters ==
    \A i \in Instances :
        <>[](kubelet = "up" /\ main[i] = "run") => []<>(conn # {})

\* A server whose registration the kubelet refused is restarted, as the
\* handler of NotifyRegistrationStatus logs.
RefusedServerRestarts ==
    \A i \in Instances :
        main[i] = "run" /\ server[i] = "stopped" ~>
            main[i] # "run" \/ server[i] = "live"

==============================================================================
