------------------------------ MODULE SocketDir ------------------------------
(***************************************************************************)
(* What the operating system keeps for one registration socket pathname    *)
(* (rs.socketPath), shared by every plugin process of the node: the file   *)
(* at that name, the sockets bound to it, the connections accepted on      *)
(* them and the flock(2) on the directory.  It is modelled from the calls  *)
(* that pkg/resources/server.go makes (Listen, Lstat, Remove, Flock,       *)
(* /proc/net/unix) and from Linux.                                         *)
(*                                                                         *)
(* A bound socket outlives its name: an unlinked socket still listens and  *)
(* is still in /proc/net/unix, and a name may outlive its socket.  The     *)
(* inode numbers are sockfs inodes; a number that nobody holds or          *)
(* remembers stands for every number not used yet.                         *)
(***************************************************************************)

CONSTANTS
    Instances,  \* plugin processes that serve the same resource name
    Inodes,     \* sockfs inode numbers
    None,       \* no file, no socket, no lock holder, no recorded owner
    Stale       \* a socket file whose socket is closed

VARIABLES
    path,       \* the file at socketPath: None, Stale or the inode bound there
    listener,   \* listener[i]: the open listening socket of i, or None
    conn,       \* instances whose server has a connection of the kubelet open
    flock       \* the instance that holds the directory's flock, or None

dirVars == <<path, listener, conn, flock>>

ASSUME NoneAssumption ==
    /\ None \notin Inodes \cup Instances
    /\ Stale \notin Inodes
    /\ Stale # None

DirTypeOK ==
    /\ path \in Inodes \cup {None, Stale}
    /\ listener \in [Instances -> Inodes \cup {None}]
    /\ conn \in SUBSET Instances
    /\ flock \in Instances \cup {None}

DirInit ==
    /\ path \in {None, Stale}
    /\ listener = [i \in Instances |-> None]
    /\ conn = {}
    /\ flock = None

Bound == {listener[i] : i \in Instances} \ {None}

\* Variant of socketPathOwnedSolelyBy: one row of this server is enough.
SocketPathOwnedAmongOthers(n) == n \in Bound

\* Every socket with the pathname has a row in /proc/net/unix, a connection
\* accepted on a listener too (it carries the listener's name): n has the only
\* row when no other listener is left and nobody is connected.
socketPathOwnedSolelyBy(n) == Bound = {n} /\ conn = {}

\* bind(2) fails with EADDRINUSE unless the name is free.
Bind(i, n) ==
    /\ path = None
    /\ path' = n
    /\ listener' = [listener EXCEPT ![i] = n]

\* Variant of CloseSockets: closing a net.UnixListener unlinks its name, which
\* may be another's by now (the default that SetUnlinkOnClose(false) turns off).
CloseSocketsUnlinks(i, file) ==
    /\ path' = IF listener[i] # None THEN None ELSE file
    /\ listener' = [listener EXCEPT ![i] = None]
    /\ conn' = conn \ {i}

\* The listener and its connections are closed; SetUnlinkOnClose(false) keeps
\* the name, which is stale from now on if it was the name of that listener.
AfterClose(i, file) ==
    IF listener[i] # None /\ file = listener[i] THEN Stale ELSE file

CloseSockets(i, file) ==
    /\ path' = AfterClose(i, file)
    /\ listener' = [listener EXCEPT ![i] = None]
    /\ conn' = conn \ {i}

Unlock(i) == flock' = IF flock = i THEN None ELSE flock

==============================================================================
