-------------------------- MODULE MCServerLifecycle --------------------------
(***************************************************************************)
(* Instances of ServerLifecycle for TLC.  Process names and inode numbers  *)
(* are interchangeable model values; the safety runs use that symmetry.    *)
(***************************************************************************)
EXTENDS ServerLifecycle, TLC

CONSTANTS p1, p2, n1, n2

OneProcess == {p1}
TwoProcesses == {p1, p2}

\* A process that binds has forgotten its own inode and every other process
\* holds or remembers at most one, so a fresh one is always left.
OneInode == {n1}
TwoInodes == {n1, n2}

Symmetry == Permutations(TwoProcesses) \cup Permutations(TwoInodes)

NoFaults == {}
FlockFault == {"flock"}
LibraryFaults == {"listen", "capture", "client", "remove", "register", "proc"}
AnyFaultUnderFlock == LibraryFaults \cup {"crash", "disconnect"}

==============================================================================
