----------------------------- MODULE SocketName -----------------------------
(***************************************************************************)
(* What the plugin processes of a node promise each other about the name   *)
(* of their registration socket (pkg/resources/server.go: the comments on  *)
(* lockSocketPath, cleanupLocked and stopAndRemoveOwnedSocketLocked).      *)
(*                                                                         *)
(* The name leads to one process at most, and one that serves.  A process  *)
(* gets the name in two steps: it claims the name, which may end the       *)
(* present use, and binds it.  One process at a time has a claim, and      *)
(* nobody binds without one.  Apart from a claim, a process is reached by  *)
(* the name until it stops serving itself: a process that goes ends its    *)
(* own use of the name and no other's.                                     *)
(***************************************************************************)
CONSTANTS
    Processes,  \* the processes that may use the name
    Nobody

VARIABLES
    owner,      \* the process that is reached by the name
    claimant,   \* the process that is about to bind it
    serving     \* the processes that have a socket, by that name or by none

Init == owner = Nobody /\ claimant = Nobody /\ serving = {}

\* A name that cannot be removed stays with its owner.
Claim(i) ==
    /\ claimant = Nobody
    /\ i \notin serving
    /\ claimant' = i
    /\ owner' \in {Nobody, owner}
    /\ UNCHANGED serving

Take(i) ==
    /\ claimant = i
    /\ owner = Nobody
    /\ owner' = i
    /\ claimant' = Nobody
    /\ serving' = serving \cup {i}

GiveUp(i) ==
    /\ claimant = i
    /\ claimant' = Nobody
    /\ UNCHANGED <<owner, serving>>

Leave(i) ==
    /\ i \in serving
    /\ serving' = serving \ {i}
    /\ owner' = IF owner = i THEN Nobody ELSE owner
    /\ UNCHANGED claimant

Next == \E i \in Processes : Claim(i) \/ Take(i) \/ GiveUp(i) \/ Leave(i)

Spec == Init /\ [][Next]_<<owner, claimant, serving>>

==============================================================================
