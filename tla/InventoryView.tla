---------------------------- MODULE InventoryView ----------------------------
(***************************************************************************)
(* What ListAndWatch promises the kubelet about one resource: a list is on *)
(* offer at the moment it is sent, lists arrive in the order in which they *)
(* were sent, and nothing else arrives.  A list may have been replaced by  *)
(* the time it is read.  How the kubelet and the plugin are connected, and *)
(* how often lists are sent, is left open.                                 *)
(***************************************************************************)
EXTENDS Sequences

CONSTANT Lists      \* the lists of devices a plugin can offer

VARIABLES
    offered,        \* what the plugin offers
    transit,        \* what it has sent and the kubelet has not read
    seen            \* what the kubelet has read last

vars == <<offered, transit, seen>>

Init == offered \in Lists /\ transit = <<>> /\ seen \in Lists

Offer == offered' \in Lists /\ UNCHANGED <<transit, seen>>

Send == transit' = Append(transit, offered) /\ UNCHANGED <<offered, seen>>

Receive ==
    /\ transit # <<>>
    /\ seen' = Head(transit)
    /\ transit' = Tail(transit)
    /\ UNCHANGED offered

\* The connection ends, and what is on its way is lost.
Break == transit' = <<>> /\ UNCHANGED <<offered, seen>>

Next == Offer \/ Send \/ Receive \/ Break

Spec == Init /\ [][Next]_vars

==============================================================================
