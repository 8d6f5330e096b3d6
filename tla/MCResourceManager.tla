-------------------------- MODULE MCResourceManager --------------------------
(***************************************************************************)
(* An instance of ResourceManager for TLC: every single configuration,     *)
(* right or wrong, and every pair of right ones, with the same name and    *)
(* with different names, with the same prefix and with different prefixes, *)
(* of the same and of different devices.                                   *)
(***************************************************************************)
EXTENDS ResourceManager

CONSTANTS a, b, bad, dflt, other, none, eth0, eth1

\* Names, prefixes and elements of selectors.
AnyName == {a, b, bad}
AnyPrefix == {dflt, other, none}
AnyValue == {eth0, eth1}

Configs ==
    [name : {a, bad}, prefix : {none, other}, rdmaHcaMax : {-1, 1},
     selectors : SUBSET {eth0}, devices : SUBSET {eth0}]

\* What a pair is made of.
Accepted ==
    [name : {a, b}, prefix : {none, other}, rdmaHcaMax : {1},
     selectors : {{eth0}, {eth1}}, devices : {{}}]

Pairs == {<<c, d>> : c \in {c \in Accepted : c.selectors = {eth0}}, d \in Accepted}

Lists == {<<>>} \cup {<<c>> : c \in Configs} \cup Pairs

WrongOffOn == {-1, 0, 1}

AnyFault == {"discover", "cleanup", "server", "write", "crash"}

==============================================================================
