-------------------------- MODULE MCDeviceInventory --------------------------
(***************************************************************************)
(* Instances of DeviceInventory for TLC.  The pool wants Ethernet devices  *)
(* of vendor mlx named eth0 or eth1.  Hosts have devices that miss by one  *)
(* thing each, before and after one card, two, or in the place of the      *)
(* first one a card of another vendor, where nothing matches.  Discovery   *)
(* that lists the first card and then reads the files of the other one     *)
(* yields one more pool, with as many files as the first card alone.       *)
(***************************************************************************)
EXTENDS DeviceInventory

CONSTANTS s1, s2

MlxOrEth == [vendors |-> {"mlx"}, deviceIDs |-> {}, drivers |-> {},
             ifNames |-> {"eth0", "eth1"}, linkTypes |-> {"ether"}]

Files(n) == <<<<"rdma_cm", 0>>, <<"umad", n>>, <<"uverbs", n>>>>

Card(n) ==
    [addr |-> n, class |-> NetClass, vendor |-> "mlx", deviceID |-> "cx5",
     driver |-> "mlx5_core", names |-> <<"eth0">>, link |-> "ether", files |-> Files(n)]

AppearanceTable ==
    [storage   |-> [Card(1) EXCEPT !.class = "storage"],
     unbound   |-> [Card(2) EXCEPT !.driver = NoValue],
     linkless  |-> [Card(3) EXCEPT !.link = NoValue],
     first     |-> Card(4),
     exchanged |-> [Card(4) EXCEPT !.vendor = "other", !.files = Files(10)],
     second    |-> [Card(5) EXCEPT !.names = <<"eth1", "eth9">>],
     noUmad    |-> [Card(6) EXCEPT !.files = <<<<"rdma_cm", 0>>, <<"uverbs", 6>>>>],
     ib        |-> [Card(7) EXCEPT !.link = "infiniband"],
     eth9      |-> [Card(8) EXCEPT !.names = <<"eth9", "eth0">>],
     nameless  |-> [Card(9) EXCEPT !.names = <<>>]]

\* TLC evaluates the body of a definition once, but not that of one that
\* replaces a constant.
Appearances == AppearanceTable

\* Some devices that cannot be used come before the cards, some after them.
Among(cards) ==
    <<"storage", "unbound", "linkless">> \o cards \o <<"noUmad", "ib", "eth9", "nameless">>

AllHosts == {Among(<<"first">>), Among(<<"first", "second">>), Among(<<"exchanged">>)}

\* With the second of these, nothing matches.
TwoHosts == {<<"unbound", "first", "noUmad">>, <<"unbound", "exchanged", "noUmad">>}

\* The stream of the kubelet, and one that it left behind.
TwoStreams == {s1, s2}

StreamSymmetry == Permutations(TwoStreams)

==============================================================================
