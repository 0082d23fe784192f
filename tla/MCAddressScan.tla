---------------------------- MODULE MCAddressScan ----------------------------
(* All subnets of a 3-bit address space, with every set of taken addresses. *)
EXTENDS AddressScan

CONSTANT k0, k1    \* public keys

Addrs == 0..7
Keys == {k0, k1}
NoLabels == {}

AllSubnets == [addr: Addrs, bits: 0..3]
SomeReserves == {{}, {6, 7}} \cup {{a} : a \in Addrs}

(* The taken addresses, spread over two peers. *)
Block(key, ips) == [name |-> NoName, key |-> key, ips |-> ips, extra |-> FALSE]
TwoPeers(taken) == <<Block(k0, taken \cap 0..3), Block(k1, taken \cap 4..7)>>
AllPeerLists == {TwoPeers(taken) : taken \in SUBSET Addrs}
=============================================================================
