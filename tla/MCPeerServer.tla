---------------------------- MODULE MCPeerServer ----------------------------
(* Finite instances of PeerServer: labels, keys, files, sidecars, requests. *)
EXTENDS PeerServer, TLC

CONSTANTS p1, p2, p3,         \* processes
          alice, bob, multi,  \* labels; multi contains a control character
          k0, k1, k2, k3,     \* public keys; k0 and k3 are never in a request
          s0,                 \* the private key of the interface
          wan, lan            \* endpoints; only wan is ever in a menu

AnyProc == {p1, p2, p3}
TwoProcs == {p1, p2}
ProcSymmetry == Permutations(Proc)

Labels == {alice, bob, multi}
ValidLabels == {alice, bob}
Keys == {k0, k1, k2, k3}
Addrs == 1..3
Endpoints == {wan, lan}
ServerKeys == {s0}

Ask(op, name, newName, key, endpoint) ==
  [op |-> op, name |-> name, newName |-> newName, key |-> key, endpoint |-> endpoint]

AddAlice == Ask("add", alice, NoName, k1, wan)
AddBob   == Ask("add", bob, NoName, k2, NoEndpoint)
KillAlice == Ask("kill", alice, NoName, BadKey, NoEndpoint)
KillBob   == Ask("kill", bob, NoName, BadKey, NoEndpoint)
AliceToBob == Ask("rename", alice, bob, BadKey, NoEndpoint)
AliceToAlice == Ask("rename", alice, alice, BadKey, NoEndpoint)
ListAll == Ask("list", NoName, NoName, BadKey, NoEndpoint)

(* Requests that can pass validation; the ones a client can get wrong. *)
PlainRequests == {AddAlice, AddBob, KillAlice, AliceToBob}
OddRequests ==
  {AddAlice, AliceToBob, AliceToAlice, KillAlice, KillBob, ListAll,
   Ask("add", multi, NoName, k1, wan), Ask("add", NoName, NoName, k1, wan),
   Ask("add", bob, NoName, BadKey, wan), Ask("add", bob, NoName, k2, lan),
   Ask("kill", NoName, NoName, BadKey, NoEndpoint),
   Ask("rename", NoName, bob, BadKey, NoEndpoint),
   Ask("rename", alice, multi, BadKey, NoEndpoint)}

Block(name, key, ips, extra) == [name |-> name, key |-> key, ips |-> ips, extra |-> extra]
File(readable, serverKey, peers) ==
  [there |-> TRUE, readable |-> readable, serverKey |-> serverKey, peers |-> peers]

(* A hand-written peer without a label, and one with keys the tool drops. *)
HandWritten == File(TRUE, s0, <<Block(NoName, k0, {1}, FALSE)>>)
Roaming == File(TRUE, s0, <<Block(alice, k0, {1}, TRUE)>>)
HasBob == File(TRUE, s0, <<Block(bob, k0, {1}, FALSE)>>)
PlainFiles == {HandWritten, HasBob}
Fresh == File(TRUE, s0, <<>>)
OddFiles ==
  {Fresh, File(TRUE, s0, <<Block(NoName, k0, {1, 2}, TRUE), Block(alice, k3, {}, FALSE)>>),
   File(TRUE, NoServerKey, <<Block(bob, k0, {3}, FALSE)>>),
   File(FALSE, s0, <<>>)}
RoamingFiles == {Roaming}

Sidecar(endpoints, parses, reserved) ==
  [file |-> "loads", endpoints |-> endpoints, parses |-> parses, v4 |-> TRUE,
   pool |-> {1, 2}, reserved |-> reserved]
Plain == Sidecar(<<wan>>, TRUE, {})
SixConfig == [Plain EXCEPT !.v4 = FALSE]      \* an IPv6 subnet
PlainConfigs == {Plain}
OddConfigs ==
  {Plain, Sidecar(<<wan>>, TRUE, {1}), Sidecar(<<>>, TRUE, {}), Sidecar(<<wan>>, FALSE, {}),
   [Plain EXCEPT !.file = "absent"], SixConfig}
=============================================================================
