---------------------------- MODULE MCPeerClient ----------------------------
(* Finite instances of PeerClient: two clients, their command lines, the    *)
(* client.toml they find and the file they edit.                            *)
EXTENDS PeerClient, TLC

CONSTANTS p1, p2, alice, bob, carol, multi, k0, k1, k2, k3, wan, lan, s0

Procs == {p1, p2}
Labels == {alice, bob, carol, multi}
ValidLabels == {alice, bob, carol}
Keys == {k0, k1, k2, k3}
Addrs == 1..3
Endpoints == {wan, lan}
ServerKeys == {s0}
ClientKeys == (p1 :> k1) @@ (p2 :> k2)
Hub == [ssh |-> "hub", iface |-> "wg0"]
None == ""

(* The menu of most invocations, and odd ones: nothing configured, another  *)
(* default, several interfaces, none listed.                                *)
Entry(name, ssh, ifaces) == [name |-> name, ssh |-> ssh, ifaces |-> ifaces]
Toml(default, servers) == [loads |-> TRUE, default |-> default, servers |-> servers]
One == Toml("", <<Entry("hub", "hub", <<"wg0">>)>>)
Several == Toml("far", <<Entry("hub", "hub", <<"wg1", "wg0">>), Entry("far", "far", <<>>),
                         Entry("hub", "old", <<"wg0">>)>>)

Typed(op, name) ==
  [op |-> op, name |-> name, newName |-> NoName, endpoint |-> NoEndpoint,
   parses |-> TRUE, qr |-> "never", png |-> FALSE, server |-> "", iface |-> ""]
AddAlice == Typed("add", alice)
AddToLan == [AddAlice EXCEPT !.endpoint = lan, !.qr = "always"]
KillBob == Typed("kill", bob)
AliceToCarol == [Typed("rename", alice) EXCEPT !.newName = carol]
BobToAlice == [Typed("rename", bob) EXCEPT !.newName = alice]
NoneToCarol == [AliceToCarol EXCEPT !.name = NoName]

Plainly(lines) == [line: lines, menu: {One}]
BasicInvocations ==
  Plainly({AddAlice, AddToLan, Typed("kill", alice), AliceToCarol, NoneToCarol,
           [AddAlice EXCEPT !.qr = "other"], Typed("add", multi), Typed("list", NoName)})
    \cup {[line |-> [KillBob EXCEPT !.server = "hub", !.iface = "wg0"], menu |-> Several],
          [line |-> [KillBob EXCEPT !.server = "hub"], menu |-> Several],
          [line |-> Typed("list", NoName), menu |-> Several],
          [line |-> Typed("list", NoName), menu |-> Toml("", <<>>)],
          [line |-> [AddAlice EXCEPT !.iface = "wg0"],
           menu |-> Toml("", <<Entry("hub", "hub", <<"wg1">>)>>)],
          [line |-> [AddAlice EXCEPT !.iface = "wg0"],
           menu |-> Toml("", <<Entry("hub", "hub", <<>>)>>)]}

WaitInvocations == Plainly({[AddAlice EXCEPT !.endpoint = wan], BobToAlice})

AllRequests ==
  UNION {{RequestOf(p, i.line), [Idle EXCEPT !.op = i.line.op]} :
           p \in Proc, i \in Invocations}

Block(name, key, ips) == [name |-> name, key |-> key, ips |-> ips, extra |-> FALSE]
File(peers) == [there |-> TRUE, readable |-> TRUE, serverKey |-> s0, peers |-> peers]
OneFile == {File(<<Block(NoName, k0, {1}), Block(bob, k3, {2})>>)}

Sidecar(endpoints, v4) ==
  [file |-> "loads", endpoints |-> endpoints, parses |-> TRUE, v4 |-> v4,
   pool |-> 1..3, reserved |-> {}]
EveryMenu == {Sidecar(<<>>, TRUE), Sidecar(<<wan>>, TRUE), Sidecar(<<wan, lan>>, TRUE)}
EitherFamily == {Sidecar(<<wan>>, TRUE), Sidecar(<<wan>>, FALSE)}
=============================================================================
