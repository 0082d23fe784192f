------------------------------- MODULE MCWgConf -------------------------------
(* Hand-written files of up to two blocks in every layout of comments.       *)
EXTENDS WgConf, TLC

AllText == STRING
HostOf(ip) ==
  CASE ip = "a0" -> 10 [] ip = "a1" -> 11 [] ip = "a2" -> 12 [] ip = "a9" -> 19
    [] OTHER -> 0
SomeLabels == {"alice", "bob", "carol"}

NewPeer == [key |-> "k9", psk |-> "s9", ips |-> <<"a9">>]
SomeNewBlocks == {NewPeer}

Interface == <<Line("text", "[Interface]"), Line("private", "kS")>>
Headers ==
  {<<>>, Interface \o <<Empty, Empty>>, Interface \o <<Line("note", "h"), Empty>>,
   Interface \o <<Line("note", "h")>>, Interface,
   Interface \o <<Line("private", "kT"), Empty>>}

(* Comment lines right above a [Peer]. *)
Leads(name, note) ==
  {<<>>, <<Line("name", name)>>, <<Line("note", note)>>,
   <<Line("note", note), Line("name", name)>>, <<Line("name", name), Line("note", note)>>,
   <<Line("name", name), Empty>>, <<Line("name", ""), Line("name", name)>>}

Bodies(key, ip, note) ==
  {<<Line("key", key), IpsLine(<<ip>>)>>,
   <<Line("key", key), IpsLine(<<ip>>), Line("other", "Endpoint"), Line("note", note), Empty>>,
   <<IpsLine(<<ip>>), Line("name", note), Line("key", "old"), IpsLine(<<>>),
     Line("key", key), Line("psk", key), IpsLine(<<"a0">>)>>}

Odd ==
  {<<Empty>>, Interface \o <<Empty>>,
   <<PeerHeader, Line("key", "k1"), IpsLine(<<BadIp>>), Empty>>,
   <<PeerHeader, Line("key", "k1"), IpsLine(<<"a1">>), Empty,
     Line("note", "i")>> \o Interface \o <<Empty>>}

Blocks(name, key, ip, note) ==
  {lead \o <<PeerHeader>> \o body :
     lead \in Leads(name, note), body \in Bodies(key, ip, note \o "b")}

LaidOutFiles ==
  Odd \cup
  {header \o first \o second \o <<Empty>> :
     header \in Headers, first \in Blocks("alice", "k1", "a1", "n1"),
     second \in Blocks("bob", "k2", "a2", "n2")}

(* The repository's own canonical test file, and the two sections swapped. *)
CanonicalFiles ==
  {Interface \o <<Empty, Line("name", "alice"), PeerHeader, Line("key", "k1"),
     IpsLine(<<"a1">>), Line("note", "n1"), Empty, Line("note", "n2"),
     Line("name", "bob"), PeerHeader, Line("key", "k2"), Line("psk", "s2"),
     IpsLine(<<"a2">>), Empty>>}
InterfaceLastFiles ==
  {<<Line("name", "alice"), PeerHeader, Line("key", "k1"), IpsLine(<<"a1">>), Empty>>
     \o Interface \o <<Empty>>}
=============================================================================
