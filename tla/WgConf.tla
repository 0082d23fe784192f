-------------------------------- MODULE WgConf --------------------------------
(***************************************************************************)
(* internal/wgconf: reading a .conf line by line, editing its peers and    *)
(* writing it back. PeerServer takes for granted that the peers one        *)
(* process writes are the peers the next one reads; this module is why.    *)
(*                                                                         *)
(* A file is the sequence of its lines (a file that ends in a newline ends *)
(* in an empty line). A line is what the parser can tell apart: [Peer],    *)
(* a "# name:" comment, another comment, one of the known keys (PublicKey, *)
(* PresharedKey, AllowedIPs, and the interface's PrivateKey), another      *)
(* `key = value` or any other text. Blanks inside a line and the   *)
(* case of keys are gone; a value is a string.                             *)
(***************************************************************************)
EXTENDS Naturals, Sequences, SequencesExt, FiniteSetsExt

CONSTANTS Text,      \* what may stand after a key: every string, the empty one too
          Host(_),   \* the host address an entry of AllowedIPs is read as
          Labels,    \* labels requests carry
          NewBlocks, \* peers `add` may append, but for their label
          Files,     \* files a hand may have written
          MaxEdits   \* bound on the edits of a behaviour

Kinds == {"empty", "peer", "name", "note", "key", "psk", "ips", "private", "other", "text"}
Comment == {"name", "note"}
Lines == [kind: Kinds, val: Text, ips: Seq(Text)]

ASSUME TextAssumption == "" \in Text
ASSUME FilesAssumption == Files \subseteq Seq(Lines)
ASSUME RequestsAssumption ==
  /\ Labels \subseteq Text
  /\ NewBlocks \subseteq [key: Text, psk: Text, ips: Seq(Text)]
  /\ MaxEdits \in Nat
ASSUME LabelsAssumption == "" \notin Labels     \* ValidPeerName refuses it

Line(kind, val) == [kind |-> kind, val |-> val, ips |-> <<>>]
Empty == Line("empty", "")
PeerHeader == Line("peer", "")
IpsLine(ips) == [kind |-> "ips", val |-> "", ips |-> ips]
BadIp == "bad"       \* an AllowedIPs entry that is no address

Of(kinds) == {l \in Lines : l.kind \in kinds}
PeerRec == [lead: Seq(Of({"note"})), name: Text, key: Text, psk: Text,
            ips: Seq(Text), body: Seq(Of(Comment))]

At(lines, kind) == {i \in DOMAIN lines : lines[i].kind = kind}

(* Mutant: the lines of other kinds stay. *)
OnlyEverything(lines, kinds) == lines

Only(lines, kinds) ==
  FlattenSeq([i \in DOMAIN lines |->
                IF lines[i].kind \in kinds THEN <<lines[i]>> ELSE <<>>])

(* The value of the last line of a kind: a later line overwrites. *)
LastValue(lines, kind) ==
  LET found == Only(lines, {kind})
  IN IF found = <<>> THEN "" ELSE found[Len(found)].val

(* The first line of the run of comments that ends right above line peer. *)
LeadStart(lines, peer, lower) ==
  Min({s \in lower..peer : \A i \in s..(peer - 1) : lines[i].kind \in Comment})

(* Mutant: whatever stands right above the first [Peer] goes to the peer. *)
HeaderEndAnyLine(lines) ==
  LET first == Min(At(lines, "peer")) IN IF first > 1 THEN first - 1 ELSE first

(* The header ends at the first [Peer], or at a "# name:" right above it. *)
HeaderEnd(lines) ==
  LET first == Min(At(lines, "peer"))
  IN IF first > 1 /\ lines[first - 1].kind = "name" THEN first - 1 ELSE first

(* Mutant: the body of a block runs on to the next [Peer] line. *)
BodyOverLead(lines, p) ==
  LET later == {q \in At(lines, "peer") : q > p}
  IN SubSeq(lines, p + 1, IF later = {} THEN Len(lines) ELSE Min(later) - 1)

Body(lines, p) ==
  LET later == {q \in At(lines, "peer") : q > p}
  IN SubSeq(lines, p + 1,
       IF later = {} THEN Len(lines) ELSE LeadStart(lines, Min(later), p + 1) - 1)

Lead(lines, p) ==
  LET earlier == {q \in At(lines, "peer") : q < p}
      start   == IF earlier = {} THEN HeaderEnd(lines)
                                 ELSE LeadStart(lines, p, Max(earlier) + 1)
  IN SubSeq(lines, start, p - 1)

AllIps(lines) == FlattenSeq([i \in DOMAIN lines |-> lines[i].ips])

ParsePeer(lines, p) ==
  LET lead == Lead(lines, p)
      body == Body(lines, p)
  IN [lead |-> Only(lead, {"note"}),
      name |-> LastValue(lead, "name"),
      key  |-> LastValue(body, "key"),
      psk  |-> LastValue(body, "psk"),
      ips  |-> AllIps(Only(body, {"ips"})),
      body |-> Only(body, Comment)]

(* AllowedIPs above the first [Peer] are part of the header: not looked at. *)
Parses(lines) ==
  \A p \in At(lines, "peer") : \A i \in At(Body(lines, p), "ips") :
    ~Contains(Body(lines, p)[i].ips, BadIp)

Parse(lines) ==
  LET at == At(lines, "peer")
  IN IF at = {} THEN [header |-> lines, peers |-> <<>>]
     ELSE [header |-> SubSeq(lines, 1, HeaderEnd(lines) - 1),
           peers  |-> FlattenSeq([i \in DOMAIN lines |->
                        IF i \in at THEN <<ParsePeer(lines, i)>> ELSE <<>>])]

(* The server's key: the first one of the header, never one of a block. *)
InterfacePrivateKey(c) ==
  LET at == At(c.header, "private")
  IN IF at = {} THEN "" ELSE c.header[Min(at)].val

Optional(kind, val) == IF val = "" THEN <<>> ELSE <<Line(kind, val)>>

(* Mutant: the label goes above the other comments. *)
AboveNameFirst(peer) == Optional("name", peer.name) \o peer.lead

(* What Serialize writes above and below the [Peer] line of a block. *)
Above(peer) == peer.lead \o Optional("name", peer.name)

(* Mutant: the PSK is forgotten. *)
BelowWithoutPsk(peer) == <<Line("key", peer.key), IpsLine(peer.ips)>> \o peer.body

Below(peer) ==
  <<Line("key", peer.key)>> \o Optional("psk", peer.psk) \o <<IpsLine(peer.ips)>>
    \o peer.body

Block(peer) == <<Empty>> \o Above(peer) \o <<PeerHeader>> \o Below(peer)

TrimRight(lines) ==
  SubSeq(lines, 1, Max({0} \cup {i \in DOMAIN lines : lines[i].kind # "empty"}))

(* Mutant: the header is written as it was read. *)
SerializeUntrimmed(c) ==
  c.header \o FlattenSeq([k \in DOMAIN c.peers |-> Block(c.peers[k])]) \o <<Empty>>

Serialize(c) ==
  TrimRight(c.header) \o FlattenSeq([k \in DOMAIN c.peers |-> Block(c.peers[k])]) \o <<Empty>>

Called(peers, name) == {k \in DOMAIN peers : peers[k].name = name}

VARIABLES file,    \* the lines of the .conf
          memory,  \* the peers a process last wrote, as it held them
          edits    \* edits so far, for the bound

vars == <<file, memory, edits>>

Init == file \in Files /\ memory = <<>> /\ edits = 0

Peers == Parse(file).peers

(* The end of an operation: write back what was read, with other peers.    *)
Commit(peers) ==
  /\ memory' = peers
  /\ file' = Serialize([header |-> Parse(file).header, peers |-> peers])

(* One operation reads the file, decides and writes the edited peers back. *)
Reads == edits < MaxEdits /\ edits' = edits + 1 /\ Parses(file)

Add(name, new) ==
  /\ Reads
  /\ Called(Peers, name) = {}
  /\ Commit(Append(Peers, [lead |-> <<>>, name |-> name, key |-> new.key,
                           psk |-> new.psk, ips |-> new.ips, body |-> <<>>]))

Kill(name) ==
  /\ Reads
  /\ Called(Peers, name) # {}
  /\ Commit(RemoveAt(Peers, Min(Called(Peers, name))))

Rename(name, newName) ==
  /\ Reads
  /\ Called(Peers, name) # {}
  /\ Called(Peers, newName) \subseteq {Min(Called(Peers, name))}
  /\ Commit([Peers EXCEPT ![Min(Called(Peers, name))].name = newName])

Stop == (edits = MaxEdits \/ ~Parses(file)) /\ UNCHANGED vars

Next ==
  \/ \E name \in Labels : \/ \E new \in NewBlocks : Add(name, new)
                          \/ Kill(name)
                          \/ \E newName \in Labels : Rename(name, newName)
  \/ Stop

Spec == Init /\ [][Next]_vars

-----------------------------------------------------------------------------
TypeOK == file \in Seq(Lines) /\ memory \in Seq(PeerRec) /\ edits \in 0..MaxEdits

FirstWithoutLead(peers) ==
  [k \in DOMAIN peers |-> IF k = 1 THEN [peers[k] EXCEPT !.lead = <<>>] ELSE peers[k]]
Comments(lines) == Only(lines, {"note"})

(* What an edit leaves in memory is what the next process reads: no label,  *)
(* key, PSK, address or comment of any block moves to another block or is   *)
(* lost. Only notes above the first [Peer] are the header's.                *)
WrittenIsRead == edits > 0 => Parse(file).peers = FirstWithoutLead(memory)

(* The .conf as PeerServer sees it: a list of blocks. A key stands for the   *)
(* public key and its PSK, AllowedIPs for their hosts, a flag for the keys   *)
(* in the block that Parse drops.                                           *)
List == INSTANCE PeerList
          WITH Label <- Text \ {""}, ValidLabel <- Labels, NoName <- "",
               Key <- Text \X Text, Addr <- Nat

Entry(peer, extra) ==
  [name |-> peer.name, key |-> <<peer.key, peer.psk>>,
   ips |-> {Host(ip) : ip \in ToSet(peer.ips)}, extra |-> extra]

DropsKeys(lines, p) == At(Body(lines, p), "other") # {}

Listed(lines) ==
  FlattenSeq([i \in DOMAIN lines |->
                IF i \in At(lines, "peer")
                THEN <<Entry(ParsePeer(lines, i), DropsKeys(lines, i))>> ELSE <<>>])

(* Edits of the text are the edits of the list PeerServer works with: what  *)
(* the next process reads, flags included, is what the list operations make *)
(* of the list this one read, and the same labels are found and refused     *)
(* (wgconf.go Parse, Serialize, FindByName, AddPeer, RemoveByName).         *)
EditsAreListEdits ==
  [][LET read    == List!Parse(Listed(file))
         written == Listed(file')
     IN \E name \in Labels :
          \/ /\ ~List!NameExists(read, name)
             /\ \E new \in NewBlocks :
                  LET peer == [name |-> name, key |-> new.key, psk |-> new.psk, ips |-> new.ips]
                  IN written = List!AddPeer(read, Entry(peer, FALSE))
          \/ /\ List!NameExists(read, name)
             /\ \/ written = List!RemoveByName(read, name)
                \/ \E newName \in Labels :
                     /\ \/ ~List!NameExists(read, newName)
                        \/ List!FindByName(read, newName) = List!FindByName(read, name)
                     /\ written = List!Relabel(read, name, newName)]_vars

(* wgconf.go:11-15: no edit drops, repeats or reorders a comment; but a    *)
(* kill takes those of the block it removes, and no others.                 *)
Remarks(peer) == peer.lead \o Comments(peer.body)
CommentsKept ==
  [][\/ Comments(file') = Comments(file)
     \/ \E name \in Labels, kept \in 0..Len(Comments(file')) :
          /\ Kill(name)
          /\ Comments(file) = SubSeq(Comments(file'), 1, kept)
                                \o Remarks(Peers[Min(Called(Peers, name))])
                                \o SubSeq(Comments(file'), kept + 1, Len(Comments(file')))]_vars

(* PrivateKey lines that no [Peer] line precedes: the interface's own. *)
OwnKeys(lines) == {i \in At(lines, "private") : \A p \in At(lines, "peer") : i < p}

(* The key `add` derives the server's public key from (server.go:104) is,   *)
(* after every edit, the first one the interface had before it, whatever    *)
(* stands around it: the configs that clients hold go on naming this server.*)
ServerKeyKept ==
  [][InterfacePrivateKey(Parse(file')) =
       IF OwnKeys(file) = {} THEN "" ELSE file[Min(OwnKeys(file))].val]_vars

(* A second rewrite changes nothing: the layout does not drift with every   *)
(* operation, whatever the file looked like.                                *)
RewriteSettles ==
  Parses(file) => LET once == Serialize(Parse(file)) IN Serialize(Parse(once)) = once

(* wgconf.go:17-18: "Together this makes Serialize idempotent (a canonical  *)
(* file round-trips byte-for-byte)": a file the tool wrote is canonical.    *)
WrittenIsCanonical == edits > 0 => Serialize(Parse(file)) = file

(* wgconf.go:5-6: "The [Interface] section [...] is preserved VERBATIM."    *)
InterfaceKept ==
  [][\A i \in DOMAIN file : file[i] = Line("text", "[Interface]") =>
       Contains(file', file[i])]_vars
=============================================================================
