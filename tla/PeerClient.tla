----------------------------- MODULE PeerClient -----------------------------
(***************************************************************************)
(* `wgpeer client add|list|kill|rename`: the command an admin types, its   *)
(* one ssh exec of `wgpeer server`, and what it prints; composed with the  *)
(* server processes of PeerServer. Client p drives server process p.       *)
(*                                                                         *)
(* The connection may break at any time: the request may then arrive whole,*)
(* cut short or not at all, and the server goes on without a caller.       *)
(*                                                                         *)
(* Abstracted: a client's key stands for the key pair and PSK it makes; of *)
(* a printed config only what ties it to the server is kept (not DNS, MTU, *)
(* keepalive, routes); colours and sizes of the QR. External: ssh.         *)
(***************************************************************************)
EXTENDS PeerServer

CONSTANTS Invocations, \* command lines, each with the client.toml it finds
          Home,        \* the interface PeerServer serves, as a Target
          ClientKey,   \* per client: the key it would generate
          Unset        \* a flag or setting that is not given

Line ==
  [op: {"add", "list", "kill", "rename"},
   name: Label \cup {NoName}, newName: Label \cup {NoName},
   endpoint: Endpoint \cup {NoEndpoint},
   parses: BOOLEAN,                  \* flags are known, the names are as many
   qr: {"always", "never", "other"}, \* the value of --qr
   png: BOOLEAN,                     \* --qr-png
   server: STRING, iface: STRING]

Target == [ssh: STRING, iface: STRING]
Nowhere == [ssh |-> Unset, iface |-> Unset]

(* ~/.config/wgpeer/client.toml, readable and well formed or not.          *)
Menu ==
  [loads: BOOLEAN, default: STRING,
   servers: Seq([name: STRING, ssh: STRING, ifaces: Seq(STRING)])]

ASSUME InvocationAssumption ==
  /\ Unset \in STRING
  /\ Home \in Target
  /\ Invocations \subseteq [line: Line, menu: Menu]
ASSUME ClientKeyAssumption ==
  /\ ClientKey \in [Proc -> Key]
  /\ \A p, q \in Proc : ClientKey[p] = ClientKey[q] => p = q
  /\ \A f \in Files : \A i \in DOMAIN f.peers : \A p \in Proc : f.peers[i].key # ClientKey[p]

VARIABLES
  client, \* per client: where it is, or how it ended, and its invocation
  told,   \* per client: what it printed about a peer
  picked  \* per server process: the key of the peer it kills or renames

clients == <<client, told, picked>>
clientVars == <<vars, clients>>

Endings == {"usage", "failed", "elsewhere", "lost", "refused",
            "noendpoint", "printed", "undrawn"}
NoLine == [op |-> "list", name |-> NoName, newName |-> NoName, endpoint |-> NoEndpoint,
           parses |-> FALSE, qr |-> "never", png |-> FALSE, server |-> Unset, iface |-> Unset]
NoMenu == [loads |-> FALSE, default |-> Unset, servers |-> <<>>]
Untyped == [line |-> NoLine, menu |-> NoMenu]

(* A printed config, or the key a kill or rename reports.                  *)
Report == [key: Key \cup {BadKey}, ips: SUBSET Addr,
           serverKey: ServerKey \cup {NoServerKey}, endpoint: Endpoint \cup {NoEndpoint}]
About(key) == [key |-> key, ips |-> {}, serverKey |-> NoServerKey, endpoint |-> NoEndpoint]

ClientInit ==
  /\ Init
  /\ client = [p \in Proc |-> [at |-> "idle", typed |-> Untyped]]
  /\ told = [p \in Proc |-> About(BadKey)]
  /\ picked = [p \in Proc |-> BadKey]

(***************************************************************************)
(* config.Resolve: which server, and which of its interfaces.              *)
(***************************************************************************)
(* The entry of that name that comes first, the first of all without a     *)
(* name; 0 if there is none.                                               *)
EntryAt(menu, server) ==
  LET name == IF server = Unset THEN menu.default ELSE server
      fits == {i \in DOMAIN menu.servers : name \in {Unset, menu.servers[i].name}}
  IN IF fits = {} THEN 0 ELSE Least(fits)

(* Mutant: any interface given by hand is taken.                           *)
IfaceUnchecked(entry, iface) ==
  IF iface # Unset THEN iface ELSE IF entry.ifaces = <<>> THEN Unset ELSE Head(entry.ifaces)

IfaceOf(entry, iface) ==
  CASE entry.ifaces = <<>>                           -> iface
    [] entry.ifaces # <<>> /\ iface = Unset          -> Head(entry.ifaces)
    [] iface # Unset /\ Contains(entry.ifaces, iface) -> iface
    [] OTHER                                         -> Unset

Resolve(menu, line) ==
  LET at    == EntryAt(menu, line.server)
      entry == menu.servers[at]
  IN IF ~menu.loads \/ at = 0 \/ IfaceOf(entry, line.iface) = Unset
     THEN Nowhere
     ELSE [ssh |-> entry.ssh, iface |-> IfaceOf(entry, line.iface)]

(***************************************************************************)
(* What a command does before it calls: parse its line, resolve the        *)
(* server, check the label it wants to give.                               *)
(***************************************************************************)
Misused(line) ==
  \/ ~line.parses
  \/ line.op \in {"add", "kill"} /\ line.name = NoName
  \/ line.op = "add" /\ line.qr = "other"

BadLabel(line) ==
  \/ line.op = "add" /\ line.name \notin ValidLabel
  \/ line.op = "rename" /\ line.newName \notin ValidLabel

Prelude(i) ==
  LET target == Resolve(i.menu, i.line)
  IN CASE Misused(i.line) -> "usage"
       [] ~Misused(i.line) /\ (target = Nowhere \/ BadLabel(i.line)) -> "failed"
       [] OTHER -> IF target = Home THEN "calling" ELSE "elsewhere"

(* The command line is typed; a key may fail to be generated.              *)
Invoke(p) ==
  /\ client[p].at = "idle"
  /\ \E i \in Invocations : \E at \in {Prelude(i)} \cup {"failed"} :
       /\ at # Prelude(i) => Prelude(i) = "calling" /\ i.line.op = "add"
       /\ client' = [client EXCEPT ![p] =
                       [at |-> at, typed |-> IF at = "calling" THEN i ELSE Untyped]]
  /\ UNCHANGED <<vars, told, picked>>

(***************************************************************************)
(* The call. Exec waits for the ssh child; what arrives at the far side    *)
(* starts the server process.                                              *)
(***************************************************************************)
RequestOf(p, line) ==
  [Idle EXCEPT !.op = line.op,
               !.name = IF line.op = "list" THEN NoName ELSE line.name,
               !.newName = IF line.op = "rename" THEN line.newName ELSE NoName,
               !.key = IF line.op = "add" THEN ClientKey[p] ELSE BadKey,
               !.endpoint = IF line.op = "add" THEN line.endpoint ELSE NoEndpoint]

ASSUME RequestAssumption ==
  \A p \in Proc : \A i \in Invocations :
    {RequestOf(p, i.line), [Idle EXCEPT !.op = i.line.op]} \subseteq Requests

(* A broken connection may have carried the whole request, or only the     *)
(* command of it: JSON that is cut short is refused like an empty request. *)
Deliver(p) ==
  /\ client[p].at \in {"calling", "lost"}
  /\ Start(p)
  /\ LET sent == RequestOf(p, client[p].typed.line)
     IN \/ req'[p] = sent
        \/ client[p].at = "lost" /\ req'[p] = [Idle EXCEPT !.op = sent.op]
  /\ UNCHANGED clients

(* Mutant: an ssh that failed without output is waited for all the same.   *)
LoseLinkUnnoticed(p) == client[p].at = "calling" /\ UNCHANGED clientVars

(* ssh cannot connect, is killed, or the connection breaks on its way.     *)
LoseLink(p) ==
  /\ client[p].at = "calling"
  /\ client' = [client EXCEPT ![p].at = "lost"]
  /\ UNCHANGED <<vars, told, picked>>

ChooseEndpoint(menu, name) ==
  CASE menu = <<>>                          -> NoEndpoint
    [] menu # <<>> /\ name = NoEndpoint     -> Head(menu)
    [] name # NoEndpoint /\ Contains(menu, name) -> name
    [] OTHER                                -> NoEndpoint

Config(p) ==
  [key |-> ClientKey[p], ips |-> Last(work[p].peers).ips, serverKey |-> work[p].serverKey,
   endpoint |-> ChooseEndpoint(cfg[p].endpoints, client[p].typed.line.endpoint)]

(* The answer arrives: an error code, or what there is to print. With the  *)
(* config printed, its PNG or its QR may still fail.                       *)
Receive(p) ==
  LET line == client[p].typed.line
      end(at, report) == /\ client' = [client EXCEPT ![p] = [at |-> at, typed |-> Untyped]]
                         /\ told' = [told EXCEPT ![p] = report]
  IN /\ client[p].at = "calling" /\ pc[p] = "done"
     /\ \/ outcome[p] # "ok" /\ end("refused", About(BadKey))
        \/ outcome[p] = "ok" /\ line.op # "add" /\ end("printed", About(picked[p]))
        \/ /\ outcome[p] = "ok" /\ line.op = "add"
           /\ Config(p).endpoint = NoEndpoint
           /\ end("noendpoint", About(BadKey))
        \/ /\ outcome[p] = "ok" /\ line.op = "add"
           /\ Config(p).endpoint # NoEndpoint
           /\ \/ end("printed", Config(p))
              \/ (line.png \/ line.qr = "always") /\ end("undrawn", Config(p))
     /\ UNCHANGED <<vars, picked>>

(***************************************************************************)
(* The server's own steps. A kill or rename answers with the key of the    *)
(* peer it found.                                                          *)
(***************************************************************************)
(* Mutant: the label is reported in place of the key.                      *)
PickLabel(p) ==
  IF req[p].op \in {"kill", "rename"} /\ pc[p] = "read" /\ pc'[p] = "write"
    THEN picked' = [picked EXCEPT ![p] = req[p].name]
    ELSE UNCHANGED picked

Pick(p) ==
  IF req[p].op \in {"kill", "rename"} /\ pc[p] = "read" /\ pc'[p] = "write"
    THEN LET peers == Parse(conf.peers)
         IN picked' = [picked EXCEPT ![p] = peers[FindByName(peers, req[p].name)].key]
    ELSE UNCHANGED picked

ServerStep ==
  /\ \/ \E p \in Proc : /\ OwnStep(p) \/ ApplyStep(p) \/ DeadlinePasses(p) \/ Crash(p)
                        /\ Pick(p)
     \/ (OrphanSync \/ PowerLoss) /\ UNCHANGED picked
  /\ UNCHANGED <<client, told>>

AllEnded ==
  /\ \A p \in Proc : client[p].at \in Endings /\ ~Running(p)
  /\ UNCHANGED clientVars

ClientNext ==
  \/ \E p \in Proc : Invoke(p) \/ Deliver(p) \/ LoseLink(p) \/ Receive(p)
  \/ ServerStep \/ AllEnded

ClientSpec == ClientInit /\ [][ClientNext]_clientVars

(***************************************************************************)
(* An ssh that waits gets the answer, or notices that the far side cannot  *)
(* be reached or has died.                                                 *)
(***************************************************************************)
CallGoesOn(p) ==
  /\ client[p].at = "calling"
  /\ Deliver(p) \/ Receive(p) \/ (pc[p] \in {"new", "dead"} /\ LoseLink(p))

FairClientSpec ==
  ClientSpec /\ Scheduling /\ \A p \in Proc : WF_clientVars(CallGoesOn(p))

-----------------------------------------------------------------------------
(* Types of the variables this module adds to the server's.                *)
ClientTypeOK ==
  /\ TypeOK
  /\ client \in [Proc -> [at: {"idle", "calling"} \cup Endings,
                         typed: Invocations \cup {Untyped}]]
  /\ told \in [Proc -> Report]
  /\ picked \in [Proc -> Key \cup {BadKey}]

Killed(key) == \E q \in Proc : req[q].op = "kill" /\ picked[q] = key
Undisturbed == \A p \in Proc : pc[p] # "dead"

(* A config that was printed works, and keeps working through other calls,  *)
(* renames of its peer and reboots, until a kill picks its peer: the file,  *)
(* and every file a reboot may find, has its key with its address under its *)
(* server's key; and while no process is killed, so has the device.         *)
ConfigStaysValid ==
  \A p \in Proc :
    LET config == told[p]
    IN /\ config.endpoint # NoEndpoint /\ ~Killed(config.key)
       /\ ~DirSyncMayFail
       => /\ \A c \in survivors \cup {conf} :
               /\ c.serverKey = config.serverKey
               /\ \E i \in DOMAIN c.peers :
                    c.peers[i].key = config.key /\ c.peers[i].ips = config.ips
          /\ Undisturbed =>
               \E d \in live : d.key = config.key /\ d.ips = config.ips

(* cli.go:174-175, client.go:124-126: an add that ends without a config has *)
(* left no peer behind, unless the connection broke or the server said      *)
(* `internal`: not for a misused flag, an unknown server or endpoint, a bad *)
(* label, nor any other refusal.                                            *)
NoStrayPeer ==
  \A p \in Proc :
    (\/ client[p].at \in Endings \ {"lost", "refused", "printed", "undrawn"}
     \/ client[p].at = "refused" /\ outcome[p] # "internal")
    => \A c \in survivors \cup {conf} : \A i \in DOMAIN c.peers :
         c.peers[i].key # ClientKey[p]

(* A client that was told `removed` has cut the peer off for good: its key  *)
(* is in no file, whatever reboots; and while no process is killed it is    *)
(* not on the device either.                                                *)
KilledStaysOut ==
  \A p \in Proc :
    /\ client[p].at = "printed" /\ req[p].op = "kill" /\ ~DirSyncMayFail
    => /\ \A c \in survivors \cup {conf} : \A i \in DOMAIN c.peers :
            c.peers[i].key # told[p].key
       /\ Undisturbed => \A d \in live : d.key # told[p].key

(* Peers without a label are a human's: no request, mistyped or cut short on*)
(* its way, removes or labels one of them (server.go:147, 182).             *)
Unlabelled(peers) == {peers[i].key : i \in Named(peers, NoName)}
UnlabelledUntouched ==
  [][\A p \in Proc : RenameTemp(p) =>
       Unlabelled(conf'.peers) = Unlabelled(conf.peers)]_clientVars

(* A client only ever reaches an interface that its client.toml has under   *)
(* the server it was told to use, or would use by default.                  *)
OnlyListedInterfaces ==
  \A p \in Proc :
    LET typed == client[p].typed
        named == IF typed.line.server = Unset THEN typed.menu.default ELSE typed.line.server
    IN client[p].at \in {"calling", "lost"} =>
         \E i \in DOMAIN typed.menu.servers :
           LET entry == typed.menu.servers[i]
           IN /\ entry.ssh = Home.ssh
              /\ named \in {Unset, entry.name}
              /\ entry.ifaces # <<>> => Contains(entry.ifaces, Home.iface)
              /\ typed.line.iface \in {Unset, Home.iface}

(* A command that calls comes back to its caller, if wg-quick and wg return.*)
ClientEnds ==
  ChildrenReturn =>
    \A p \in Proc : client[p].at = "calling" ~> client[p].at \in Endings
=============================================================================
