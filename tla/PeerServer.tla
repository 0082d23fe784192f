----------------------------- MODULE PeerServer -----------------------------
(***************************************************************************)
(* `wgpeer server --iface wgN add|list|kill|rename`: short-lived processes *)
(* that share one WireGuard .conf, one lock file beside it and one device. *)
(*                                                                         *)
(* Each process serves one request and exits. Its program counter follows  *)
(* internal/server: load the sidecar config, validate, open the lock file, *)
(* flock it (retrying until a deadline), read and decide, replace the .conf*)
(* by write / fsync / rename / directory fsync, push the result to the     *)
(* device, unlock, answer. A process may be killed between any two steps   *)
(* and the machine may lose power; the kernel then drops the flock.        *)
(*                                                                         *)
(* Abstracted: file contents are peer lists (PeerList), keys and labels are*)
(* values, wording of messages is gone. External: the file system, flock   *)
(* and wg-quick/wg, modelled from how the code calls them.                 *)
(***************************************************************************)
EXTENDS PeerList, FiniteSets

CONSTANTS Proc,           \* invocations of `wgpeer server`
          ServerKey,      \* private keys of the interface
          NoServerKey,    \* the [Interface] has no PrivateKey
          BadKey,         \* a public key or PSK that does not decode
          Endpoint,       \* names in endpoint menus and requests
          NoEndpoint,     \* the empty endpoint name: the default entry
          Requests,       \* requests callers may send
          Configs,        \* sidecar configs the interface may start with
          Files,          \* .conf files it may start with
          MaxPowerLosses, \* bound on power losses in a behaviour
          DirSyncMayFail  \* whether the best-effort directory fsync may fail

(* /etc/wgpeer/wgN.toml: missing, not TOML, TOML without the conf_path or   *)
(* subnet LoadServer requires, or all in order.                            *)
ServerConfig ==
  [file: {"absent", "broken", "incomplete", "loads"},
   endpoints: Seq(Endpoint), \* the menu, its default first
   parses: BOOLEAN,         \* subnet and reserved parse as addresses
   v4: BOOLEAN,             \* the subnet is one of IPv4 addresses
   pool: SUBSET Addr,       \* the host addresses of the subnet
   reserved: SUBSET Addr]

(* A .conf as readers find it. An unreadable one is missing, torn or holds *)
(* an AllowedIPs value Parse rejects. Its server key is the PrivateKey of  *)
(* its [Interface], if there is one.                                       *)
Conf == [there: BOOLEAN, readable: BOOLEAN,
         serverKey: ServerKey \cup {NoServerKey}, peers: Seq(Peer)]
Unreadable(there) ==
  [there |-> there, readable |-> FALSE, serverKey |-> NoServerKey, peers |-> <<>>]
Torn == Unreadable(TRUE)
Absent == Unreadable(FALSE)

Request ==
  [op: {"add", "list", "kill", "rename"}, name: Label \cup {NoName},
   newName: Label \cup {NoName}, key: Key \cup {BadKey},
   endpoint: Endpoint \cup {NoEndpoint}]

ASSUME InputAssumption ==
  /\ Requests \subseteq Request
  /\ Configs \subseteq ServerConfig
  /\ Files \subseteq Conf
ASSUME BadKeyAssumption == BadKey \notin Key
ASSUME EndpointAssumption == NoEndpoint \notin Endpoint
ASSUME FlagAssumption == DirSyncMayFail \in BOOLEAN /\ MaxPowerLosses \in Nat

Idle == [op |-> "list", name |-> NoName, newName |-> NoName,
         key |-> BadKey, endpoint |-> NoEndpoint]

VARIABLES
  sidecar,    \* the interface's sidecar config on disk
  conf,       \* the .conf a reader opens now
  survivors,  \* the .conf files a power loss may leave
  live,       \* the peers of the device
  orphans,    \* `wg syncconf` children that outlived their parent: their input
  powerLosses,
  lockFile,   \* the file at conf_path.lock: present, and its inode
  fd,         \* per process: inode of its open lock file, 0 when closed
  holds,      \* per process: whether the kernel grants it the flock on fd
  expired,    \* per process: whether its lock deadline has passed
  pc, req, cfg,
  tmp,        \* per process: its temporary file "none", "written" or "synced"
  work,       \* per process: the Conf it parsed, then edited, in memory
  stripped,   \* per process: output of `wg-quick strip`
  outcome     \* per process: the status it will answer

files == <<conf, survivors>>
device == <<live, orphans>>
locks == <<lockFile, fd, holds, expired>>
memory == <<req, cfg, tmp, work, stripped>>
vars == <<sidecar, files, device, powerLosses, locks, pc, memory, outcome>>

Steps == {"new", "check", "open", "flock", "retry", "read", "write", "fsync",
          "rename", "dirsync", "strip", "sync", "unlock", "reply", "done", "dead"}
Waiting == {"open", "flock", "retry"}                    \* inside acquireLock
Replacing == {"write", "fsync", "rename"}                \* inside atomicWrite
Statuses == {"none", "ok", "name_taken", "no_free_ip", "not_found", "locked",
             "bad_request", "internal"}

Goto(p, from, to) == pc[p] = from /\ pc' = [pc EXCEPT ![p] = to]
Decide(p, status) == outcome' = [outcome EXCEPT ![p] = status]

Init ==
  /\ sidecar \in Configs
  /\ conf \in Files
  /\ survivors = {conf}
  /\ live = DeviceView(conf.peers)      \* wg-quick brought the interface up
  /\ orphans = {}
  /\ powerLosses = 0
  /\ lockFile = [there |-> FALSE, ino |-> 0]
  /\ fd = [p \in Proc |-> 0]
  /\ holds = [p \in Proc |-> FALSE]
  /\ expired = [p \in Proc |-> FALSE]
  /\ pc = [p \in Proc |-> "new"]
  /\ req = [p \in Proc |-> Idle]
  /\ cfg = [p \in Proc |-> sidecar]
  /\ tmp = [p \in Proc |-> "none"]
  /\ work = [p \in Proc |-> Torn]
  /\ stripped = [p \in Proc |-> {}]
  /\ outcome = [p \in Proc |-> "none"]

(***************************************************************************)
(* serverMain: the sidecar is loaded first, then stdin is read, then the   *)
(* request is validated, all of it before the lock is touched.             *)
(***************************************************************************)
Start(p) ==
  /\ Goto(p, "new", "check")
  /\ cfg' = [cfg EXCEPT ![p] = sidecar]
  /\ \E r \in Requests : req' = [req EXCEPT ![p] = r]
  /\ UNCHANGED <<sidecar, files, device, powerLosses, locks, tmp, work, stripped, outcome>>

(* Mutant: the endpoint is left to the client to look up. *)
EndpointUnchecked(r, c) == FALSE

UnknownEndpoint(r, c) ==
  c.endpoints # <<>> /\ r.endpoint \notin ToSet(c.endpoints) \cup {NoEndpoint}

(* Mutant: Add forgets to decode the public key. *)
MalformedButKey(r, c) ==
  CASE r.op = "add"    -> r.name \notin ValidLabel \/ UnknownEndpoint(r, c)
    [] r.op = "kill"   -> r.name = NoName
    [] r.op = "rename" -> r.name = NoName \/ r.newName \notin ValidLabel
    [] r.op = "list"   -> FALSE

(* Mutant: an empty name is looked up like any other. *)
MalformedButEmpty(r, c) ==
  CASE r.op = "add"    -> r.name \notin ValidLabel \/ r.key = BadKey \/ UnknownEndpoint(r, c)
    [] r.op = "rename" -> r.newName \notin ValidLabel
    [] OTHER           -> FALSE

Malformed(r, c) ==
  CASE r.op = "add"    -> \/ r.name \notin ValidLabel
                          \/ r.key = BadKey
                          \/ UnknownEndpoint(r, c)
    [] r.op = "kill"   -> r.name = NoName
    [] r.op = "rename" -> r.name = NoName \/ r.newName \notin ValidLabel
    [] r.op = "list"   -> FALSE

(* Only Add consults the menu and the network section of the sidecar. *)
Unservable(r, c) == r.op = "add" /\ (c.endpoints = <<>> \/ ~c.parses)

Check(p) ==
  LET refused == cfg[p].file # "loads" \/ Malformed(req[p], cfg[p])
      broken  == ~refused /\ Unservable(req[p], cfg[p])
  IN /\ \/ refused /\ Goto(p, "check", "reply") /\ Decide(p, "bad_request")
        \/ broken /\ Goto(p, "check", "reply") /\ Decide(p, "internal")
        \/ /\ ~refused /\ ~broken
           /\ Goto(p, "check", IF req[p].op = "list" THEN "read" ELSE "open")
           /\ UNCHANGED outcome
     /\ UNCHANGED <<sidecar, files, device, powerLosses, locks, memory>>

(***************************************************************************)
(* acquireLock. The lock belongs to the open inode, not to the path.       *)
(***************************************************************************)
(* Mutant: every opener puts a lock file of its own in place. *)
OpenLockFresh(p) ==
  /\ Goto(p, "open", "flock")
  /\ lockFile' = [there |-> TRUE, ino |-> lockFile.ino + 1]
  /\ fd' = [fd EXCEPT ![p] = lockFile'.ino]
  /\ UNCHANGED <<sidecar, files, device, powerLosses, holds, expired, memory, outcome>>

OpenLock(p) ==
  /\ Goto(p, "open", "flock")
  /\ lockFile' = [there |-> TRUE,
                  ino |-> IF lockFile.there THEN lockFile.ino ELSE lockFile.ino + 1]
  /\ fd' = [fd EXCEPT ![p] = lockFile'.ino]
  /\ UNCHANGED <<sidecar, files, device, powerLosses, holds, expired, memory, outcome>>

OpenLockFails(p) ==
  /\ Goto(p, "open", "reply")
  /\ Decide(p, "internal")
  /\ UNCHANGED <<sidecar, files, device, powerLosses, locks, memory>>

LockBusy(p) == \E q \in Proc : holds[q] /\ fd[q] = fd[p]

Flock(p) ==
  /\ ~LockBusy(p)
  /\ Goto(p, "flock", "read")
  /\ holds' = [holds EXCEPT ![p] = TRUE]
  /\ expired' = [expired EXCEPT ![p] = FALSE]
  /\ UNCHANGED <<sidecar, files, device, powerLosses, lockFile, fd, memory, outcome>>

FlockBusy(p) ==
  /\ LockBusy(p)
  /\ Goto(p, "flock", "retry")
  /\ UNCHANGED <<sidecar, files, device, powerLosses, locks, memory, outcome>>

(* The deadline is looked at only after a failed attempt. *)
GiveUp(p) ==
  /\ expired[p]
  /\ Goto(p, "retry", "reply")
  /\ fd' = [fd EXCEPT ![p] = 0]
  /\ expired' = [expired EXCEPT ![p] = FALSE]
  /\ Decide(p, "locked")
  /\ UNCHANGED <<sidecar, files, device, powerLosses, lockFile, holds, memory>>

(* Mutant: the loop sleeps whatever the clock says. *)
SleepAndRetryForever(p) ==
  /\ Goto(p, "retry", "flock")
  /\ UNCHANGED <<sidecar, files, device, powerLosses, locks, memory, outcome>>

SleepAndRetry(p) ==
  /\ ~expired[p]
  /\ Goto(p, "retry", "flock")
  /\ UNCHANGED <<sidecar, files, device, powerLosses, locks, memory, outcome>>

(* flock fails for another reason than EWOULDBLOCK. *)
FlockFails(p) ==
  /\ Goto(p, "flock", "reply")
  /\ fd' = [fd EXCEPT ![p] = 0]
  /\ expired' = [expired EXCEPT ![p] = FALSE]
  /\ Decide(p, "internal")
  /\ UNCHANGED <<sidecar, files, device, powerLosses, lockFile, holds, memory>>

(* The clock passes the deadline of a process waiting for the lock. *)
DeadlinePasses(p) ==
  /\ pc[p] \in {"flock", "retry"} /\ ~expired[p]
  /\ expired' = [expired EXCEPT ![p] = TRUE]
  /\ UNCHANGED <<sidecar, files, device, powerLosses, lockFile, fd, holds, pc, memory, outcome>>

(***************************************************************************)
(* The decision a mutator takes on the peers it read, and the list it      *)
(* writes when it accepts.                                                 *)
(***************************************************************************)
(* Mutant: Rename does not look whether the new name is taken. *)
VerdictWithoutClash(r, c, peers) ==
  CASE r.op = "add" /\ NameExists(peers, r.name)              -> "name_taken"
    [] r.op = "add" /\ ~NameExists(peers, r.name)
         /\ Free(peers, c.pool, c.reserved) = {}              -> "no_free_ip"
    [] r.op \in {"kill", "rename"}
         /\ FindByName(peers, r.name) = 0                     -> "not_found"
    [] OTHER                                                  -> "ok"

(* Mutant: renaming a peer to its own name trips the duplicate check. *)
VerdictSelfClash(r, c, peers) ==
  IF r.op = "rename" /\ FindByName(peers, r.newName) # 0
    THEN "name_taken"
    ELSE VerdictWithoutClash(r, c, peers)

Verdict(r, c, peers) ==
  LET at    == FindByName(peers, r.name)
      clash == FindByName(peers, r.newName)
  IN CASE r.op = "add" /\ NameExists(peers, r.name)           -> "name_taken"
       [] r.op = "add" /\ ~NameExists(peers, r.name)
            /\ Free(peers, c.pool, c.reserved) = {}           -> "no_free_ip"
       [] r.op \in {"kill", "rename"} /\ at = 0               -> "not_found"
       [] r.op = "rename" /\ at # 0 /\ clash \notin {0, at}   -> "name_taken"
       [] OTHER                                               -> "ok"

NewPeer(r, c, peers) ==
  [name |-> r.name, key |-> r.key,
   ips |-> {AllocateIP(peers, c.pool, c.reserved)}, extra |-> FALSE]

Edit(r, c, peers) ==
  CASE r.op = "add"    -> AddPeer(peers, NewPeer(r, c, peers))
    [] r.op = "kill"   -> RemoveByName(peers, r.name)
    [] r.op = "rename" -> Relabel(peers, r.name, r.newName)
    [] OTHER           -> peers

(* List reads without the lock; the answer is the parsed file. *)
ReadList(p) ==
  /\ req[p].op = "list"
  /\ Goto(p, "read", "reply")
  /\ Decide(p, IF conf.readable THEN "ok" ELSE "internal")
  /\ work' = [work EXCEPT ![p] = [conf EXCEPT !.peers = Parse(conf.peers)]]
  /\ UNCHANGED <<sidecar, files, device, powerLosses, locks, req, cfg, tmp, stripped>>

(* AllocateIP panics on an IPv6 subnet, which nothing before it looks for. *)
Panics(p) ==
  /\ req[p].op = "add" /\ ~cfg[p].v4
  /\ conf.readable /\ ~NameExists(Parse(conf.peers), req[p].name)

(* Read, parse and decide; from here on the process works on its own copy. *)
ReadRefused(p) ==
  /\ req[p].op # "list" /\ ~Panics(p)
  /\ Goto(p, "read", "unlock")
  /\ LET verdict == Verdict(req[p], cfg[p], Parse(conf.peers))
     IN \/ ~conf.readable /\ Decide(p, "internal")
        \/ conf.readable /\ verdict # "ok" /\ Decide(p, verdict)
  /\ UNCHANGED <<sidecar, files, device, powerLosses, locks, memory>>

ReadAccepted(p) ==
  /\ req[p].op # "list" /\ ~Panics(p)
  /\ conf.readable
  /\ Verdict(req[p], cfg[p], Parse(conf.peers)) = "ok"
  /\ Goto(p, "read", "write")
  /\ work' = [work EXCEPT ![p] =
                [conf EXCEPT !.peers = Edit(req[p], cfg[p], Parse(conf.peers))]]
  /\ UNCHANGED <<sidecar, files, device, powerLosses, locks, req, cfg, tmp, stripped, outcome>>

(***************************************************************************)
(* atomicWrite. Renaming the temporary file over the .conf is the instant  *)
(* at which the operation takes effect for every reader.                   *)
(***************************************************************************)
(* Mutant: the temporary file is renamed without an fsync. *)
WriteTempUnsynced(p) ==
  /\ Goto(p, "write", "rename")
  /\ tmp' = [tmp EXCEPT ![p] = "written"]
  /\ UNCHANGED <<sidecar, files, device, powerLosses, locks, req, cfg, work, stripped, outcome>>

WriteTemp(p) ==
  /\ Goto(p, "write", "fsync")
  /\ tmp' = [tmp EXCEPT ![p] = "written"]
  /\ UNCHANGED <<sidecar, files, device, powerLosses, locks, req, cfg, work, stripped, outcome>>

SyncTemp(p) ==
  /\ Goto(p, "fsync", "rename")
  /\ tmp' = [tmp EXCEPT ![p] = "synced"]
  /\ UNCHANGED <<sidecar, files, device, powerLosses, locks, req, cfg, work, stripped, outcome>>

(* Mutant: the .conf itself is flocked, so a rename replaces the lock too. *)
RenameTempWithLock(p) ==
  /\ Goto(p, "rename", "dirsync")
  /\ conf' = work[p]
  /\ survivors' = survivors \cup {work[p]}
  /\ tmp' = [tmp EXCEPT ![p] = "none"]
  /\ lockFile' = [lockFile EXCEPT !.ino = @ + 1]
  /\ UNCHANGED <<sidecar, device, powerLosses, fd, holds, expired, req, cfg, work, stripped, outcome>>

RenameTemp(p) ==
  /\ Goto(p, "rename", "dirsync")
  /\ conf' = work[p]
  /\ survivors' = survivors \cup {work[p]} \cup (IF tmp[p] = "synced" THEN {} ELSE {Torn})
  /\ tmp' = [tmp EXCEPT ![p] = "none"]
  /\ UNCHANGED <<sidecar, device, powerLosses, locks, req, cfg, work, stripped, outcome>>

(* Mutant: a failed write is tried again, without end. *)
WriteFailsAgain(p) ==
  /\ \E step \in Replacing : Goto(p, step, "write")
  /\ tmp' = [tmp EXCEPT ![p] = "none"]
  /\ UNCHANGED <<sidecar, files, device, powerLosses, locks, req, cfg, work, stripped, outcome>>

(* No space, an I/O error: the temporary file is removed, the .conf is kept.*)
WriteFails(p) ==
  /\ \E step \in Replacing : Goto(p, step, "unlock")
  /\ tmp' = [tmp EXCEPT ![p] = "none"]
  /\ Decide(p, "internal")
  /\ UNCHANGED <<sidecar, files, device, powerLosses, locks, req, cfg, work, stripped>>

(* Mutants: no directory fsync at all; kill does not reach the device; the  *)
(* lock is given back before the device is synced.                          *)
SyncDirOmitted(p) ==
  /\ Goto(p, "dirsync", IF req[p].op = "rename" THEN "unlock" ELSE "strip")
  /\ IF req[p].op = "rename" THEN Decide(p, "ok") ELSE UNCHANGED outcome
  /\ UNCHANGED <<sidecar, files, device, powerLosses, locks, memory>>

SyncDirOnlyAddApplies(p) ==
  /\ Goto(p, "dirsync", IF req[p].op = "add" THEN "strip" ELSE "unlock")
  /\ survivors' = {conf}
  /\ IF req[p].op = "add" THEN UNCHANGED outcome ELSE Decide(p, "ok")
  /\ UNCHANGED <<sidecar, conf, device, powerLosses, locks, memory>>

SyncDirThenUnlock(p) ==
  /\ Goto(p, "dirsync", IF req[p].op = "rename" THEN "unlock" ELSE "strip")
  /\ survivors' = {conf}
  /\ IF req[p].op = "rename" THEN Decide(p, "ok") ELSE UNCHANGED outcome
  /\ holds' = [holds EXCEPT ![p] = FALSE]
  /\ UNCHANGED <<sidecar, conf, device, powerLosses, lockFile, fd, expired, memory>>

(* Best effort: an error of the directory fsync is ignored. A rename ends  *)
(* here (write, not commit); add and kill go on to the device.             *)
SyncDir(p) ==
  /\ Goto(p, "dirsync", IF req[p].op = "rename" THEN "unlock" ELSE "strip")
  /\ \/ survivors' = {conf}
     \/ DirSyncMayFail /\ UNCHANGED survivors
  /\ IF req[p].op = "rename" THEN Decide(p, "ok") ELSE UNCHANGED outcome
  /\ UNCHANGED <<sidecar, conf, device, powerLosses, locks, memory>>

(***************************************************************************)
(* applySyncconf: two child processes, each of which may fail.             *)
(***************************************************************************)
Strip(p) ==
  /\ conf.readable
  /\ Goto(p, "strip", "sync")
  /\ stripped' = [stripped EXCEPT ![p] = DeviceView(conf.peers)]
  /\ UNCHANGED <<sidecar, files, device, powerLosses, locks, req, cfg, tmp, work, outcome>>

(* Add derives the server's public key only now, after the commit. *)
Answerable(p) == req[p].op = "add" => work[p].serverKey # NoServerKey

(* Mutant: a .conf without PrivateKey is reported as a bad request. *)
SyncDeviceBlamesCaller(p) ==
  /\ Goto(p, "sync", "unlock")
  /\ live' = stripped[p]
  /\ stripped' = [stripped EXCEPT ![p] = {}]
  /\ Decide(p, IF Answerable(p) THEN "ok" ELSE "bad_request")
  /\ UNCHANGED <<sidecar, files, orphans, powerLosses, locks, req, cfg, tmp, work>>

SyncDevice(p) ==
  /\ Goto(p, "sync", "unlock")
  /\ live' = stripped[p]
  /\ stripped' = [stripped EXCEPT ![p] = {}]
  /\ Decide(p, IF Answerable(p) THEN "ok" ELSE "internal")
  /\ UNCHANGED <<sidecar, files, orphans, powerLosses, locks, req, cfg, tmp, work>>

ApplyFails(p) ==
  /\ \E step \in {"strip", "sync"} : Goto(p, step, "unlock")
  /\ stripped' = [stripped EXCEPT ![p] = {}]
  /\ Decide(p, "internal")
  /\ UNCHANGED <<sidecar, files, device, powerLosses, locks, req, cfg, tmp, work>>

(* Mutant: releaseLock also deletes the lock file. *)
UnlockAndDelete(p) ==
  /\ Goto(p, "unlock", "reply")
  /\ holds' = [holds EXCEPT ![p] = FALSE]
  /\ fd' = [fd EXCEPT ![p] = 0]
  /\ lockFile' = [lockFile EXCEPT !.there = FALSE]
  /\ UNCHANGED <<sidecar, files, device, powerLosses, expired, memory, outcome>>

(* The deferred releaseLock runs before the response reaches stdout. *)
Unlock(p) ==
  /\ Goto(p, "unlock", "reply")
  /\ holds' = [holds EXCEPT ![p] = FALSE]
  /\ fd' = [fd EXCEPT ![p] = 0]
  /\ UNCHANGED <<sidecar, files, device, powerLosses, lockFile, expired, memory, outcome>>

(* The response is printed and the process exits, which closes its files. *)
Emit(p) ==
  /\ Goto(p, "reply", "done")
  /\ fd' = [fd EXCEPT ![p] = 0]
  /\ holds' = [holds EXCEPT ![p] = FALSE]
  /\ UNCHANGED <<sidecar, files, device, powerLosses, lockFile, expired, memory, outcome>>

(***************************************************************************)
(* Failures from outside.                                                  *)
(***************************************************************************)
Running(p) == pc[p] \notin {"new", "done", "dead"}

(* The process is killed: its fd closes and with it the flock goes. A      *)
(* `wg syncconf` child it was waiting for may live on.                     *)
Crash(p) ==
  /\ Running(p)
  /\ pc' = [pc EXCEPT ![p] = "dead"]
  /\ fd' = [fd EXCEPT ![p] = 0]
  /\ holds' = [holds EXCEPT ![p] = FALSE]
  /\ expired' = [expired EXCEPT ![p] = FALSE]
  /\ stripped' = [stripped EXCEPT ![p] = {}]
  /\ \/ UNCHANGED orphans
     \/ pc[p] = "sync" /\ orphans' = orphans \cup {stripped[p]}
  /\ UNCHANGED <<sidecar, files, live, powerLosses, lockFile, req, cfg, tmp, work, outcome>>

(* A Go panic lets the deferred release run and ends the process without   *)
(* an answer: what a kill at that point does.                              *)
Panic(p) == pc[p] = "read" /\ Panics(p) /\ Crash(p)

OrphanSync ==
  /\ \E input \in orphans : live' = input /\ orphans' = orphans \ {input}
  /\ UNCHANGED <<sidecar, files, powerLosses, locks, pc, memory, outcome>>

(* The machine stops and boots: wg-quick@wgN loads the surviving .conf. *)
PowerLoss ==
  /\ powerLosses < MaxPowerLosses
  /\ powerLosses' = powerLosses + 1
  /\ \E kept \in survivors :
       /\ conf' = kept
       /\ survivors' = {kept}
       /\ live' = DeviceView(kept.peers)
  /\ orphans' = {}
  /\ pc' = [p \in Proc |-> IF Running(p) THEN "dead" ELSE pc[p]]
  /\ fd' = [p \in Proc |-> 0]
  /\ holds' = [p \in Proc |-> FALSE]
  /\ expired' = [p \in Proc |-> FALSE]
  /\ stripped' = [p \in Proc |-> {}]
  /\ UNCHANGED <<sidecar, lockFile, req, cfg, tmp, work, outcome>>

Finished ==
  /\ \A p \in Proc : pc[p] \in {"done", "dead"}
  /\ UNCHANGED vars

AcquireStep(p) == \/ OpenLock(p) \/ OpenLockFails(p) \/ Flock(p) \/ FlockBusy(p)
                  \/ GiveUp(p) \/ SleepAndRetry(p) \/ FlockFails(p)
ReadStep(p) == ReadList(p) \/ ReadRefused(p) \/ ReadAccepted(p)
WriteStep(p) == WriteTemp(p) \/ SyncTemp(p) \/ RenameTemp(p) \/ WriteFails(p) \/ SyncDir(p)
ApplyStep(p) == Strip(p) \/ SyncDevice(p) \/ ApplyFails(p)
OwnStep(p) == \/ Check(p) \/ AcquireStep(p) \/ ReadStep(p) \/ WriteStep(p)
              \/ Unlock(p) \/ Emit(p) \/ Panic(p)

Next ==
  \/ \E p \in Proc : \/ Start(p) \/ OwnStep(p) \/ ApplyStep(p)
                     \/ DeadlinePasses(p) \/ Crash(p)
  \/ OrphanSync \/ PowerLoss \/ Finished

Spec == Init /\ [][Next]_vars

(***************************************************************************)
(* A process that was started keeps running and time passes. Nothing is    *)
(* assumed of wg-quick and wg: exec has no timeout and may wait forever.   *)
(***************************************************************************)
Scheduling == \A p \in Proc : WF_vars(OwnStep(p)) /\ WF_vars(DeadlinePasses(p))
FairSpec == Spec /\ Scheduling

(* wg-quick and wg return, one way or the other. *)
ChildrenReturn == \A p \in Proc : WF_vars(ApplyStep(p))

-----------------------------------------------------------------------------
(* Types of the variables. *)
TypeOK ==
  /\ sidecar \in Configs
  /\ conf \in Conf
  /\ survivors \subseteq Conf
  /\ powerLosses \in 0..MaxPowerLosses
  /\ lockFile \in [there: BOOLEAN, ino: Nat]
  /\ fd \in [Proc -> Nat]
  /\ holds \in [Proc -> BOOLEAN]
  /\ expired \in [Proc -> BOOLEAN]
  /\ pc \in [Proc -> Steps]
  /\ req \in [Proc -> Request]
  /\ cfg \in [Proc -> Configs]
  /\ tmp \in [Proc -> {"none", "written", "synced"}]
  /\ work \in [Proc -> Conf]
  /\ outcome \in [Proc -> Statuses]
  /\ live \subseteq [key: Key, ips: SUBSET Addr, extra: BOOLEAN]
  /\ stripped \in [Proc -> SUBSET [key: Key, ips: SUBSET Addr, extra: BOOLEAN]]
  /\ orphans \subseteq SUBSET [key: Key, ips: SUBSET Addr, extra: BOOLEAN]

(* From reading the .conf to the deferred unlock. List never gets here. *)
Critical(p) ==
  \/ pc[p] = "read" /\ req[p].op # "list"
  \/ pc[p] \in Replacing \cup {"dirsync", "strip", "sync", "unlock"}

(* Two mutators are never both between their read and their unlock, however *)
(* they were started, killed or timed out (fsops.go, acquireLock).          *)
MutualExclusion == \A p, q \in Proc : Critical(p) /\ Critical(q) => p = q

(* A process about to replace the .conf replaces the very file it decided   *)
(* on: the edit it holds is still the edit of the current file, and the     *)
(* verdict that allowed it still stands.                                    *)
NoLostUpdate ==
  \A p \in Proc : pc[p] \in Replacing =>
    /\ conf.readable
    /\ Verdict(req[p], cfg[p], Parse(conf.peers)) = "ok"
    /\ work[p] = [conf EXCEPT !.peers = Edit(req[p], cfg[p], Parse(conf.peers))]

(* Labels stay unambiguous: no two blocks of the file, or of a file a power *)
(* loss may bring back, carry one non-empty label, so kill and rename always*)
(* reach the peer they name (server.go:177-180).                            *)
UniqueNames == \A c \in survivors \cup {conf} : DistinctNames(c.peers)

(* No address is routed to two peers, whatever adds and kills interleave.   *)
NoSharedAddress == \A c \in survivors \cup {conf} : DistinctAddresses(c.peers)

(* Neither a reader nor a reboot ever meets a partially written .conf.      *)
NeverTorn == Torn \notin survivors \cup {conf}

PastDecision(q) == pc[q] \in Steps \ ({"new", "check", "read"} \cup Waiting)

(* An add answered ok survives a power loss: as long as no kill has been    *)
(* accepted, its key is in the file and in all files a reboot may find.     *)
AckedAddSurvives ==
  \A p \in Proc :
    /\ req[p].op = "add" /\ outcome[p] = "ok" /\ ~DirSyncMayFail
    /\ ~ \E q \in Proc : req[q].op = "kill" /\ PastDecision(q)
    => \A c \in survivors \cup {conf} :
         \E i \in DOMAIN c.peers : c.peers[i].key = req[p].key

(* A mutation that was refused left no trace: the key of a refused add is   *)
(* in no file, unless the file had it or another process also brought it.   *)
RefusedAddLeavesNoTrace ==
  \A p \in Proc :
    /\ req[p].op = "add"
    /\ outcome[p] \in Statuses \ {"none", "ok", "internal"}
    /\ ~ \E q \in Proc \ {p} : req[q].op = "add" /\ req[q].key = req[p].key
    => \A c \in survivors \cup {conf} : \A i \in DOMAIN c.peers :
         c.peers[i].key = req[p].key =>
           \E f \in Files : \E j \in DOMAIN f.peers : f.peers[j].key = req[p].key

WithoutExtra(peers) == {[d EXCEPT !.extra = FALSE] : d \in peers}

(* Between operations the device routes exactly the peers of the file, if   *)
(* no process died and none reported that applying failed. (Up to the keys  *)
(* the tool drops from hand-written blocks; see RenameInvisibleToKernel.)   *)
DeviceMatchesFile ==
  (\A p \in Proc : /\ pc[p] \notin {"dirsync", "strip", "sync", "dead"}
                   /\ outcome[p] # "internal")
    => WithoutExtra(live) = WithoutExtra(DeviceView(conf.peers))

(* A sync reported as done leaves the device equal to the file as it is     *)
(* then, whatever crashed or failed before: the next add or kill repairs a  *)
(* device that lags behind.                                                 *)
SyncRepairsDevice ==
  [][\A p \in Proc : SyncDevice(p) => live' = DeviceView(conf'.peers)]_vars

(* server.go:208-210 of Rename: "nothing the kernel knows about changed".   *)
RenameInvisibleToKernel ==
  [][\A p \in Proc : RenameTemp(p) /\ req[p].op = "rename" =>
       DeviceView(conf'.peers) = DeviceView(conf.peers)]_vars

(* A process waiting for the lock is let in or answered `locked`, even when *)
(* the holder hangs in wg-quick or wg forever (needs FairSpec only).        *)
WaitersAnswered ==
  \A p \in Proc : pc[p] \in Waiting ~> pc[p] \notin Waiting

(* Every process that was started ends, on every path, if wg-quick and wg   *)
(* return: no failure leaves it waiting, retrying or holding the lock.      *)
EveryCallEnds ==
  ChildrenReturn => \A p \in Proc : Running(p) ~> pc[p] \in {"done", "dead"}

(***************************************************************************)
(* The server implements the registry: the .conf is the list, renaming the *)
(* temporary file is the effect, the directory fsync saves it.             *)
(***************************************************************************)
PhaseOf(step) ==
  CASE step = "new"                -> "idle"
    [] step = "dirsync"            -> "effected"
    [] step \in {"strip", "sync"}  -> "saved"
    [] step \in {"unlock", "reply"} -> "decided"
    [] step = "done"               -> "answered"
    [] step = "dead"               -> "dead"
    [] OTHER                       -> "called"

Registry == INSTANCE PeerRegistry WITH
  NoRequest <- Idle,
  avail   <- sidecar.pool \ sidecar.reserved,
  reg     <- Parse(conf.peers),
  disk    <- {Parse(c.peers) : c \in survivors},
  phase   <- [p \in Proc |-> PhaseOf(pc[p])],
  want    <- req,
  verdict <- outcome

(* Every operation is atomic, justified and saved as PeerRegistry says. *)
ImplementsRegistry == Registry!Spec
=============================================================================
