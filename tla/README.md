# Verification of wgpeer

wgpeer manages the peers of a WireGuard interface. A client half runs on an
admin's machine and calls, over one ssh exec per command, a server half that
edits `/etc/wireguard/wgN.conf` and tells the kernel. This directory holds TLA+
modules that model the program, TLC configurations that check them on small
instances, and proofs checked by TLAPS for every instance. Paths below are
relative to the repository.

## 1. The system

| Part | State it keeps | Operations | Talks to |
|---|---|---|---|
| server peer operations (`internal/server/server.go`, `fsops.go`) | the `.conf`, `conf.lock`, temporary files; in memory: the request, the parsed conf | `Add`, `List`, `Kill`, `Rename`; `acquireLock`, `atomicWrite`, `applySyncconf` | other server processes through the file, the lock and the device; `wg-quick strip`, `wg syncconf` |
| `.conf` reader and writer (`internal/wgconf/wgconf.go`) | none (a `Conf` in memory) | `Parse`, `Serialize`, `FindByName`, `AddPeer`, `RemoveByName` | called under the lock by every mutator |
| address allocation (`internal/wgconf/alloc.go`) | none | `AllocateIP` | called by `Add` |
| interface lifecycle (`internal/server/provide.go`, `remove.go`) | `.conf`, sidecar `wgN.toml`, backups, the systemd unit | `Provide`, `Plan`, `Remove` | same files as above, without the lock |
| server command line (`internal/cli/server.go`) | none | `serverMain`, `provideMain`, `removeMain`, `emit` | stdin/stdout JSON |
| configs (`internal/config`) | sidecar TOML, client TOML | `LoadServer`, `LoadClient`, `Resolve` | read before the lock is taken |
| protocol (`internal/protocol`) | none | the JSON types and error codes | both halves |
| client (`internal/client`, `internal/cli/cli.go`) | the private key and PSK it makes, until it prints them | `clientAdd`, `clientList`, `clientKill`, `clientRename` and the calls behind them | one ssh exec per call, which starts one server process |
| keys (`internal/wgkey`), QR (`client/qr.go`), stub (`server_stub.go`) | none | arithmetic, rendering | - |

No process lives longer than a command: everything that must hold, holds
between short processes that share files. What is hard about that:

* **Concurrency.** Mutators exclude each other with `flock` on `conf.lock`,
  polled with `LOCK_NB` every 50 ms until a deadline; `List` takes no lock and
  relies on rename being atomic; the sidecar is read before the lock.
* **Failure.** A process can be killed, the machine can lose power, and every
  system call can fail between the read, the temporary file, its fsync, the
  rename, the directory fsync, `wg-quick strip` and `wg syncconf`.
* **An unreliable call.** A command is one ssh exec without a timeout; the
  connection can break before the request arrived, in the middle of it, or with
  the answer on its way back, while the server goes on. Nobody retries.
* **External children.** `wg-quick` and `wg` run without a timeout while the
  lock is held, and can outlive a killed parent.
* **Hand-edited input.** The `.conf` is shared with a human: blocks without a
  label, comments anywhere, keys the tool does not write, addresses in other
  subnets, two layouts of sections.

What makes each part correct: mutators exclude each other and none overwrites
an update it has not seen; labels name at most one peer and addresses belong to
at most one; a file is never torn; what was answered `ok` survives a power
loss; a refusal has no effect; the device follows the file; every caller is
answered; and, seen from outside, the `.conf` is a list on which operations are
atomic (server). What is written is what is read, and a human's comments and
sections stay (reader and writer). The least free host, or an error, always
(allocation). An interface is created once and removed completely, and its
private key is not lost (lifecycle). A config that was printed works and keeps
working until a kill; a command that failed cleanly left no peer behind; a peer
reported removed is gone for good; only interfaces the menu lists are reached;
every command ends (client).

## 2. Modules

| Module | What it is |
|---|---|
| `PeerList` | the peer list of a `.conf` and the operations on it; base of the others |
| `PeerRegistry` | abstract specification: what `server add/list/kill/rename` promise a caller |
| `PeerServer` | the server's processes step by step; INSTANCEs `PeerRegistry` as the promise it implements |
| `PeerClient` | the client's commands from the typed line to what is printed, composed with `PeerServer` over an ssh that may break |
| `IfaceLifecycle` | `provide` and `remove` step by step, composed with `PeerServer` on the same files, lock and device |
| `AddressScan` | the loop of `AllocateIP`, address by address, with netip's arithmetic |
| `WgConf` | `Parse` and `Serialize` line by line, and edits in sequence |
| `MCPeerServer`, `MCPeerClient`, `MCIfaceLifecycle`, `MCAddressScan`, `MCWgConf` | the finite instances TLC checks |
| `PeerListProof` | lemmas about lookup, append, removal, relabelling, allocation |
| `PeerServerProof` | types, exclusion, sound files, what an answer and the device owe the file; the refinement |
| `PeerClientProof` | the client's types, its refusals and the blocks it never touches; configs and removals that last |
| `IfaceLifecycleProof` | what `provide`, `remove` and the peer operations beside them keep |
| `AddressScanProof` | the scan, and the scan on what `provide` makes |
| `WgConfLayout` | where the blocks of a `.conf` lie, in any file and in a written one, and that `Parse` finds them there |
| `WgConfProof` | what `Serialize` writes `Parse` reads; what becomes of comments, layout and server key; edits of the text are edits of the list |
| `Induction` | induction over numbers and sequences, and that `FlattenSeq` obeys its equations; nothing about wgpeer |

`PeerServer` and `AddressScan` EXTEND `PeerList`; `PeerClient` and
`IfaceLifecycle` EXTEND `PeerServer`, each with the actors beside it. The
detailed modules meet in `PeerServer`: `PeerServer` uses `PeerList!AllocateIP` ("the least free address of
the pool") in one step, and `AddressScan` shows that the loop computes that
operator; `PeerServer` lets a process read back the peers another one wrote,
and `WgConf` shows that the text form keeps them (`WrittenIsRead`) and that to
parse, edit and rewrite the text is to edit the list as `PeerList` says
(`EditsAreListEdits`).

### PeerServer

Each process has a program counter `pc` that follows the code:

| `pc` | code | action |
|---|---|---|
| `new` | `serverMain`: load sidecar, read stdin | `Start` |
| `check` | validation in `Add`/`Kill`/`Rename` | `Check` |
| `open`, `flock`, `retry` | `acquireLock` | `OpenLock`, `OpenLockFails`, `Flock`, `FlockBusy`, `GiveUp`, `SleepAndRetry`, `FlockFails`, `DeadlinePasses` |
| `read` | `Server.read`, the decision, the edit in memory | `ReadList`, `ReadRefused`, `ReadAccepted`, `Panic` |
| `write`, `fsync`, `rename`, `dirsync` | `atomicWrite` | `WriteTemp`, `SyncTemp`, `RenameTemp`, `WriteFails`, `SyncDir` |
| `strip`, `sync` | `applySyncconf` and the rest of `Add` | `Strip`, `SyncDevice`, `ApplyFails` |
| `unlock` | the deferred `releaseLock` | `Unlock` |
| `reply` | `emit` | `Emit` |

`conf` is the file a reader opens, `survivors` the files a power loss may leave
(a rename adds one, a directory fsync leaves one, a rename of data that was not
fsynced adds a torn one), `live` the device, `lockFile`/`fd`/`holds` the lock
file, each process's open inode and whether the kernel grants it the flock.
`Crash` kills a process at any step; the kernel closes its files; a `wg
syncconf` child may survive it (`orphans`, `OrphanSync`). `PowerLoss` stops all
of them and boots from one of the survivors.

Abstracted: a public key stands for the key and its PSK, which always travel
together; AllowedIPs are their host parts, all the allocator looks at; a block
carries one flag for keys the tool drops; messages are gone. Reading, parsing
and deciding is one step: nothing can change the file under the lock (that is
`MutualExclusion` and `NoLostUpdate`), and `List` reads with one `ReadFile`.
`unknown command` and a request that is not JSON are `bad_request` before
anything else, like the refusals of `Check`, and are not modelled apart.
`AllocateIP` panics on the IPv6 subnet of a hand-written sidecar, which nothing
before it refuses; the deferred release lets the lock go and no answer is
printed (`Panic`). The sidecar is constant here: only `provide` and `remove` change it
(`IfaceLifecycle`). A .conf is `there` or not, `readable` (it parses) or not, and
has a server key or none; a sidecar is absent, broken TOML, incomplete (it parses, but a
required key is missing; the peer operations refuse it like the other two), or
loads.

### PeerRegistry and the refinement

One list `reg`; `Effect` changes it in one instant between `Call` and `Answer`;
`Judge` answers without an effect, and then `Justified` says what must be true
of the list at that instant (`name_taken` only if the name is taken, ...);
`Save` drops the older versions a power loss could return to; `internal` after
an effect is allowed (`Settle`), before one too. The mapping is at the end of
`PeerServer`: the list is `Parse(conf.peers)`, `disk` the parsed survivors, and
`PhaseOf` maps the program counter. The effect is `RenameTemp`, everything
before it is invisible.

### PeerClient

Client `p` drives server process `p`. `client[p].at` says where its command is,
or how it ended:

| `client.at` | code | action |
|---|---|---|
| `idle` | argv, `client.toml` on disk | `Invoke`, by `Prelude`: `Misused` (exit 2, `usage`), `Resolve` and `BadLabel` (exit 1, `failed`) |
| `elsewhere` | a call to another server or interface: not followed | - |
| `calling` | `sshExec` waits | `Deliver` (the request starts the server process), `LoseLink`, `Receive` |
| `lost` | an ssh that failed; the request may still arrive, whole or cut short | `Deliver` |
| `refused`, `noendpoint` | an error code; `chooseEndpoint` failing | ended by `Receive` |
| `printed`, `undrawn` | the config or the key printed; printed, but the PNG or the QR failed | ended by `Receive` |

`told[p]` is what the command printed: for an add the part of the config that
ties it to the server (key, address, server key, endpoint), for a kill or rename
the key in the answer. `picked[p]` is the key a server process found under the
label, which its answer carries (`Pick` rides on the step that decides). The
server's steps are those of `PeerServer`, unchanged: every step of the
composition is one of its steps or a stutter (theorem `ClientsDriveTheServer`).

The link is the weakest one the code lives with: it may break at any time; then
the request may arrive whole, not at all, or as the command alone. The server
takes a request that is cut short for an empty one (`add`, `kill` and `rename`
refuse both with `bad_request`, before the lock). The answer to a link that is
up arrives once. ssh never repeats a call, nor does the client, so there is no
duplication to model. The private key and the PSK never leave the client and
are one with its public key here; DNS, MTU, keepalive and routes are copied from
the sidecar into the text and left out.

`noendpoint` is the branch `client.go:136-140` calls "should not happen": that
it is never reached is part of what is checked and proved (`CallInv`).

### IfaceLifecycle

Each call of `provide` or `remove` has a record `job`: its next step (or its
answer), its command line, and what it remembers. The steps are the system calls
in the order of the code:

| `job.at` | code | action |
|---|---|---|
| `new` | `provideMain`, `removeMain`, validation in `Provide` | `Begin` |
| `statconf`, `statsidecar` | `mustNotExist`, twice | `StatConf`, `StatSidecar` |
| `writeconf`, `writesidecar` | `atomicWrite`, twice | `WriteConf`, `WriteSidecar` |
| `enable` | `runEnable` | `Enable` |
| any of these failing | error returns of `Provide` | `ProvideFails` |
| `plan`, `confirm` | `Plan` and `confirmRemove` in `removeMain` | `ShowPlan`, `Confirm`, `PlanRefused` |
| `replan` | `Plan` again, in `Remove` | `Replan`, `PlanRefused` |
| `readconf`, `backup` | the backup | `ReadForBackup`, `WriteBackup`, `BackupFails` |
| `disable` | `runDisable` | `Disable`, `DisableFails` |
| `delconf`, `delsidecar`, `dellock` | the deletions | `DeleteConf`, `DeleteSidecar`, `DeleteLock`, `DeleteFails` |

`up` is the systemd unit and its interface together, `backups` one file per day,
`AdminCrash` kills a call anywhere, `Midnight` changes the date. `PeerStep` is
every step of `PeerServer` but the power loss, with `wg syncconf` needing the
interface. Neither call takes the lock, and `remove` deletes the lock file others
may hold, so under overlap the code promises little: two provides replace each
other; a mutator that read before a removal brings the .conf back, over a newer
one if there is one, and beside whoever holds the new lock file. What it does
promise depends on who met whom, and two history variables that no guard reads
keep that for the callers in progress. `beside` holds those that overlapped with
a provide or remove, `near` those that overlapped with a peer operation that is
in `beside`; a caller in neither is `Apart`. Both forget a caller when it ends,
so an overlap of the past excuses nothing later. Then

* a remove that is apart and warns of nothing leaves nothing, and one that says
  `not_found` had nothing to remove (`RemovedForGood`);
* a peer operation that is apart edits the .conf as it is, under the sidecar in
  force, two lock files or not (`PeersKeepInterface`). Leaving `near` out of
  `Apart` would be wrong: an old mutator waits before its rename while a
  `remove` and a `provide` come and go, and renames its .conf back between the
  read and the rename of a later add, which met neither of the two calls;
* the call that loses the last copy of a private key is a remove told to keep
  none, a second backup on one day, which takes the first one's name, a delete
  or a peer operation that was itself overlapped, or a `provide` that was: one
  in `beside` only loses the key another `provide` has just generated, one in
  `near` may lose what a mutator brought back (`KeyNotDropped`).

A sidecar that parses but lacks `conf_path` or `subnet` is `incomplete`: the peer
operations refuse it, `provide` takes it for an existing sidecar, and `remove`
goes on, at the conventional path if it names none. `MaxAtOnce` bounds the
callers in progress at one time. `Plan` is one
step: its read of the sidecar and its stat of the .conf see nothing that did not
hold together at some instant between them, since the .conf is both written and
deleted before the sidecar. `CustomPath` says that the sidecar names another
path than `<WGDir>/<iface>.conf`; instances with it have no `provide`, which
knows only the conventional path.

### AddressScan

One step per iteration, `Width` bits for 32. `NextAddr` of the highest address
is the zero `Addr`, less than every address, as in `net/netip`. `TooSmall`,
`ServerAddress` and `Provided` are what `provide` accepts as subnet and address
and then writes as the only reserved address; the scan is also checked on
interfaces made this way.

### WgConf

A file is a sequence of lines classified as the parser does: empty, `[Peer]`,
`# name:`, other comment, the three known keys, other `key = value`, other
text; what stands after a key is a `Text`. `Parse` and `Serialize` are translated
as functions. The parser's single pass becomes, per `[Peer]` line, the lines it
gives to that block: `Lead` above it, `Body` below it, the rest is the header;
what it collects on the way is `FlattenSeq` of what each line adds. `Add`, `Kill`
and `Rename` parse `file`, edit and rewrite; `memory` is the list of peers
(`PeerRec`) they held when they wrote. `InterfacePrivateKey` is the key every
add derives the server's public key from. `Listed` is the `.conf` as the list
`PeerServer` keeps: a `List` instance of `PeerList` whose key is the public key
with its PSK, whose addresses are the hosts of AllowedIPs (`Host`), and whose flag
says that the block holds keys the next rewrite drops (`DropsKeys`). Abstracted: white space within a line (so a
line of blanks only is an empty one), key case, the syntax of addresses (one
value stands for one that does not parse).

## 3. Runs

| Run | Instance | Checks |
|---|---|---|
| `server_safety` | 3 processes (symmetric), add alice/add bob/kill alice/rename alice to bob, a pool of 2 addresses with an unlabelled peer (or bob) on one of them, 1 power loss | `MutualExclusion`, `NoLostUpdate`, `UniqueNames`, `NoSharedAddress`, `NeverTorn`, `AckedAddSurvives`, `DeviceMatchesFile`, `SyncRepairsDevice`, `ImplementsRegistry` |
| `server_refusals` | 2 processes, 13 requests with every way to be malformed, 6 sidecars, 4 files (empty, unlabelled and roaming blocks, no PrivateKey, unreadable), directory fsync may fail | `TypeOK`, `RefusedAddLeavesNoTrace`, `ImplementsRegistry` |
| `client` | 2 clients, each with one of 14 invocations (adds with and without an endpoint, a bad `--qr`, a bad label, kills with a menu of several servers and interfaces, renames of a label and of none, lists), endpoint menus of 0, 1 and 2 entries, a file with bob and an unlabelled peer, kills of processes, 1 power loss | `ClientTypeOK`, `ConfigStaysValid`, `NoStrayPeer`, `KilledStaysOut`, `OnlyListedInterfaces`, `UnlabelledUntouched` |
| `server_liveness` | 2 clients (an add, a rename) and their servers under fairness, an IPv4 or an IPv6 sidecar, 1 power loss | `WaitersAnswered`, `EveryCallEnds`, `ClientEnds` |
| `rename_drops_keys` | as above, one block with an Endpoint | violates `RenameInvisibleToKernel` |
| `address_scan` | all 32 subnets of a 3-bit space, all 256 sets of taken addresses, 10 reserved lists (none, two, each single address) | `AnswersLeastFree`, `ScanEnds`, `ProvidedPoolIsSound` |
| `address_scan_top` | same | violates `ExhaustionReported` |
| `conf_rewrite` | 2646 files of two blocks (6 headers, 7 comment layouts, 3 bodies) and 4 odd ones, up to 2 edits | `TypeOK`, `WrittenIsRead`, `RewriteSettles`, `CommentsKept`, `ServerKeyKept`, `EditsAreListEdits` |
| `conf_canonical` | the layout of the repository's own round-trip test, up to 2 edits | violates `WrittenIsCanonical` |
| `conf_interface` | `[Interface]` below a `[Peer]` | violates `InterfaceKept` |
| `lifecycle` | 2 calls (provide; remove asking and with backup, remove with neither; a mistyped one) and 2 processes with one `add` each, at most 2 of the four in progress at once; sidecar absent, broken, incomplete or fine, .conf there or not, 2 days; calls and processes are symmetric, each `provide` generates a key of its own; seen through `StillRead` | `LifecycleTypeOK`, `KeyNotDropped`, `RemovedForGood`, `PeersKeepInterface` |
| `lifecycle_leftover` | 2 removes, a custom conf_path | violates `LeftoverFound` |

Why the bounds are enough. Three processes are a holder, a waiter and one that
starts late, enough for two holders on different inodes and for an orphan child
overtaken by a later commit. Two addresses with one taken by hand make the pool
run out. Two clients are the one whose config or removal is watched and one whose
call comes between; the invocations reach each ending of a command. One power loss shows every survivor; a second adds a boot from a file
that is already a survivor. Two blocks and two edits make each block the first
one once, which is where `Parse` treats it differently. Three bits give each
prefix length its own case (`/32`, `/31`, `/30`, shorter) at the bottom, in the
middle and at the top of the space. Two lifecycle calls and two
peer operations of which two run at once make every pair that overlaps, and what
a failed, killed or overlapped one leaves for those after it: the old mutator
that holds a deleted lock beside the one that holds the new one needs all four.
Two days tell a second backup of one day from one of the next.

The bounds by name: `MaxPowerLosses`, `MaxEdits`, `LastDay` and `MaxAtOnce`.
Not reached by `lifecycle`, and only proved, are three callers at once and the
second backup of one day that takes the last copy of a key with it (it needs
three calls). The run's `VIEW` leaves out of a state what no enabled guard and
no property reads any more: the registers of a process that has not started or
is over, the record of a call that is over, and the files a power loss would
leave, since there is none in this module. States equal in the rest have the
same futures, so nothing is missed but type errors in what is left out, and
`LifecycleTypeCorrect` proves there are none.

Fairness. `FairSpec` assumes of each started process that it keeps running
(weak fairness of its own steps) and that time passes (`DeadlinePasses`): an
operating system that schedules a runnable process. Nobody is forced to start,
to crash or to recover. Nothing is assumed of `wg-quick` and `wg` except where
`EveryCallEnds` and `ClientEnds` say so in their own premise (`ChildrenReturn`):
`exec` has no timeout, and `WaitersAnswered` holds without that premise.
`FairClientSpec` adds of a calling client that its ssh goes on (`CallGoesOn`):
it delivers, or brings the answer, or notices that the far side cannot be
reached or has died. That a link that is up ever breaks is not assumed.

Each property has a mutant, an operator placed just before the definition it
replaces and marked `Mutant:` with the slip it stands for (no fsync, lock file
deleted on unlock, a missing duplicate check, ...); under the run's own
configuration the mutated model violates the property.

### Disagreements found

* `Rename` says the kernel sees no change, but rewriting drops keys of
  hand-written blocks (`rename_drops_keys`).
* `AllocateIP` on a full `/31` or `/32` at the very top of the address space
  returns an invalid prefix, no error (`address_scan_top`). `AnswersLeastFree`
  therefore has the premise `BelowTop`.
* `Serialize` is not idempotent after the first peer was killed
  (`conf_canonical`).
* An `[Interface]` section below a `[Peer]` is deleted (`conf_interface`).
* A `remove` that cannot delete a `.conf` at a custom path still deletes the
  sidecar that names the path, and no later `remove` finds the `.conf`
  (`lifecycle_leftover`).

## 4. Proofs

For every number of processes and clients, every set of requests, invocations,
sidecars and files, every address width, and every hand-written `.conf` of any
length. Assumptions: the named ASSUMEs of
the modules (constants have their types; labels that validate are labels, and
no label of a request is empty; the empty text is a text; each
client generates a key of its own, in no initial file; a provide or remove is not
a peer operation; some number of callers may run at once; a `.conf` that is missing has no key and no peers), and two
premises, named where they are used:
`FilesAreSound`, of three theorems, that the file a system starts with is whole
and keeps labels and addresses apart; `KeysAreSingle`, of `KilledStaysOutHolds`,
that it has no key twice (a human could have written files that do not; a kill
removes one block).

The invariants build on one another; each is inductive with those above it in
its module. Two modules have a `TypeCorrect`: the first is `PeerServerProof`'s.

| Theorem | By | Why the invariant is needed |
|---|---|---|
| `TypeCorrect` | `TypeOK`, `Validated` | without `Validated` (a process past its checks holds a well-formed request) an undecodable key could reach the file |
| `MutualExclusionHolds` | `LockInv` | every open lock file is the one at the path, and `holds` is exactly `Critical`: no step of the server unlinks the lock file |
| `NoLostUpdateHolds` | `WorkInv` | the edit a process is about to write is the edit of the file as it is, and fsynced before the rename; exclusion keeps the file still meanwhile |
| `UniqueNamesHolds`, `NoSharedAddressHolds`, `NeverTornHolds` | `FileInv` | file and survivors are sound; rests on `EditProperties` and the lemmas of `PeerListProof` |
| `RegistryImplemented` | `WorkInv` | `Spec => Registry!Spec`, a lemma per part of the program; the crux is `RenameTempRefines` (by `WorkInv` the renamed file is an edit of the current list, by `EditIsAnEffect` an effect of the registry) and `VerdictIsJustified` |
| `SyncRepairsDeviceHolds` | `StripInv` | what is piped into `wg syncconf` is the file as it is, because the lock is held from the strip to the sync |
| `RefusedAddLeavesNoTraceHolds` | `OutcomeInv`, `OriginInv` | a key in any file was there at the start or was brought by an add that has not refused; an answer is decided only where nothing can still be written |
| `AckedAddSurvivesHolds` | `AckInv` | a key that was renamed in is in the file, one past its directory fsync is in all survivors, and later edits keep it |
| `DeviceMatchesFileHolds` | `DeviceInv` | while nothing died or failed there is no orphan, and the device lags only behind a mutator between its rename and its sync |
| `ClientsDriveTheServer` | - | `ClientSpec => Spec`: all of the above holds under clients |
| `ClientTypeCorrect` | `ClientInv` | types of what is printed and picked follow from what the answer carries |
| `OnlyListedInterfacesHolds` | `ListedInv` | a client that calls resolved its own line to the interface it calls |
| `NoStrayPeerHolds` | `OriginInv`, `CallInv`, `DecidedInv` | only process `p` brings the key of client `p`; the endpoint the client will look for is one the server found in the menu (`AnswerInv`), so `noendpoint` is unreachable |
| `UnlabelledUntouchedHolds` | `Validated`, `WorkInv` | a mutation past its checks names a label, so the block it reaches has one |
| `ConfigStaysValidHolds` | `FilesInv`, `AddInv`, `ToldInv`, `LiveInv` | from the rename on the block is in the file, from the directory fsync on in all survivors; edits keep it under its key until a kill picks it; every sync brings it to the device |
| `KilledStaysOutHolds` | `KillInv`, `LiveInv` | the picked key is in one block only, and after the directory fsync in no file; a later add brings another client's key |
| `LifecycleTypeCorrect` | `LifeTypeInv` | the backup is written under a day only if the plan stamped one |
| `PeersKeepInterfaceHolds` | `MeetInv`, `HoldInv`, `StrayInv`, `TouchInv` | whoever has a lock inode open that is no longer at the path was beside the `remove` that deleted it (`StrayInv`); so two holders at once were not both apart (`ExclusionUnlessBeside`), and what an apart one read, of the sidecar and of the .conf, is still so when it renames (`TouchInv`) |
| `RemovedForGoodHolds` | `MeetInv`, `AloneInv` | what a call that is apart has found or torn down stays so until its next step (`OthersLeave`): an orphaned `wg syncconf` needs an interface that is up |
| `KeyNotDroppedHolds` | `TouchInv`, `FreshInv`, `MissingInv`, `AloneInv` | an apart rename keeps the server key; a `provide` past its look at the .conf finds none when it writes, or one another `provide` beside it wrote, unless it is in `near` (`FreshInv`); before it deletes, an apart `remove` has the current key in a backup unless told to keep none |
| `AnswersLeastFreeHolds` | `ScanInv` | everything the loop has passed is taken |
| `ProvidedPoolIsSoundHolds` | `ScanInv` | the hosts of a subnet that `provide` accepts are more than its one reserved address, and the subnet ends inside the address space (`BlockFits`, `Division`) |
| `WgConfProof!TypeCorrect` | `TypeOK` | whatever `Parse` makes of any lines are peers with their types (`ParseType`), and `Serialize` makes lines of them |
| `WrittenIsReadHolds` | `TypeOK`, `WrittenIsRead` | `RoundTrip`: in a written file the `[Peer]` lines are those of the blocks, one each (`Layout`), so `Lead` and `Body` find just what `Above` and `Below` wrote |
| `RewriteSettlesHolds` | `TypeOK` | `Settles`: after one rewrite the header has no blank end and the first block no lead, and neither comes back |
| `ServerKeyKeptHolds` | `TypeOK` | `KeyKept`: the interface's own keys are the header's, in order, and trimming takes no key |
| `CommentsKeptHolds` | `TypeOK`, `WrittenIsRead` | `CommentsParsed`, `CommentsWritten`: a file's comments are those of its header and its blocks, in order, both when read and when written; so a kill takes its block's, and an add or a rename none |
| `EditsAreListEditsHolds` | `TypeOK` | what a process reads is the list of the blocks `Parse` found (`ReadEntries`); what it writes is read with no key left to drop (`NothingDropped`, `ListedWritten`); and taking the entries of peers commutes with append, removal and relabelling (`EntriesAppend`, `EntriesRemove`, `EntriesRename`) |

Induction. The library's induction theorems take a predicate as a parameter,
which the provers cannot instantiate; its theorem on well-founded relations
(`WFMin`) takes a set. `Induction` derives from it induction over numbers and
sequences for sets (`NatInduct`, `SeqInduct`: a property becomes the set of the
numbers or sequences that have it) and the existence of functions defined by
recursion (`RecursionExists`). `FlattenSeq`, a fold over a function, is brought
down to its equations once (`FlattenAppend`, `FlattenConcat`, `FlattenSegments`),
and `WgConf` recurses through it alone. Powers of two in `AddressScan` are such
a function too: that they are positive and that subnets tile the address space
is proved (`PowerEquation`, `Division`), not assumed.

Only model-checked: liveness (`WaitersAnswered`, `EveryCallEnds`, `ClientEnds`,
`ScanEnds`: fairness and ENABLED are outside the prover's reach). Every safety
property of a passing run is a theorem. The five claims of section 3 that the code
does not keep are shown by TLC's counterexamples.

## 5. Not modelled

Key arithmetic (`wgkey`: a key is a value that decodes or does not, a pair is one
value), QR rendering (it succeeds or fails), the splitting of argv into flags and
names, wording and tables, TOML and JSON syntax beyond "loads" and "is cut short",
the tunnel settings of a config (DNS, MTU, keepalive, `--split`), how `provide`
finds public addresses and a port, and the non-Linux stub. None of these holds
state between two commands. Not composed: power losses and clients beside
`provide` and `remove` (`PeerServer` and `PeerClient` have them for the peer
operations), which would not fit a run; and two interfaces of one server, which
share nothing.

## 6. Plan

1. *(done)* `PeerList`, `PeerRegistry`, `PeerServer`, their runs, type
   correctness, exclusion, lost updates, file soundness, refinement.
2. *(done)* `AddressScan` and its proof; `WgConf`.
3. *(done)* `IfaceLifecycle`: `provide` and `remove` beside the peer operations.
4. *(done)* `PeerClient`: the commands over an ssh that may break, composed with
   `PeerServer`; `config.Resolve`.
5. *(done)* Proofs of what the server's answers and the device owe the file, and
   of the client's safety properties.
6. *(done)* Proofs of the lifecycle's types and properties.
7. *(done)* Proofs about the `.conf` reader and writer, with the induction they
   need; edits of the text as edits of the list; the arithmetic of subnets proved
   instead of assumed.

What could follow: power losses beside `provide` and `remove`, which fsync as the
peer operations do but are not taken apart here.
