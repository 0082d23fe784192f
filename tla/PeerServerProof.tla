-------------------------- MODULE PeerServerProof --------------------------
(***************************************************************************)
(* Proofs about PeerServer, for any number of processes, any requests, any *)
(* initial file and any number of power losses.                            *)
(***************************************************************************)
EXTENDS PeerServer, PeerListProof

(* A process past its checks holds a well-formed request; List takes no lock.*)
Validated ==
  \A p \in Proc : pc[p] \notin {"new", "check", "reply", "done", "dead"} =>
    /\ ~Malformed(req[p], cfg[p])
    /\ req[p].op = "list" => pc[p] = "read"

DevicePeer == [key: Key, ips: SUBSET Addr, extra: BOOLEAN]

LEMMA DeviceViewType ==
  ASSUME NEW blocks \in Seq(Peer)
  PROVE  DeviceView(blocks) \subseteq DevicePeer
<1>1. \A i \in DOMAIN blocks : blocks[i] \in Peer
  BY LenProperties
<1>. QED  BY <1>1 DEF DeviceView, DevicePeer, Peer

LEMMA TornType == Torn \in Conf
BY EmptySeq DEF Torn, Unreadable, Conf

(* AllocateIP answers with an address of the pool that nobody has. *)
LEMMA AllocateIPProperties ==
  ASSUME NEW peers, NEW pool \in SUBSET Addr, NEW reserved,
         Free(peers, pool, reserved) # {}
  PROVE  /\ AllocateIP(peers, pool, reserved) \in Addr
         /\ AllocateIP(peers, pool, reserved) \in Free(peers, pool, reserved)
<1>1. Free(peers, pool, reserved) \in SUBSET Nat
  BY AddrAssumption DEF Free
<1>2. AllocateIP(peers, pool, reserved) \in Free(peers, pool, reserved)
  BY <1>1, LeastProperties DEF AllocateIP
<1>. QED  BY <1>2 DEF Free

(* The list an accepted request leaves is a list of peers again, and keeps  *)
(* labels and addresses apart.                                              *)
LEMMA EditProperties ==
  ASSUME NEW r \in Request, NEW c \in ServerConfig, NEW peers \in Seq(Peer),
         ~Malformed(r, c), Verdict(r, c, peers) = "ok"
  PROVE  /\ Edit(r, c, peers) \in Seq(Peer)
         /\ DistinctNames(peers) => DistinctNames(Edit(r, c, peers))
         /\ DistinctAddresses(peers) => DistinctAddresses(Edit(r, c, peers))
<1> DEFINE ip == AllocateIP(peers, c.pool, c.reserved)
<1>1. CASE r.op = "add"
  <2>1. r.key \in Key /\ r.name \in Label
    BY <1>1, LabelAssumption DEF Malformed, Request
  <2>2. ~NameExists(peers, r.name) /\ Free(peers, c.pool, c.reserved) # {}
    BY <1>1 DEF Verdict
  <2>3. ip \in Addr /\ ip \in Free(peers, c.pool, c.reserved)
    BY <2>2, AllocateIPProperties DEF ServerConfig
  <2>4. NewPeer(r, c, peers) \in Peer
    BY <2>1, <2>3 DEF NewPeer, Peer
  <2>5. /\ NewPeer(r, c, peers).name = r.name
        /\ NewPeer(r, c, peers).ips = {ip}
    BY DEF NewPeer
  <2>6. NewPeer(r, c, peers).ips \cap Occupied(peers) = {}
    BY <2>3, <2>5 DEF Free
  <2>7. r.name # NoName => Named(peers, r.name) = {}
    BY <2>2, FindByNameProperties DEF NameExists
  <2>8. Edit(r, c, peers) = AddPeer(peers, NewPeer(r, c, peers))
    BY <1>1 DEF Edit
  <2>. QED  BY <2>4, <2>5, <2>6, <2>7, <2>8, AddPeerProperties
<1>2. CASE r.op = "kill"
  <2>1. FindByName(peers, r.name) # 0
    BY <1>2 DEF Verdict
  <2>2. Edit(r, c, peers) = RemoveByName(peers, r.name)
    BY <1>2 DEF Edit
  <2>. QED  BY <2>1, <2>2, RemoveByNameProperties
<1>3. CASE r.op = "rename"
  <2>1. /\ FindByName(peers, r.name) # 0
        /\ FindByName(peers, r.newName) \in {0, FindByName(peers, r.name)}
    BY <1>3 DEF Verdict
  <2>2. Edit(r, c, peers) = Relabel(peers, r.name, r.newName)
    BY <1>3 DEF Edit
  <2>3. r.newName \in Label \cup {NoName}
    BY DEF Request
  <2>. QED  BY <2>1, <2>2, <2>3, RelabelProperties
<1>4. CASE r.op = "list"
  BY <1>4 DEF Edit
<1>. QED  BY <1>1, <1>2, <1>3, <1>4 DEF Request

-----------------------------------------------------------------------------
(* Types, and what validation leaves true of a request. *)
TypeInv == TypeOK /\ Validated

LEMMA TypeInit == Init => TypeInv
<1> SUFFICES ASSUME Init  PROVE TypeInv
  OBVIOUS
<1>1. conf \in Conf /\ sidecar \in ServerConfig
  BY InputAssumption DEF Init
<1>2. live \subseteq DevicePeer
  BY <1>1, DeviceViewType DEF Init, Conf
<1>3. Idle \in Request
  BY DEF Idle, Request
<1>4. TypeOK
  BY <1>1, <1>2, <1>3, TornType, FlagAssumption
     DEF Init, TypeOK, Steps, Statuses, DevicePeer
<1>5. Validated
  BY DEF Init, Validated
<1>. QED  BY <1>4, <1>5 DEF TypeInv

LEMMA StartType ==
  ASSUME TypeInv, NEW p \in Proc, Start(p)
  PROVE  TypeInv'
<1> USE DEF TypeInv, Start, Goto, files, device, locks
<1>1. TypeOK'
  BY InputAssumption DEF TypeOK, Steps
<1>2. Validated'
  BY DEF TypeOK, Validated
<1>. QED  BY <1>1, <1>2

LEMMA CheckType ==
  ASSUME TypeInv, NEW p \in Proc, Check(p)
  PROVE  TypeInv'
<1> USE DEF TypeInv, Check, Goto, Decide, files, device, locks, memory
<1>1. TypeOK'
  BY DEF TypeOK, Steps, Statuses
<1>2. Validated'
  BY DEF TypeOK, Validated
<1>. QED  BY <1>1, <1>2

LEMMA AcquireType ==
  ASSUME TypeInv, NEW p \in Proc, AcquireStep(p) \/ DeadlinePasses(p)
  PROVE  TypeInv'
<1> USE DEF TypeInv, Goto, Decide, files, device, locks, memory
<1>1. CASE OpenLock(p)
  BY <1>1 DEF OpenLock, TypeOK, Validated, Steps
<1>2. CASE OpenLockFails(p)
  BY <1>2 DEF OpenLockFails, TypeOK, Validated, Steps, Statuses
<1>3. CASE Flock(p)
  BY <1>3 DEF Flock, TypeOK, Validated, Steps
<1>4. CASE FlockBusy(p)
  BY <1>4 DEF FlockBusy, TypeOK, Validated, Steps
<1>5. CASE GiveUp(p)
  BY <1>5 DEF GiveUp, TypeOK, Validated, Steps, Statuses
<1>6. CASE SleepAndRetry(p)
  BY <1>6 DEF SleepAndRetry, TypeOK, Validated, Steps
<1>7. CASE FlockFails(p)
  BY <1>7 DEF FlockFails, TypeOK, Validated, Steps, Statuses
<1>8. CASE DeadlinePasses(p)
  BY <1>8 DEF DeadlinePasses, TypeOK, Validated
<1>. QED  BY <1>1, <1>2, <1>3, <1>4, <1>5, <1>6, <1>7, <1>8 DEF AcquireStep

LEMMA ReadType ==
  ASSUME TypeInv, NEW p \in Proc, ReadStep(p)
  PROVE  TypeInv'
<1> USE DEF TypeInv, Goto, Decide, files, device, locks, memory
<1> DEFINE peers == Parse(conf.peers)
<1>1. peers \in Seq(Peer)
  BY ParseProperties DEF TypeOK, Conf
<1>2. CASE ReadList(p)
  <2>1. [conf EXCEPT !.peers = peers] \in Conf
    BY <1>1 DEF TypeOK, Conf
  <2>. HIDE DEF peers
  <2>2. work' = [work EXCEPT ![p] = [conf EXCEPT !.peers = peers]]
    BY <1>2 DEF ReadList, peers
  <2>3. PICK c \in Conf : work' = [work EXCEPT ![p] = c]
    BY <2>1, <2>2
  <2>4. PICK status \in Statuses : outcome' = [outcome EXCEPT ![p] = status]
    BY <1>2 DEF ReadList, Statuses
  <2>5. TypeOK'
    BY <1>2, <2>3, <2>4 DEF ReadList, TypeOK, Steps
  <2>6. Validated'
    BY <1>2 DEF ReadList, TypeOK, Validated
  <2>. QED  BY <2>5, <2>6
<1>3. CASE ReadRefused(p)
  <2>1. Verdict(req[p], cfg[p], peers) \in Statuses
    BY DEF Verdict, Statuses
  <2>. HIDE DEF peers
  <2>2. \E status \in Statuses : outcome' = [outcome EXCEPT ![p] = status]
    BY <1>3, <2>1 DEF ReadRefused, peers, Statuses
  <2>3. TypeOK'
    BY <1>3, <2>2 DEF ReadRefused, TypeOK, Steps
  <2>4. Validated'
    BY <1>3 DEF ReadRefused, TypeOK, Validated
  <2>. QED  BY <2>3, <2>4
<1>4. CASE ReadAccepted(p)
  <2>1. ~Malformed(req[p], cfg[p]) /\ req[p] \in Request /\ cfg[p] \in ServerConfig
    BY <1>4, InputAssumption DEF ReadAccepted, TypeOK, Validated
  <2>2. Edit(req[p], cfg[p], peers) \in Seq(Peer)
    BY <1>1, <1>4, <2>1, EditProperties DEF ReadAccepted
  <2>3. [conf EXCEPT !.peers = Edit(req[p], cfg[p], peers)] \in Conf
    BY <2>2 DEF TypeOK, Conf
  <2>4. PICK c \in Conf : work' = [work EXCEPT ![p] = c]
    BY <1>4, <2>3 DEF ReadAccepted
  <2>5. TypeOK'
    BY <1>4, <2>4 DEF ReadAccepted, TypeOK, Steps
  <2>6. Validated'
    BY <1>4 DEF ReadAccepted, TypeOK, Validated
  <2>. QED  BY <2>5, <2>6
<1>. QED  BY <1>2, <1>3, <1>4 DEF ReadStep

LEMMA WriteType ==
  ASSUME TypeInv, NEW p \in Proc, WriteStep(p)
  PROVE  TypeInv'
<1> USE DEF TypeInv, Goto, Decide, files, device, locks, memory
<1>1. CASE WriteTemp(p)
  BY <1>1 DEF WriteTemp, TypeOK, Validated, Steps
<1>2. CASE SyncTemp(p)
  BY <1>2 DEF SyncTemp, TypeOK, Validated, Steps
<1>3. CASE RenameTemp(p)
  <2>1. work[p] \in Conf
    BY DEF TypeOK
  <2>2. conf' \in Conf /\ survivors' \subseteq Conf
    BY <1>3, <2>1, TornType DEF RenameTemp, TypeOK
  <2>. QED  BY <1>3, <2>2 DEF RenameTemp, TypeOK, Validated, Steps
<1>4. CASE WriteFails(p)
  BY <1>4 DEF WriteFails, Replacing, TypeOK, Validated, Steps, Statuses
<1>5. CASE SyncDir(p)
  BY <1>5 DEF SyncDir, TypeOK, Validated, Steps, Statuses
<1>. QED  BY <1>1, <1>2, <1>3, <1>4, <1>5 DEF WriteStep

LEMMA ApplyType ==
  ASSUME TypeInv, NEW p \in Proc, ApplyStep(p)
  PROVE  TypeInv'
<1> USE DEF TypeInv, Goto, Decide, files, device, locks, memory
<1>1. CASE Strip(p)
  <2>1. DeviceView(conf.peers) \subseteq [key: Key, ips: SUBSET Addr, extra: BOOLEAN]
    BY DeviceViewType DEF TypeOK, Conf, DevicePeer
  <2>. QED  BY <1>1, <2>1 DEF Strip, TypeOK, Validated, Steps
<1>2. CASE SyncDevice(p)
  <2>1. \E status \in Statuses : outcome' = [outcome EXCEPT ![p] = status]
    BY <1>2 DEF SyncDevice, Statuses
  <2>2. TypeOK'
    BY <1>2, <2>1 DEF SyncDevice, TypeOK, Steps
  <2>3. Validated'
    BY <1>2 DEF SyncDevice, TypeOK, Validated
  <2>. QED  BY <2>2, <2>3
<1>3. CASE ApplyFails(p)
  BY <1>3 DEF ApplyFails, TypeOK, Validated, Steps, Statuses
<1>. QED  BY <1>1, <1>2, <1>3 DEF ApplyStep

LEMMA EndType ==
  ASSUME TypeInv, NEW p \in Proc, Unlock(p) \/ Emit(p) \/ Crash(p)
  PROVE  TypeInv'
<1> USE DEF TypeInv, Goto, Decide, files, device, locks, memory
<1>1. CASE Unlock(p)
  BY <1>1 DEF Unlock, TypeOK, Validated, Steps
<1>2. CASE Emit(p)
  BY <1>2 DEF Emit, TypeOK, Validated, Steps
<1>3. CASE Crash(p)
  BY <1>3 DEF Crash, Running, TypeOK, Validated, Steps
<1>. QED  BY <1>1, <1>2, <1>3

LEMMA EnvironmentType ==
  ASSUME TypeInv, OrphanSync \/ PowerLoss \/ UNCHANGED vars
  PROVE  TypeInv'
<1> USE DEF TypeInv, files, device, locks, memory
<1>1. CASE OrphanSync
  BY <1>1 DEF OrphanSync, TypeOK, Validated
<1>2. CASE PowerLoss
  <2>1. PICK kept \in survivors : /\ conf' = kept /\ survivors' = {kept}
                                 /\ live' = DeviceView(kept.peers)
    BY <1>2 DEF PowerLoss
  <2>2. live' \subseteq [key: Key, ips: SUBSET Addr, extra: BOOLEAN]
    BY <2>1, DeviceViewType DEF TypeOK, Conf, DevicePeer
  <2>3. powerLosses' \in 0..MaxPowerLosses
    BY <1>2, FlagAssumption DEF PowerLoss, TypeOK
  <2>4. pc' \in [Proc -> Steps]
    BY <1>2 DEF PowerLoss, TypeOK, Steps
  <2>5. TypeOK'
    BY <1>2, <2>1, <2>2, <2>3, <2>4 DEF PowerLoss, TypeOK
  <2>6. Validated'
    BY <1>2 DEF PowerLoss, Running, TypeOK, Validated
  <2>. QED  BY <2>5, <2>6
<1>3. CASE UNCHANGED vars
  BY <1>3 DEF vars, TypeOK, Validated
<1>. QED  BY <1>1, <1>2, <1>3

LEMMA TypeNext == TypeInv /\ [Next]_vars => TypeInv'
BY StartType, CheckType, AcquireType, ReadType, WriteType, ApplyType, EndType,
   EnvironmentType DEF Next, OwnStep, Panic, Finished

(* Every variable always has its type: in particular no request that names  *)
(* an undecodable key ever reaches the file (server.go, Add).               *)
THEOREM TypeCorrect == Spec => []TypeOK
<1>1. TypeInv => TypeOK
  BY DEF TypeInv
<1>. QED  BY TypeInit, TypeNext, <1>1, PTL DEF Spec

-----------------------------------------------------------------------------
(***************************************************************************)
(* Mutual exclusion. The flock is on an inode, not on a path, so exclusion *)
(* rests on every open lock file being the one at the path: nothing here   *)
(* ever unlinks conf_path.lock.                                            *)
(***************************************************************************)
LockInv ==
  /\ lockFile.there => lockFile.ino # 0
  /\ \A p \in Proc : fd[p] # 0 => lockFile.there /\ fd[p] = lockFile.ino
  /\ \A p \in Proc : pc[p] \in {"flock", "retry"} => fd[p] # 0
  /\ \A p \in Proc : holds[p] <=> Critical(p)
  /\ \A p \in Proc : holds[p] => fd[p] # 0
  /\ \A p, q \in Proc : holds[p] /\ holds[q] => p = q

LEMMA LockInit == Init => LockInv
BY DEF Init, LockInv, Critical, Replacing

LEMMA LockGivesExclusion == LockInv => MutualExclusion
BY DEF LockInv, MutualExclusion

LEMMA AcquireLockInv ==
  ASSUME TypeInv, LockInv, NEW p \in Proc, AcquireStep(p) \/ DeadlinePasses(p)
  PROVE  LockInv'
<1> USE DEF TypeInv, Goto, memory, locks
<1>1. CASE OpenLock(p)
  <2>1. \A q \in Proc : fd[q] # 0 => fd[q] = lockFile'.ino
    BY <1>1 DEF OpenLock, LockInv
  <2>2. lockFile'.there /\ lockFile'.ino # 0
    BY <1>1 DEF OpenLock, LockInv, TypeOK
  <2>3. fd' = [fd EXCEPT ![p] = lockFile'.ino]
    BY <1>1 DEF OpenLock
  <2>4. \A q \in Proc : Critical(q)' <=> Critical(q)
    BY <1>1 DEF OpenLock, Critical, Replacing, TypeOK
  <2>5. holds' = holds /\ \A q \in Proc : q # p => pc'[q] = pc[q]
    BY <1>1 DEF OpenLock, TypeOK
  <2>. QED  BY <2>1, <2>2, <2>3, <2>4, <2>5 DEF LockInv, TypeOK
<1>2. CASE OpenLockFails(p)
  BY <1>2 DEF OpenLockFails, LockInv, Critical, Replacing, TypeOK
<1>3. CASE Flock(p)
  <2>1. \A q \in Proc : ~holds[q]
    BY <1>3 DEF Flock, LockBusy, LockInv
  <2>2. req[p].op # "list"
    BY <1>3 DEF Flock, Validated
  <2>. QED  BY <1>3, <2>1, <2>2 DEF Flock, LockInv, Critical, Replacing, TypeOK
<1>4. CASE FlockBusy(p)
  BY <1>4 DEF FlockBusy, LockInv, Critical, Replacing, TypeOK
<1>5. CASE GiveUp(p)
  BY <1>5 DEF GiveUp, LockInv, Critical, Replacing, TypeOK
<1>6. CASE SleepAndRetry(p)
  BY <1>6 DEF SleepAndRetry, LockInv, Critical, Replacing, TypeOK
<1>7. CASE FlockFails(p)
  BY <1>7 DEF FlockFails, LockInv, Critical, Replacing, TypeOK
<1>8. CASE DeadlinePasses(p)
  BY <1>8 DEF DeadlinePasses, LockInv, Critical
<1>. QED  BY <1>1, <1>2, <1>3, <1>4, <1>5, <1>6, <1>7, <1>8 DEF AcquireStep

LEMMA WorkLockInv ==
  ASSUME TypeInv, LockInv, NEW p \in Proc,
         Start(p) \/ Check(p) \/ ReadStep(p) \/ WriteStep(p) \/ ApplyStep(p)
  PROVE  LockInv'
<1> USE DEF TypeInv, Goto, locks, memory
<1>1. UNCHANGED <<lockFile, fd, holds>>
  BY DEF Start, Check, ReadStep, ReadList, ReadRefused, ReadAccepted, WriteStep,
         WriteTemp, SyncTemp, RenameTemp, WriteFails, SyncDir, ApplyStep, Strip,
         SyncDevice, ApplyFails
<1>2. /\ \A q \in Proc \ {p} : pc'[q] = pc[q] /\ req'[q] = req[q]
      /\ pc'[p] \notin {"flock", "retry"}
      /\ Critical(p)' <=> Critical(p)
  <2>1. CASE Start(p)
    BY <2>1 DEF Start, Critical, Replacing, TypeOK
  <2>2. CASE Check(p)
    BY <2>2 DEF Check, Critical, Replacing, TypeOK
  <2>3. CASE ReadStep(p)
    BY <2>3 DEF ReadStep, ReadList, ReadRefused, ReadAccepted, Critical, Replacing, TypeOK
  <2>4. CASE WriteStep(p)
    BY <2>4 DEF WriteStep, WriteTemp, SyncTemp, RenameTemp, WriteFails, SyncDir,
                Critical, Replacing, TypeOK
  <2>5. CASE ApplyStep(p)
    BY <2>5 DEF ApplyStep, Strip, SyncDevice, ApplyFails, Critical, Replacing, TypeOK
  <2>. QED  BY <2>1, <2>2, <2>3, <2>4, <2>5
<1>3. \A q \in Proc : Critical(q)' <=> Critical(q)
  BY <1>2 DEF Critical
<1>. QED  BY <1>1, <1>2, <1>3 DEF LockInv

LEMMA EndLockInv ==
  ASSUME TypeInv, LockInv, NEW p \in Proc, Unlock(p) \/ Emit(p) \/ Crash(p)
  PROVE  LockInv'
<1> USE DEF TypeInv, Goto, locks, memory
<1>1. /\ fd' = [fd EXCEPT ![p] = 0] /\ holds' = [holds EXCEPT ![p] = FALSE]
      /\ lockFile' = lockFile /\ req' = req
      /\ \A q \in Proc \ {p} : pc'[q] = pc[q]
      /\ pc'[p] \in {"reply", "done", "dead"}
  BY DEF Unlock, Emit, Crash, TypeOK
<1>2. /\ ~Critical(p)'
      /\ \A q \in Proc \ {p} : Critical(q)' <=> Critical(q)
  BY <1>1 DEF Critical, Replacing
<1>. QED  BY <1>1, <1>2 DEF LockInv, TypeOK

LEMMA EnvironmentLockInv ==
  ASSUME TypeInv, LockInv, OrphanSync \/ PowerLoss \/ UNCHANGED vars
  PROVE  LockInv'
<1> USE DEF TypeInv, locks, memory
<1>1. CASE OrphanSync
  BY <1>1 DEF OrphanSync, LockInv, Critical
<1>2. CASE PowerLoss
  BY <1>2 DEF PowerLoss, Running, LockInv, Critical, Replacing, TypeOK
<1>3. CASE UNCHANGED vars
  BY <1>3 DEF vars, LockInv, Critical
<1>. QED  BY <1>1, <1>2, <1>3

LEMMA LockNext == TypeInv /\ LockInv /\ [Next]_vars => LockInv'
BY AcquireLockInv, WorkLockInv, EndLockInv, EnvironmentLockInv
   DEF Next, OwnStep, Panic, Finished

(* At most one process is between reading the .conf and giving the lock     *)
(* back, whatever is killed, times out or fails (fsops.go, acquireLock).    *)
THEOREM MutualExclusionHolds == Spec => []MutualExclusion
BY TypeInit, TypeNext, LockInit, LockNext, LockGivesExclusion, PTL DEF Spec

-----------------------------------------------------------------------------
(***************************************************************************)
(* No lost update: what a process is about to rename over the .conf is the *)
(* edit of the .conf as it is now, and it has been fsynced by then. The    *)
(* exclusion of LockInv is what keeps the .conf still meanwhile.           *)
(***************************************************************************)
WorkInv ==
  /\ NoLostUpdate
  /\ \A p \in Proc : pc[p] = "rename" => tmp[p] = "synced"

SameMemory(q) ==
  /\ pc'[q] = pc[q] /\ req'[q] = req[q] /\ cfg'[q] = cfg[q]
  /\ work'[q] = work[q] /\ tmp'[q] = tmp[q]

LEMMA WorkInit == Init => WorkInv
BY DEF Init, WorkInv, NoLostUpdate, Replacing

(* A step that keeps the .conf and the memory of the others keeps WorkInv   *)
(* if the process taking it is not about to replace the file.               *)
LEMMA WorkFrame ==
  ASSUME WorkInv, NEW p \in Proc, conf' = conf, pc'[p] \notin Replacing,
         \A q \in Proc \ {p} : SameMemory(q)
  PROVE  WorkInv'
BY DEF WorkInv, NoLostUpdate, SameMemory, Replacing

LEMMA WorkNext == TypeInv /\ LockInv /\ WorkInv /\ [Next]_vars => WorkInv'
<1> SUFFICES ASSUME TypeInv, LockInv, WorkInv, [Next]_vars  PROVE WorkInv'
  OBVIOUS
<1> USE DEF TypeInv, Goto, files, device, locks, memory
<1>1. ASSUME NEW p \in Proc,
             Start(p) \/ Check(p) \/ AcquireStep(p) \/ ReadList(p) \/ ReadRefused(p)
               \/ WriteFails(p) \/ SyncDir(p) \/ ApplyStep(p) \/ Unlock(p) \/ Emit(p)
               \/ Crash(p)
      PROVE  WorkInv'
  <2>1. conf' = conf
    BY <1>1 DEF Start, Check, AcquireStep, OpenLock, OpenLockFails, Flock, FlockBusy,
                GiveUp, SleepAndRetry, FlockFails, ReadList, ReadRefused, WriteFails,
                SyncDir, ApplyStep, Strip, SyncDevice, ApplyFails, Unlock, Emit, Crash
  <2>2. pc'[p] \notin Replacing
    BY <1>1 DEF Start, Check, AcquireStep, OpenLock, OpenLockFails, Flock, FlockBusy,
                GiveUp, SleepAndRetry, FlockFails, ReadList, ReadRefused, WriteFails,
                SyncDir, ApplyStep, Strip, SyncDevice, ApplyFails, Unlock, Emit, Crash,
                Replacing, TypeOK
  <2>3. \A q \in Proc \ {p} : SameMemory(q)
    BY <1>1 DEF Start, Check, AcquireStep, OpenLock, OpenLockFails, Flock, FlockBusy,
                GiveUp, SleepAndRetry, FlockFails, ReadList, ReadRefused, WriteFails,
                SyncDir, ApplyStep, Strip, SyncDevice, ApplyFails, Unlock, Emit, Crash,
                SameMemory, TypeOK
  <2>. QED  BY <2>1, <2>2, <2>3, WorkFrame
<1>2. ASSUME NEW p \in Proc, ReadAccepted(p)
      PROVE  WorkInv'
  <2>1. /\ conf' = conf /\ conf.readable /\ req' = req /\ cfg' = cfg /\ tmp' = tmp
        /\ Verdict(req[p], cfg[p], Parse(conf.peers)) = "ok"
        /\ pc'[p] = "write"
        /\ work'[p] = [conf EXCEPT !.peers = Edit(req[p], cfg[p], Parse(conf.peers))]
        /\ \A q \in Proc \ {p} : SameMemory(q)
    BY <1>2 DEF ReadAccepted, SameMemory, TypeOK
  <2>. QED  BY <2>1 DEF WorkInv, NoLostUpdate, SameMemory, Replacing
<1>3. ASSUME NEW p \in Proc, WriteTemp(p) \/ SyncTemp(p)
      PROVE  WorkInv'
  <2>1. /\ conf' = conf /\ req' = req /\ cfg' = cfg /\ work' = work
        /\ pc[p] \in Replacing /\ (pc'[p] = "rename" => tmp'[p] = "synced")
        /\ \A q \in Proc \ {p} : SameMemory(q)
    BY <1>3 DEF WriteTemp, SyncTemp, SameMemory, Replacing, TypeOK
  <2>. QED  BY <2>1 DEF WorkInv, NoLostUpdate, SameMemory, Replacing
<1>4. ASSUME NEW p \in Proc, RenameTemp(p)
      PROVE  WorkInv'
  <2>1. \A q \in Proc \ {p} : pc[q] \notin Replacing
    BY <1>4, LockGivesExclusion DEF MutualExclusion, Critical, RenameTemp, Replacing
  <2>2. pc'[p] = "dirsync" /\ \A q \in Proc \ {p} : pc'[q] = pc[q]
    BY <1>4 DEF RenameTemp, TypeOK
  <2>3. \A q \in Proc : pc'[q] \notin Replacing
    BY <2>1, <2>2 DEF Replacing
  <2>. QED  BY <2>3 DEF WorkInv, NoLostUpdate, Replacing
<1>5. CASE OrphanSync \/ UNCHANGED vars \/ \E p \in Proc : DeadlinePasses(p)
  <2>1. UNCHANGED <<conf, pc, req, cfg, work, tmp>>
    BY <1>5 DEF OrphanSync, vars, DeadlinePasses
  <2>. QED  BY <2>1 DEF WorkInv, NoLostUpdate
<1>6. CASE PowerLoss
  <2>1. \A q \in Proc : pc'[q] \in {"new", "done", "dead"}
    BY <1>6 DEF PowerLoss, Running, TypeOK
  <2>. QED  BY <2>1 DEF WorkInv, NoLostUpdate, Replacing
<1>. QED  BY <1>1, <1>2, <1>3, <1>4, <1>5, <1>6
          DEF Next, OwnStep, Panic, ReadStep, WriteStep, Finished

(* No process ever replaces a file it did not decide on (server.go: read,   *)
(* decide and write under one flock).                                       *)
THEOREM NoLostUpdateHolds == Spec => []NoLostUpdate
<1>1. WorkInv => NoLostUpdate
  BY DEF WorkInv
<1>. QED  BY TypeInit, TypeNext, LockInit, LockNext, WorkInit, WorkNext, <1>1, PTL DEF Spec

-----------------------------------------------------------------------------
(***************************************************************************)
(* Labels and addresses stay apart, and no file is ever torn, in the .conf *)
(* and in every file a power loss may bring back.                          *)
(***************************************************************************)
Sound(c) == c # Torn /\ DistinctNames(c.peers) /\ DistinctAddresses(c.peers)
FileInv == \A c \in survivors \cup {conf} : Sound(c)

LEMMA RenamedFileIsSound ==
  ASSUME TypeInv, WorkInv, FileInv, NEW p \in Proc, pc[p] = "rename"
  PROVE  Sound(work[p])
<1> DEFINE peers == Parse(conf.peers)
           new   == Edit(req[p], cfg[p], peers)
<1>1. /\ conf.readable /\ Verdict(req[p], cfg[p], peers) = "ok"
      /\ work[p] = [conf EXCEPT !.peers = new]
  BY DEF WorkInv, NoLostUpdate, Replacing
<1>2. /\ conf \in Conf /\ peers \in Seq(Peer)
      /\ DistinctNames(peers) /\ DistinctAddresses(peers)
  BY ParseProperties, ParseKeepsApart DEF TypeInv, TypeOK, Conf, FileInv, Sound
<1>3. req[p] \in Request /\ cfg[p] \in ServerConfig /\ ~Malformed(req[p], cfg[p])
  BY InputAssumption DEF TypeInv, TypeOK, Validated
<1>4. DistinctNames(new) /\ DistinctAddresses(new)
  BY <1>1, <1>2, <1>3, EditProperties
<1>. HIDE DEF new, peers
<1>5. work[p].peers = new /\ work[p].readable
  BY <1>1, <1>2 DEF Conf
<1>. QED  BY <1>4, <1>5 DEF Sound, Torn, Unreadable

LEMMA FileNext ==
  TypeInv /\ LockInv /\ WorkInv /\ FileInv /\ [Next]_vars => FileInv'
<1> SUFFICES ASSUME TypeInv, LockInv, WorkInv, FileInv, [Next]_vars  PROVE FileInv'
  OBVIOUS
<1> USE DEF Goto, files, device, locks, memory
<1>1. ASSUME NEW p \in Proc, RenameTemp(p)
      PROVE  FileInv'
  <2>1. pc[p] = "rename" /\ tmp[p] = "synced"
    BY <1>1 DEF RenameTemp, WorkInv
  <2>2. Sound(work[p])
    BY <2>1, RenamedFileIsSound
  <2>3. conf' = work[p] /\ survivors' \subseteq survivors \cup {work[p]}
    BY <1>1, <2>1 DEF RenameTemp
  <2>. QED  BY <2>2, <2>3 DEF FileInv, Sound
<1>2. ASSUME NEW p \in Proc, SyncDir(p)
      PROVE  FileInv'
  <2>1. conf' = conf /\ survivors' \subseteq survivors \cup {conf}
    BY <1>2 DEF SyncDir
  <2>. QED  BY <2>1 DEF FileInv, Sound
<1>3. CASE PowerLoss
  <2>1. conf' \in survivors /\ survivors' = {conf'}
    BY <1>3 DEF PowerLoss
  <2>. QED  BY <2>1 DEF FileInv, Sound
<1>4. ASSUME NEW p \in Proc,
             Start(p) \/ Check(p) \/ AcquireStep(p) \/ ReadStep(p) \/ WriteTemp(p)
               \/ SyncTemp(p) \/ WriteFails(p) \/ ApplyStep(p) \/ Unlock(p) \/ Emit(p)
               \/ Crash(p) \/ DeadlinePasses(p)
      PROVE  FileInv'
  <2>1. UNCHANGED files
    BY <1>4 DEF Start, Check, AcquireStep, OpenLock, OpenLockFails, Flock, FlockBusy,
                GiveUp, SleepAndRetry, FlockFails, ReadStep, ReadList, ReadRefused,
                ReadAccepted, WriteTemp, SyncTemp, WriteFails, ApplyStep, Strip,
                SyncDevice, ApplyFails, Unlock, Emit, Crash, DeadlinePasses
  <2>. QED  BY <2>1 DEF FileInv, Sound
<1>5. CASE OrphanSync \/ UNCHANGED vars
  BY <1>5 DEF OrphanSync, vars, FileInv, Sound
<1>. QED  BY <1>1, <1>2, <1>3, <1>4, <1>5 DEF Next, OwnStep, Panic, WriteStep, Finished

FilesAreSound == \A f \in Files : Sound(f)

LEMMA FileInit == FilesAreSound /\ Init => FileInv
BY DEF FilesAreSound, Init, FileInv

(* If the file a system starts with is whole and keeps labels and addresses *)
(* apart, so does every .conf a reader or a reboot will ever find           *)
(* (server.go:177-180, alloc.go:9-18, fsops.go:50-51).                      *)
THEOREM UniqueNamesHolds ==
  ASSUME FilesAreSound  PROVE Spec => []UniqueNames
<1>1. FileInv => UniqueNames
  BY DEF FileInv, UniqueNames, Sound
<1>2. Init => FileInv
  BY FileInit
<1>. QED  BY TypeInit, TypeNext, LockInit, LockNext, WorkInit, WorkNext,
             FileNext, <1>1, <1>2, PTL DEF Spec

THEOREM NoSharedAddressHolds ==
  ASSUME FilesAreSound  PROVE Spec => []NoSharedAddress
<1>1. FileInv => NoSharedAddress
  BY DEF FileInv, NoSharedAddress, Sound
<1>2. Init => FileInv
  BY FileInit
<1>. QED  BY TypeInit, TypeNext, LockInit, LockNext, WorkInit, WorkNext,
             FileNext, <1>1, <1>2, PTL DEF Spec

THEOREM NeverTornHolds ==
  ASSUME FilesAreSound  PROVE Spec => []NeverTorn
<1>1. FileInv => NeverTorn
  BY DEF FileInv, NeverTorn, Sound
<1>2. Init => FileInv
  BY FileInit
<1>. QED  BY TypeInit, TypeNext, LockInit, LockNext, WorkInit, WorkNext,
             FileNext, <1>1, <1>2, PTL DEF Spec

-----------------------------------------------------------------------------
(***************************************************************************)
(* What an operation leaves in the files and on the device.                *)
(***************************************************************************)
KeysOf(peers) == {peers[i].key : i \in DOMAIN peers}

LEMMA ParseKeys ==
  ASSUME NEW blocks \in Seq(Peer)
  PROVE  KeysOf(Parse(blocks)) = KeysOf(blocks)
<1>1. /\ DOMAIN blocks = 1..Len(blocks)
      /\ DOMAIN Parse(blocks) = 1..Len(blocks)
      /\ \A i \in 1..Len(blocks) : Parse(blocks)[i].key = blocks[i].key
  BY ParseProperties, LenProperties
<1>. QED  BY <1>1 DEF KeysOf

(* Which keys an accepted edit leaves in a list. *)
LEMMA EditKeys ==
  ASSUME NEW r \in Request, NEW c \in ServerConfig, NEW peers \in Seq(Peer),
         ~Malformed(r, c), Verdict(r, c, peers) = "ok"
  PROVE  /\ r.op = "add" => KeysOf(Edit(r, c, peers)) = KeysOf(peers) \cup {r.key}
         /\ r.op # "add" => KeysOf(Edit(r, c, peers)) \subseteq KeysOf(peers)
         /\ r.op # "kill" => KeysOf(peers) \subseteq KeysOf(Edit(r, c, peers))
<1>1. DOMAIN peers = 1..Len(peers) /\ Len(peers) \in Nat
  BY LenProperties
<1>2. CASE r.op = "add"
  <2> DEFINE new == Append(peers, NewPeer(r, c, peers))
  <2>1. Edit(r, c, peers) = new
    BY <1>2 DEF Edit, AddPeer
  <2>2. NewPeer(r, c, peers).key = r.key
    BY DEF NewPeer
  <2>3. /\ DOMAIN new = 1..(Len(peers) + 1)
        /\ \A i \in 1..Len(peers) : new[i] = peers[i]
        /\ new[Len(peers) + 1] = NewPeer(r, c, peers)
    BY <1>1
  <2>. HIDE DEF new
  <2>4. KeysOf(new) = KeysOf(peers) \cup {r.key}
    <3>1. KeysOf(new) = {new[i].key : i \in 1..Len(peers)} \cup {new[Len(peers) + 1].key}
      BY <1>1, <2>3 DEF KeysOf
    <3>. QED  BY <1>1, <2>2, <2>3, <3>1 DEF KeysOf
  <2>. QED  BY <1>2, <2>1, <2>4
<1>3. CASE r.op = "kill"
  <2> DEFINE at  == FindByName(peers, r.name)
             new == RemoveAt(peers, at)
  <2>1. at \in 1..Len(peers)
    BY <1>3, FindByNameProperties DEF Verdict
  <2>2. Edit(r, c, peers) = new
    BY <1>3 DEF Edit, RemoveByName
  <2>3. /\ Len(new) = Len(peers) - 1 /\ DOMAIN new = 1..Len(new)
        /\ \A j \in 1..Len(peers) - 1 : new[j] = IF j < at THEN peers[j] ELSE peers[j + 1]
    BY <2>1, RemoveAtProperties, LenProperties
  <2>. HIDE DEF new, at
  <2>4. \A j \in DOMAIN new : new[j].key \in KeysOf(peers)
    <3>1. TAKE j \in DOMAIN new
    <3>2. j \in 1..Len(peers) /\ j + 1 \in 1..Len(peers)
      BY <1>1, <2>3
    <3>. QED  BY <1>1, <2>3, <3>2 DEF KeysOf
  <2>. QED  BY <1>3, <2>2, <2>4 DEF KeysOf
<1>4. CASE r.op = "rename"
  <2> DEFINE at  == FindByName(peers, r.name)
             new == [peers EXCEPT ![at].name = r.newName]
  <2>1. at \in 1..Len(peers)
    BY <1>4, FindByNameProperties DEF Verdict
  <2>2. Edit(r, c, peers) = new
    BY <1>4 DEF Edit, Relabel
  <2>3. \A i \in DOMAIN peers : peers[i] \in Peer
    BY LenProperties
  <2>. HIDE DEF at
  <2>4. DOMAIN new = DOMAIN peers /\ \A i \in DOMAIN peers : new[i].key = peers[i].key
    BY <1>1, <2>1, <2>3 DEF Peer
  <2>. QED  BY <1>4, <2>2, <2>4 DEF KeysOf
<1>5. CASE r.op = "list"
  BY <1>5 DEF Edit
<1>. QED  BY <1>2, <1>3, <1>4, <1>5 DEF Request

-----------------------------------------------------------------------------
(***************************************************************************)
(* What is piped into wg syncconf is the file as it is: exclusion keeps the*)
(* file still between `wg-quick strip` and the sync.                       *)
(***************************************************************************)
StripInv == \A p \in Proc : pc[p] = "sync" => stripped[p] = DeviceView(conf.peers)

LEMMA StripInit == Init => StripInv
BY DEF Init, StripInv

LEMMA StripNext == TypeInv /\ LockInv /\ StripInv /\ [Next]_vars => StripInv'
<1> SUFFICES ASSUME TypeInv, LockInv, StripInv, [Next]_vars  PROVE StripInv'
  OBVIOUS
<1> USE DEF TypeInv, Goto, files, device, locks, memory
<1>1. ASSUME NEW p \in Proc,
             Start(p) \/ Check(p) \/ AcquireStep(p) \/ ReadStep(p) \/ WriteTemp(p)
               \/ SyncTemp(p) \/ WriteFails(p) \/ SyncDir(p) \/ Unlock(p) \/ Emit(p)
      PROVE  StripInv'
  <2>1. UNCHANGED <<conf, stripped>>
    BY <1>1 DEF Start, Check, AcquireStep, OpenLock, OpenLockFails, Flock, FlockBusy,
                GiveUp, SleepAndRetry, FlockFails, ReadStep, ReadList, ReadRefused,
                ReadAccepted, WriteTemp, SyncTemp, WriteFails, SyncDir, Unlock, Emit
  <2>2. \E to \in Steps \ {"sync"} : pc' = [pc EXCEPT ![p] = to]
    BY <1>1 DEF Start, Check, AcquireStep, OpenLock, OpenLockFails, Flock, FlockBusy,
                GiveUp, SleepAndRetry, FlockFails, ReadStep, ReadList, ReadRefused,
                ReadAccepted, WriteTemp, SyncTemp, WriteFails, SyncDir, Unlock, Emit, Steps
  <2>. QED  BY <2>1, <2>2 DEF StripInv, TypeOK
<1>2. ASSUME NEW p \in Proc, RenameTemp(p)
      PROVE  StripInv'
  <2>1. \A q \in Proc \ {p} : pc[q] # "sync"
    BY <1>2, LockGivesExclusion DEF MutualExclusion, Critical, RenameTemp, Replacing
  <2>. QED  BY <1>2, <2>1 DEF RenameTemp, StripInv, TypeOK
<1>3. ASSUME NEW p \in Proc, ApplyStep(p) \/ Crash(p)
      PROVE  StripInv'
  BY <1>3 DEF ApplyStep, Strip, SyncDevice, ApplyFails, Crash, StripInv, TypeOK
<1>4. CASE PowerLoss
  BY <1>4 DEF PowerLoss, Running, StripInv, TypeOK
<1>5. CASE OrphanSync \/ UNCHANGED vars \/ \E p \in Proc : DeadlinePasses(p)
  BY <1>5 DEF OrphanSync, DeadlinePasses, vars, StripInv
<1>. QED  BY <1>1, <1>2, <1>3, <1>4, <1>5 DEF Next, OwnStep, Panic, WriteStep, Finished

(* A sync reported as done leaves the device equal to the file as it is     *)
(* then, whatever crashed or failed before (fsops.go, applySyncconf).       *)
THEOREM SyncRepairsDeviceHolds == Spec => SyncRepairsDevice
<1>1. TypeInv /\ StripInv /\ [Next]_vars =>
        [\A p \in Proc : SyncDevice(p) => live' = DeviceView(conf'.peers)]_vars
  BY DEF StripInv, SyncDevice, Goto, files
<1>. QED  BY TypeInit, TypeNext, LockInit, LockNext, StripInit, StripNext, <1>1, PTL
          DEF Spec, SyncRepairsDevice

-----------------------------------------------------------------------------
(***************************************************************************)
(* An answer is decided once, and only past the last step that can still   *)
(* fail.                                                                   *)
(***************************************************************************)
Undecided == {"new", "check", "read", "dirsync", "strip", "sync"} \cup Waiting \cup Replacing
OutcomeInv == \A p \in Proc : pc[p] \in Undecided => outcome[p] = "none"

LEMMA OutcomeInit == Init => OutcomeInv
BY DEF Init, OutcomeInv

(* A step of p decides for p, from an undecided state, or decides nothing.  *)
LEMMA OutcomeStep ==
  ASSUME TypeInv, NEW p \in Proc,
         Start(p) \/ Check(p) \/ AcquireStep(p) \/ ReadStep(p) \/ WriteStep(p)
           \/ ApplyStep(p) \/ Unlock(p) \/ Emit(p) \/ Crash(p)
  PROVE  /\ \E to \in Steps : pc' = [pc EXCEPT ![p] = to]
         /\ \/ outcome' = outcome /\ (pc'[p] \in Undecided => pc[p] \in Undecided)
            \/ /\ pc[p] \in Undecided /\ pc'[p] \notin Undecided
               /\ \E status \in Statuses : outcome' = [outcome EXCEPT ![p] = status]
<1> USE DEF TypeInv, Goto, Decide, locks, memory, Undecided, Waiting, Replacing
<1>1. CASE Start(p) \/ Check(p)
  BY <1>1 DEF Start, Check, TypeOK, Steps, Statuses
<1>2. CASE AcquireStep(p)
  BY <1>2 DEF AcquireStep, OpenLock, OpenLockFails, Flock, FlockBusy, GiveUp, SleepAndRetry,
              FlockFails, TypeOK, Steps, Statuses
<1>3. CASE ReadStep(p)
  <2>1. Verdict(req[p], cfg[p], Parse(conf.peers)) \in Statuses
    BY DEF Verdict, Statuses
  <2>. QED  BY <1>3, <2>1 DEF ReadStep, ReadList, ReadRefused, ReadAccepted, TypeOK, Steps, Statuses
<1>4. CASE WriteStep(p)
  BY <1>4 DEF WriteStep, WriteTemp, SyncTemp, RenameTemp, WriteFails, SyncDir, TypeOK, Steps, Statuses
<1>5. CASE ApplyStep(p)
  BY <1>5 DEF ApplyStep, Strip, SyncDevice, ApplyFails, TypeOK, Steps, Statuses
<1>6. CASE Unlock(p) \/ Emit(p) \/ Crash(p)
  BY <1>6 DEF Unlock, Emit, Crash, Running, TypeOK, Steps
<1>. QED  BY <1>1, <1>2, <1>3, <1>4, <1>5, <1>6

LEMMA OutcomeNext == TypeInv /\ OutcomeInv /\ [Next]_vars => OutcomeInv'
<1> SUFFICES ASSUME TypeInv, OutcomeInv, [Next]_vars  PROVE OutcomeInv'
  OBVIOUS
<1>1. ASSUME NEW p \in Proc,
             Start(p) \/ Check(p) \/ AcquireStep(p) \/ ReadStep(p) \/ WriteStep(p)
               \/ ApplyStep(p) \/ Unlock(p) \/ Emit(p) \/ Crash(p)
      PROVE  OutcomeInv'
  BY <1>1, OutcomeStep DEF OutcomeInv, TypeInv, TypeOK
<1>2. CASE PowerLoss
  BY <1>2 DEF PowerLoss, Running, Undecided, Waiting, Replacing, OutcomeInv, TypeInv, TypeOK
<1>3. CASE OrphanSync \/ UNCHANGED vars \/ \E p \in Proc : DeadlinePasses(p)
  BY <1>3 DEF OrphanSync, DeadlinePasses, vars, OutcomeInv
<1>. QED  BY <1>1, <1>2, <1>3 DEF Next, OwnStep, Panic, Finished

-----------------------------------------------------------------------------
(***************************************************************************)
(* Every key of a file comes from a human's file or from an add that got   *)
(* as far as the rename and was not refused.                               *)
(***************************************************************************)
Effected == {"dirsync", "strip", "sync", "unlock", "reply", "done", "dead"}
FromHand(k) == \E f \in Files : k \in KeysOf(f.peers)
Brought(q, k) ==
  /\ req[q].op = "add" /\ req[q].key = k
  /\ pc[q] \in Effected /\ outcome[q] \in {"none", "ok", "internal"}
Known(k) == FromHand(k) \/ \E q \in Proc : Brought(q, k)
OriginInv == \A c \in survivors \cup {conf} : \A k \in KeysOf(c.peers) : Known(k)

LEMMA OriginInit == Init => OriginInv
BY DEF Init, OriginInv, Known, FromHand

LEMMA BroughtStays ==
  ASSUME TypeInv, OutcomeInv, [Next]_vars, NEW q \in Proc, NEW k, Brought(q, k)
  PROVE  Brought(q, k)'
<1> USE DEF Goto, Decide, locks, memory, files, device
<1>1. ASSUME NEW p \in Proc,
             Start(p) \/ Check(p) \/ AcquireStep(p) \/ ReadStep(p) \/ WriteTemp(p)
               \/ SyncTemp(p) \/ RenameTemp(p) \/ WriteFails(p)
      PROVE  Brought(q, k)'
  <2>1. pc[p] \notin Effected
    BY <1>1 DEF Start, Check, AcquireStep, OpenLock, OpenLockFails, Flock, FlockBusy, GiveUp,
                SleepAndRetry, FlockFails, ReadStep, ReadList, ReadRefused, ReadAccepted,
                WriteTemp, SyncTemp, RenameTemp, WriteFails, Replacing, Effected
  <2>2. q # p
    BY <2>1 DEF Brought
  <2>3. req'[q] = req[q]
    BY <1>1, <2>2 DEF Start, Check, AcquireStep, OpenLock, OpenLockFails, Flock, FlockBusy,
                GiveUp, SleepAndRetry, FlockFails, ReadStep, ReadList, ReadRefused,
                ReadAccepted, WriteTemp, SyncTemp, RenameTemp, WriteFails, TypeInv, TypeOK
  <2>4. pc'[q] = pc[q] /\ outcome'[q] = outcome[q]
    BY <1>1, <2>2, OutcomeStep DEF WriteStep, TypeInv, TypeOK
  <2>. QED  BY <2>3, <2>4 DEF Brought
<1>2. ASSUME NEW p \in Proc, SyncDir(p) \/ ApplyStep(p)
      PROVE  Brought(q, k)'
  <2>1. req' = req
    BY <1>2 DEF SyncDir, ApplyStep, Strip, SyncDevice, ApplyFails
  <2>2. CASE q # p
    BY <1>2, <2>1, <2>2, OutcomeStep DEF WriteStep, TypeInv, TypeOK, Brought
  <2>3. CASE q = p
    BY <1>2, <2>1, <2>3 DEF SyncDir, ApplyStep, Strip, SyncDevice, ApplyFails, Brought,
                            Effected, TypeInv, TypeOK
  <2>. QED  BY <2>2, <2>3
<1>3. ASSUME NEW p \in Proc, Unlock(p) \/ Emit(p) \/ Crash(p)
      PROVE  Brought(q, k)'
  BY <1>3 DEF Unlock, Emit, Crash, Brought, Effected, TypeInv, TypeOK
<1>4. CASE PowerLoss
  BY <1>4 DEF PowerLoss, Running, Brought, Effected, TypeInv, TypeOK
<1>5. CASE OrphanSync \/ UNCHANGED vars \/ \E p \in Proc : DeadlinePasses(p)
  BY <1>5 DEF OrphanSync, DeadlinePasses, vars, Brought
<1>. QED  BY <1>1, <1>2, <1>3, <1>4, <1>5 DEF Next, OwnStep, Panic, WriteStep, Finished

(* What p is about to rename: the keys of the file, and of an add its own.  *)
LEMMA RenamedKeys ==
  ASSUME TypeInv, WorkInv, NEW p \in Proc, pc[p] = "rename"
  PROVE  /\ req[p].op = "add" => KeysOf(work[p].peers) = KeysOf(conf.peers) \cup {req[p].key}
         /\ req[p].op # "add" => KeysOf(work[p].peers) \subseteq KeysOf(conf.peers)
         /\ req[p].op # "kill" => KeysOf(conf.peers) \subseteq KeysOf(work[p].peers)
<1> DEFINE peers == Parse(conf.peers)
           new   == Edit(req[p], cfg[p], peers)
<1>1. Verdict(req[p], cfg[p], peers) = "ok" /\ work[p] = [conf EXCEPT !.peers = new]
  BY DEF WorkInv, NoLostUpdate, Replacing
<1>2. conf \in Conf /\ peers \in Seq(Peer) /\ KeysOf(peers) = KeysOf(conf.peers)
  BY ParseProperties, ParseKeys DEF TypeInv, TypeOK, Conf
<1>3. req[p] \in Request /\ cfg[p] \in ServerConfig /\ ~Malformed(req[p], cfg[p])
  BY InputAssumption DEF TypeInv, TypeOK, Validated
<1>. HIDE DEF peers
<1>4. /\ req[p].op = "add" => KeysOf(new) = KeysOf(peers) \cup {req[p].key}
      /\ req[p].op # "add" => KeysOf(new) \subseteq KeysOf(peers)
      /\ req[p].op # "kill" => KeysOf(peers) \subseteq KeysOf(new)
  BY <1>1, <1>2, <1>3, EditKeys
<1>. HIDE DEF new
<1>5. work[p].peers = new
  BY <1>1, <1>2 DEF Conf
<1>. QED  BY <1>2, <1>4, <1>5

LEMMA OriginNext ==
  TypeInv /\ WorkInv /\ OutcomeInv /\ OriginInv /\ [Next]_vars => OriginInv'
<1> SUFFICES ASSUME TypeInv, WorkInv, OutcomeInv, OriginInv, [Next]_vars  PROVE OriginInv'
  OBVIOUS
<1> USE DEF Goto, files, device, locks, memory
<1>1. \A k : Known(k) => Known(k)'
  BY BroughtStays DEF Known, FromHand
<1>2. ASSUME NEW p \in Proc, RenameTemp(p)
      PROVE  OriginInv'
  <2>1. pc[p] = "rename" /\ tmp[p] = "synced" /\ outcome[p] = "none"
    BY <1>2 DEF RenameTemp, WorkInv, OutcomeInv, Undecided, Replacing
  <2>2. conf' = work[p] /\ survivors' \subseteq survivors \cup {work[p]}
    BY <1>2, <2>1 DEF RenameTemp
  <2>3. ASSUME NEW k, req[p].op = "add", k = req[p].key
        PROVE  Brought(p, k)'
    BY <1>2, <2>1, <2>3 DEF RenameTemp, Brought, Effected, TypeInv, TypeOK
  <2>4. \A k \in KeysOf(work[p].peers) : k \in KeysOf(conf.peers) \/ Brought(p, k)'
    BY <2>1, <2>3, RenamedKeys
  <2>5. \A k \in KeysOf(work[p].peers) : Known(k)'
    BY <1>1, <2>4 DEF OriginInv, Known
  <2>. QED  BY <1>1, <2>2, <2>5 DEF OriginInv
<1>3. ASSUME NEW p \in Proc, SyncDir(p)
      PROVE  OriginInv'
  <2>1. conf' = conf /\ survivors' \subseteq survivors \cup {conf}
    BY <1>3 DEF SyncDir
  <2>. QED  BY <1>1, <2>1 DEF OriginInv
<1>4. CASE PowerLoss
  <2>1. conf' \in survivors /\ survivors' = {conf'}
    BY <1>4 DEF PowerLoss
  <2>. QED  BY <1>1, <2>1 DEF OriginInv
<1>5. CASE UNCHANGED files
  BY <1>1, <1>5 DEF OriginInv
<1>6. ASSUME NEW p \in Proc,
             Start(p) \/ Check(p) \/ AcquireStep(p) \/ ReadStep(p) \/ WriteTemp(p)
               \/ SyncTemp(p) \/ WriteFails(p) \/ ApplyStep(p) \/ Unlock(p) \/ Emit(p)
               \/ Crash(p) \/ DeadlinePasses(p)
      PROVE  UNCHANGED files
  BY <1>6 DEF Start, Check, AcquireStep, OpenLock, OpenLockFails, Flock, FlockBusy,
              GiveUp, SleepAndRetry, FlockFails, ReadStep, ReadList, ReadRefused,
              ReadAccepted, WriteTemp, SyncTemp, WriteFails, ApplyStep, Strip,
              SyncDevice, ApplyFails, Unlock, Emit, Crash, DeadlinePasses
<1>7. CASE OrphanSync \/ UNCHANGED vars
  BY <1>5, <1>7 DEF OrphanSync, vars
<1>. QED  BY <1>2, <1>3, <1>4, <1>5, <1>6, <1>7 DEF Next, OwnStep, Panic, WriteStep, Finished

(* A refused add leaves no trace: its key is in no file, unless the file    *)
(* had it or another process also brought it (server.go, Add).              *)
THEOREM RefusedAddLeavesNoTraceHolds == Spec => []RefusedAddLeavesNoTrace
<1>1. OriginInv => RefusedAddLeavesNoTrace
  <2> SUFFICES ASSUME OriginInv, NEW p \in Proc, req[p].op = "add",
                      outcome[p] \in Statuses \ {"none", "ok", "internal"},
                      ~ \E q \in Proc \ {p} : req[q].op = "add" /\ req[q].key = req[p].key,
                      NEW c \in survivors \cup {conf}, NEW i \in DOMAIN c.peers,
                      c.peers[i].key = req[p].key
               PROVE  \E f \in Files : \E j \in DOMAIN f.peers : f.peers[j].key = req[p].key
    BY DEF RefusedAddLeavesNoTrace
  <2>1. req[p].key \in KeysOf(c.peers)
    BY DEF KeysOf
  <2>2. ~ \E q \in Proc : Brought(q, req[p].key)
    BY DEF Brought
  <2>. QED  BY <2>1, <2>2 DEF OriginInv, Known, FromHand, KeysOf
<1>. QED  BY TypeInit, TypeNext, LockInit, LockNext, WorkInit, WorkNext, OutcomeInit, OutcomeNext,
             OriginInit, OriginNext, <1>1, PTL DEF Spec

-----------------------------------------------------------------------------
(***************************************************************************)
(* An add past its directory fsync has its key in every file a reboot may  *)
(* find, and keeps it there through adds and renames.                      *)
(***************************************************************************)
NoKill == ~ \E q \in Proc : req[q].op = "kill" /\ PastDecision(q)
Saved(p) == pc[p] \in {"strip", "sync"} \/ outcome[p] = "ok"
AckInv ==
  ~DirSyncMayFail /\ NoKill =>
    \A p \in Proc : req[p].op = "add" =>
      /\ pc[p] = "dirsync" => req[p].key \in KeysOf(conf.peers)
      /\ Saved(p) => \A c \in survivors \cup {conf} : req[p].key \in KeysOf(c.peers)

LEMMA AckInit == Init => AckInv
BY DEF Init, AckInv, Saved

(* A decision, once past, stays past, and its request with it. *)
LEMMA NoKillBefore ==
  ASSUME TypeInv, [Next]_vars, NoKill'
  PROVE  NoKill
<1> SUFFICES ASSUME NEW q \in Proc, req[q].op = "kill", PastDecision(q)
             PROVE  req'[q].op = "kill" /\ PastDecision(q)'
  BY DEF NoKill
<1> USE DEF Goto, locks, memory, files, device, Waiting, Replacing, PastDecision
<1>1. ASSUME NEW p \in Proc, Start(p) \/ Check(p) \/ AcquireStep(p) \/ ReadStep(p)
      PROVE  q # p /\ req'[q] = req[q] /\ pc'[q] = pc[q]
  BY <1>1 DEF Start, Check, AcquireStep, OpenLock, OpenLockFails, Flock, FlockBusy, GiveUp,
              SleepAndRetry, FlockFails, ReadStep, ReadList, ReadRefused, ReadAccepted,
              TypeInv, TypeOK
<1>2. ASSUME NEW p \in Proc,
             WriteStep(p) \/ ApplyStep(p) \/ Unlock(p) \/ Emit(p) \/ Crash(p)
      PROVE  req' = req /\ PastDecision(q)'
  BY <1>2 DEF WriteStep, WriteTemp, SyncTemp, RenameTemp, WriteFails, SyncDir, ApplyStep, Strip,
              SyncDevice, ApplyFails, Unlock, Emit, Crash, TypeInv, TypeOK, Steps
<1>3. CASE PowerLoss
  BY <1>3 DEF PowerLoss, Running, TypeInv, TypeOK, Steps
<1>4. CASE OrphanSync \/ UNCHANGED vars \/ \E p \in Proc : DeadlinePasses(p)
  BY <1>4 DEF OrphanSync, DeadlinePasses, vars
<1>. QED  BY <1>1, <1>2, <1>3, <1>4 DEF Next, OwnStep, Panic, Finished

LEMMA AckNext ==
  TypeInv /\ WorkInv /\ OutcomeInv /\ AckInv /\ [Next]_vars => AckInv'
<1> SUFFICES ASSUME TypeInv, WorkInv, OutcomeInv, AckInv, [Next]_vars,
                    ~DirSyncMayFail, NoKill',
                    NEW a \in Proc, req'[a].op = "add"
             PROVE  /\ pc'[a] = "dirsync" => req'[a].key \in KeysOf(conf'.peers)
                    /\ Saved(a)' => \A c \in survivors' \cup {conf'} :
                                      req'[a].key \in KeysOf(c.peers)
  BY DEF AckInv
<1> USE DEF Goto, Decide, locks, memory, files, device
<1>1. /\ NoKill
      /\ req[a].op = "add" =>
           /\ pc[a] = "dirsync" => req[a].key \in KeysOf(conf.peers)
           /\ Saved(a) => \A c \in survivors \cup {conf} : req[a].key \in KeysOf(c.peers)
  BY NoKillBefore DEF AckInv
<1>2. CASE \E p \in Proc : Start(p)
  <2>1. PICK p \in Proc : Start(p)
    BY <1>2
  <2>2. outcome[p] = "none" /\ pc[p] = "new"
    BY <2>1 DEF Start, OutcomeInv, Undecided
  <2>. QED  BY <1>1, <2>1, <2>2 DEF Start, Saved, TypeInv, TypeOK
<1>3. CASE \E p \in Proc : Check(p) \/ AcquireStep(p) \/ ReadStep(p) \/ WriteTemp(p)
                           \/ SyncTemp(p) \/ WriteFails(p) \/ Strip(p) \/ SyncDevice(p)
                           \/ ApplyFails(p) \/ Unlock(p) \/ Emit(p) \/ Crash(p)
  <2>1. PICK p \in Proc : Check(p) \/ AcquireStep(p) \/ ReadStep(p) \/ WriteTemp(p)
                           \/ SyncTemp(p) \/ WriteFails(p) \/ Strip(p) \/ SyncDevice(p)
                           \/ ApplyFails(p) \/ Unlock(p) \/ Emit(p) \/ Crash(p)
    BY <1>3
  <2>2. UNCHANGED <<req, conf, survivors>>
    BY <2>1 DEF Check, AcquireStep, OpenLock, OpenLockFails, Flock, FlockBusy, GiveUp,
                SleepAndRetry, FlockFails, ReadStep, ReadList, ReadRefused, ReadAccepted,
                WriteTemp, SyncTemp, WriteFails, Strip, SyncDevice, ApplyFails, Unlock, Emit, Crash
  <2>3. CASE a = p
    <3>1. pc'[a] # "dirsync"
      BY <2>1, <2>3 DEF Check, AcquireStep, OpenLock, OpenLockFails, Flock, FlockBusy, GiveUp,
                SleepAndRetry, FlockFails, ReadStep, ReadList, ReadRefused, ReadAccepted,
                WriteTemp, SyncTemp, WriteFails, Strip, SyncDevice, ApplyFails, Unlock, Emit,
                Crash, TypeInv, TypeOK
    <3>2. Saved(a)' => Saved(a)
      <4>1. CASE Check(p) \/ AcquireStep(p) \/ WriteTemp(p) \/ SyncTemp(p) \/ WriteFails(p)
        BY <2>3, <4>1 DEF Check, AcquireStep, OpenLock, OpenLockFails, Flock, FlockBusy, GiveUp,
                SleepAndRetry, FlockFails, WriteTemp, SyncTemp, WriteFails, Saved, TypeInv, TypeOK
      <4>2. CASE ReadStep(p)
        BY <2>2, <2>3, <4>2 DEF ReadStep, ReadList, ReadRefused, ReadAccepted, Saved, TypeInv, TypeOK
      <4>3. CASE Strip(p) \/ SyncDevice(p) \/ ApplyFails(p) \/ Unlock(p) \/ Emit(p) \/ Crash(p)
        BY <2>3, <4>3 DEF Strip, SyncDevice, ApplyFails, Unlock, Emit, Crash, Saved, TypeInv, TypeOK
      <4>. QED  BY <2>1, <4>1, <4>2, <4>3
    <3>. QED  BY <1>1, <2>2, <3>1, <3>2
  <2>4. CASE a # p
    <3>1. pc'[a] = pc[a] /\ outcome'[a] = outcome[a]
      BY <2>1, <2>4, OutcomeStep DEF WriteStep, ApplyStep, TypeInv, TypeOK
    <3>. QED  BY <1>1, <2>2, <3>1 DEF Saved
  <2>. QED  BY <2>3, <2>4
<1>4. CASE \E p \in Proc : RenameTemp(p)
  <2>1. PICK p \in Proc : RenameTemp(p)
    BY <1>4
  <2>2. /\ pc[p] = "rename" /\ tmp[p] = "synced" /\ outcome[p] = "none"
        /\ req' = req /\ outcome' = outcome /\ pc' = [pc EXCEPT ![p] = "dirsync"]
    BY <2>1 DEF RenameTemp, WorkInv, OutcomeInv, Undecided, Replacing
  <2>3. conf' = work[p] /\ survivors' = survivors \cup {work[p]}
    BY <2>1, <2>2 DEF RenameTemp
  <2>4. req[p].op # "kill"
    BY <1>1, <2>2 DEF NoKill, PastDecision, Steps, Waiting
  <2>5. /\ KeysOf(conf.peers) \subseteq KeysOf(work[p].peers)
        /\ req[p].op = "add" => req[p].key \in KeysOf(work[p].peers)
    BY <2>2, <2>4, RenamedKeys
  <2>6. a # p => pc'[a] = pc[a]
    BY <2>2 DEF TypeInv, TypeOK
  <2>7. a = p => ~Saved(a)'
    BY <2>2 DEF Saved, TypeInv, TypeOK
  <2>8. a # p /\ Saved(a)' => Saved(a)
    BY <2>2, <2>6 DEF Saved
  <2>. QED  BY <1>1, <2>2, <2>3, <2>5, <2>6, <2>7, <2>8
<1>5. CASE \E p \in Proc : SyncDir(p)
  <2>1. PICK p \in Proc : SyncDir(p)
    BY <1>5
  <2>2. req' = req /\ conf' = conf /\ survivors' = {conf} /\ pc[p] = "dirsync"
    BY <2>1 DEF SyncDir
  <2>3. a # p => pc'[a] = pc[a] /\ outcome'[a] = outcome[a]
    BY <2>1, OutcomeStep DEF WriteStep, TypeInv, TypeOK
  <2>4. pc'[p] # "dirsync"
    BY <2>1 DEF SyncDir, TypeInv, TypeOK
  <2>. QED  BY <1>1, <2>2, <2>3, <2>4 DEF Saved
<1>6. CASE PowerLoss
  <2>1. /\ conf' \in survivors /\ survivors' = {conf'} /\ req' = req /\ outcome' = outcome
        /\ pc'[a] \in {"new", "done", "dead"}
    BY <1>6 DEF PowerLoss, Running, TypeInv, TypeOK
  <2>. QED  BY <1>1, <2>1 DEF Saved
<1>7. CASE OrphanSync \/ UNCHANGED vars \/ \E p \in Proc : DeadlinePasses(p)
  <2>1. UNCHANGED <<conf, survivors, pc, req, outcome>>
    BY <1>7 DEF OrphanSync, DeadlinePasses, vars
  <2>. QED  BY <1>1, <2>1 DEF Saved
<1>. QED  BY <1>2, <1>3, <1>4, <1>5, <1>6, <1>7
          DEF Next, OwnStep, Panic, WriteStep, ApplyStep, Finished

(* An add answered ok survives power losses: as long as no kill has been    *)
(* accepted, its key is in the file and in all files a reboot may find      *)
(* (fsops.go, atomicWrite: fsync before the rename, directory fsync after). *)
THEOREM AckedAddSurvivesHolds == Spec => []AckedAddSurvives
<1>1. AckInv => AckedAddSurvives
  BY DEF AckInv, AckedAddSurvives, Saved, NoKill, KeysOf
<1>. QED  BY TypeInit, TypeNext, LockInit, LockNext, WorkInit, WorkNext, OutcomeInit, OutcomeNext,
             AckInit, AckNext, <1>1, PTL DEF Spec

-----------------------------------------------------------------------------
(***************************************************************************)
(* The device routes the peers of the file, but between the rename of an   *)
(* add or kill and its sync, and after a process died or reported          *)
(* `internal`. A rename moves no key and no address.                       *)
(***************************************************************************)
Healthy == \A p \in Proc : pc[p] # "dead" /\ outcome[p] # "internal"
Behind ==
  \E p \in Proc : \/ pc[p] \in {"strip", "sync"}
                 \/ (pc[p] = "dirsync" /\ req[p].op # "rename")
Routes(peers) == WithoutExtra(DeviceView(peers))
DeviceInv == Healthy => orphans = {} /\ (Behind \/ WithoutExtra(live) = Routes(conf.peers))

LEMMA DeviceInit == Init => DeviceInv
BY DEF Init, DeviceInv, Routes

(* Clearing `extra` of a device peer leaves its other two fields. *)
LEMMA Cleared ==
  ASSUME NEW d \in [key: Key, ips: SUBSET Addr, extra: BOOLEAN]
  PROVE  [d EXCEPT !.extra = FALSE] = [key |-> d.key, ips |-> d.ips, extra |-> FALSE]
<1> DEFINE x == [d EXCEPT !.extra = FALSE]
<1>1. /\ x \in [key: Key, ips: SUBSET Addr, extra: BOOLEAN]
      /\ x.key = d.key /\ x.ips = d.ips /\ x.extra = FALSE
  OBVIOUS
<1>. HIDE DEF x
<1>2. x = [key |-> d.key, ips |-> d.ips, extra |-> FALSE]
  BY <1>1
<1>. QED  BY <1>2 DEF x

(* Routes as a function of keys and addresses. *)
LEMMA RoutesProperties ==
  ASSUME NEW blocks \in Seq(Peer)
  PROVE  Routes(blocks) =
           {[key |-> blocks[i].key, ips |-> blocks[i].ips, extra |-> FALSE] :
              i \in {j \in DOMAIN blocks :
                       \A k \in DOMAIN blocks : blocks[k].key = blocks[j].key => k <= j}}
<1> DEFINE entry(i) == [key |-> blocks[i].key, ips |-> blocks[i].ips, extra |-> blocks[i].extra]
           plain(i) == [key |-> blocks[i].key, ips |-> blocks[i].ips, extra |-> FALSE]
           last == {j \in DOMAIN blocks :
                      \A k \in DOMAIN blocks : blocks[k].key = blocks[j].key => k <= j}
<1>1. ASSUME NEW i \in last  PROVE [entry(i) EXCEPT !.extra = FALSE] = plain(i)
  <2>1. blocks[i] \in Peer
    BY LenProperties
  <2>2. entry(i) \in [key: Key, ips: SUBSET Addr, extra: BOOLEAN]
    BY <2>1 DEF Peer
  <2>3. entry(i).key = blocks[i].key /\ entry(i).ips = blocks[i].ips
    OBVIOUS
  <2>. HIDE DEF entry
  <2>. QED  BY <2>2, <2>3, Cleared
<1>2. DeviceView(blocks) = {entry(i) : i \in last}
  BY DEF DeviceView
<1>. HIDE DEF last, entry, plain
<1>3. Routes(blocks) = {plain(i) : i \in last}
  <2>1. ASSUME NEW d \in Routes(blocks)  PROVE d \in {plain(i) : i \in last}
    <3>1. PICK e \in DeviceView(blocks) : d = [e EXCEPT !.extra = FALSE]
      BY DEF Routes, WithoutExtra
    <3>2. PICK i \in last : e = entry(i)
      BY <1>2
    <3>. QED  BY <1>1, <3>1, <3>2
  <2>2. ASSUME NEW i \in last  PROVE plain(i) \in Routes(blocks)
    <3>1. entry(i) \in DeviceView(blocks) /\ plain(i) = [entry(i) EXCEPT !.extra = FALSE]
      BY <1>1, <1>2
    <3>. QED  BY <3>1 DEF Routes, WithoutExtra
  <2>. QED  BY <2>1, <2>2
<1>. QED  BY <1>3 DEF last, plain

LEMMA SameRoutes ==
  ASSUME NEW a \in Seq(Peer), NEW b \in Seq(Peer), Len(a) = Len(b),
         \A i \in 1..Len(a) : a[i].key = b[i].key /\ a[i].ips = b[i].ips
  PROVE  Routes(a) = Routes(b)
<1>1. DOMAIN a = 1..Len(a) /\ DOMAIN b = 1..Len(a)
  BY LenProperties
<1>2. {j \in DOMAIN a : \A k \in DOMAIN a : a[k].key = a[j].key => k <= j} =
      {j \in DOMAIN b : \A k \in DOMAIN b : b[k].key = b[j].key => k <= j}
  BY <1>1
<1> DEFINE last == {j \in DOMAIN a : \A k \in DOMAIN a : a[k].key = a[j].key => k <= j}
           plainA(i) == [key |-> a[i].key, ips |-> a[i].ips, extra |-> FALSE]
           plainB(i) == [key |-> b[i].key, ips |-> b[i].ips, extra |-> FALSE]
<1>3. \A i \in last : plainA(i) = plainB(i)
  BY <1>1
<1>4. Routes(a) = {plainA(i) : i \in last} /\ Routes(b) = {plainB(i) : i \in last}
  BY <1>2, RoutesProperties
<1>. HIDE DEF last, plainA, plainB
<1>. QED  BY <1>3, <1>4

LEMMA RenameKeepsRoutes ==
  ASSUME TypeInv, WorkInv, NEW p \in Proc, pc[p] = "rename", req[p].op = "rename"
  PROVE  Routes(work[p].peers) = Routes(conf.peers)
<1> DEFINE peers == Parse(conf.peers)
           at    == FindByName(peers, req[p].name)
           new   == [peers EXCEPT ![at].name = req[p].newName]
<1>1. Verdict(req[p], cfg[p], peers) = "ok" /\ work[p] = [conf EXCEPT !.peers = new]
  BY DEF WorkInv, NoLostUpdate, Replacing, Edit, Relabel
<1>2. /\ conf \in Conf /\ conf.peers \in Seq(Peer) /\ peers \in Seq(Peer)
      /\ Len(peers) = Len(conf.peers)
      /\ \A i \in 1..Len(peers) : peers[i].key = conf.peers[i].key /\ peers[i].ips = conf.peers[i].ips
  BY ParseProperties DEF TypeInv, TypeOK, Conf
<1>. HIDE DEF peers
<1>3. at \in 1..Len(peers)
  BY <1>1, <1>2, FindByNameProperties DEF Verdict
<1>4. \A i \in DOMAIN peers : peers[i] \in Peer
  BY <1>2, LenProperties
<1>5. req[p].newName \in Label \cup {NoName}
  BY DEF TypeInv, TypeOK, Request
<1>. HIDE DEF at
<1>6. /\ new \in Seq(Peer) /\ Len(new) = Len(peers)
      /\ \A i \in 1..Len(peers) : new[i].key = peers[i].key /\ new[i].ips = peers[i].ips
  <2>1. [peers[at] EXCEPT !.name = req[p].newName] \in Peer
    BY <1>2, <1>3, <1>4, <1>5, LenProperties DEF Peer
  <2>. QED  BY <1>2, <1>3, <1>4, <2>1, LenProperties, ExceptSeq DEF Peer
<1>. HIDE DEF new
<1>7. work[p].peers = new
  BY <1>1, <1>2 DEF Conf
<1>. QED  BY <1>2, <1>6, <1>7, SameRoutes

(* What was answered `internal`, or died, stays so. *)
LEMMA HealthyBefore ==
  ASSUME TypeInv, OutcomeInv, [Next]_vars, Healthy'
  PROVE  Healthy
<1> SUFFICES ASSUME NEW q \in Proc, pc[q] = "dead" \/ outcome[q] = "internal"
             PROVE  pc'[q] = "dead" \/ outcome'[q] = "internal"
  BY DEF Healthy
<1>1. ASSUME NEW p \in Proc,
             Start(p) \/ Check(p) \/ AcquireStep(p) \/ ReadStep(p) \/ WriteStep(p)
               \/ ApplyStep(p) \/ Unlock(p) \/ Emit(p) \/ Crash(p)
      PROVE  pc'[q] = "dead" \/ outcome'[q] = "internal"
  <2>1. pc[p] # "dead"
    BY <1>1 DEF Start, Check, AcquireStep, OpenLock, OpenLockFails, Flock, FlockBusy, GiveUp,
                SleepAndRetry, FlockFails, ReadStep, ReadList, ReadRefused, ReadAccepted,
                WriteStep, WriteTemp, SyncTemp, RenameTemp, WriteFails, SyncDir, ApplyStep,
                Strip, SyncDevice, ApplyFails, Unlock, Emit, Crash, Running, Goto, Replacing
  <2>. QED  BY <1>1, <2>1, OutcomeStep DEF OutcomeInv, TypeInv, TypeOK
<1>2. CASE PowerLoss
  BY <1>2 DEF PowerLoss, Running, TypeInv, TypeOK
<1>3. CASE OrphanSync \/ UNCHANGED vars \/ \E p \in Proc : DeadlinePasses(p)
  BY <1>3 DEF OrphanSync, DeadlinePasses, vars
<1>. QED  BY <1>1, <1>2, <1>3 DEF Next, OwnStep, Panic, Finished

LEMMA DeviceNext ==
  TypeInv /\ WorkInv /\ StripInv /\ OutcomeInv /\ DeviceInv /\ [Next]_vars => DeviceInv'
<1> SUFFICES ASSUME TypeInv, WorkInv, StripInv, OutcomeInv, DeviceInv, [Next]_vars, Healthy'
             PROVE  orphans' = {} /\ (Behind' \/ WithoutExtra(live') = Routes(conf'.peers))
  BY DEF DeviceInv
<1> USE DEF Goto, Decide, locks, memory, files, device
<1>1. Healthy /\ orphans = {} /\ (Behind \/ WithoutExtra(live) = Routes(conf.peers))
  BY HealthyBefore DEF DeviceInv
<1>2. CASE \E p \in Proc : Start(p) \/ Check(p) \/ AcquireStep(p) \/ ReadStep(p) \/ WriteTemp(p)
                           \/ SyncTemp(p) \/ WriteFails(p) \/ Unlock(p) \/ Emit(p)
  <2>1. PICK p \in Proc : Start(p) \/ Check(p) \/ AcquireStep(p) \/ ReadStep(p) \/ WriteTemp(p)
                           \/ SyncTemp(p) \/ WriteFails(p) \/ Unlock(p) \/ Emit(p)
    BY <1>2
  <2>2. UNCHANGED <<conf, live, orphans>>
    BY <2>1 DEF Start, Check, AcquireStep, OpenLock, OpenLockFails, Flock, FlockBusy, GiveUp,
                SleepAndRetry, FlockFails, ReadStep, ReadList, ReadRefused, ReadAccepted,
                WriteTemp, SyncTemp, WriteFails, Unlock, Emit
  <2>3. /\ pc[p] \notin {"dirsync", "strip", "sync"}
        /\ \A q \in Proc \ {p} : pc'[q] = pc[q] /\ req'[q] = req[q]
    BY <2>1 DEF Start, Check, AcquireStep, OpenLock, OpenLockFails, Flock, FlockBusy, GiveUp,
                SleepAndRetry, FlockFails, ReadStep, ReadList, ReadRefused, ReadAccepted,
                WriteTemp, SyncTemp, WriteFails, Unlock, Emit, Replacing, TypeInv, TypeOK
  <2>4. Behind => Behind'
    BY <2>3 DEF Behind
  <2>. QED  BY <1>1, <2>2, <2>4
<1>3. CASE \E p \in Proc : RenameTemp(p)
  <2>1. PICK p \in Proc : RenameTemp(p)
    BY <1>3
  <2>2. /\ pc[p] = "rename" /\ conf' = work[p] /\ req' = req /\ UNCHANGED <<live, orphans>>
        /\ pc'[p] = "dirsync" /\ \A q \in Proc \ {p} : pc'[q] = pc[q]
    BY <2>1 DEF RenameTemp, TypeInv, TypeOK
  <2>3. CASE req[p].op = "rename"
    <3>1. Routes(conf'.peers) = Routes(conf.peers)
      BY <2>2, <2>3, RenameKeepsRoutes
    <3>2. Behind => Behind'
      BY <2>2 DEF Behind
    <3>. QED  BY <1>1, <2>2, <3>1, <3>2
  <2>4. CASE req[p].op # "rename"
    BY <1>1, <2>2, <2>4 DEF Behind
  <2>. QED  BY <2>3, <2>4
<1>4. CASE \E p \in Proc : SyncDir(p)
  <2>1. PICK p \in Proc : SyncDir(p)
    BY <1>4
  <2>2. /\ pc[p] = "dirsync" /\ req' = req /\ UNCHANGED <<conf, live, orphans>>
        /\ req[p].op # "rename" => pc'[p] = "strip"
        /\ \A q \in Proc \ {p} : pc'[q] = pc[q]
    BY <2>1 DEF SyncDir, TypeInv, TypeOK
  <2>3. Behind => Behind'
    BY <2>2 DEF Behind
  <2>. QED  BY <1>1, <2>2, <2>3
<1>5. CASE \E p \in Proc : Strip(p)
  BY <1>1, <1>5 DEF Strip, Behind, TypeInv, TypeOK
<1>6. CASE \E p \in Proc : SyncDevice(p)
  <2>1. PICK p \in Proc : SyncDevice(p)
    BY <1>6
  <2>2. live' = DeviceView(conf.peers) /\ UNCHANGED <<conf, orphans>>
    BY <2>1 DEF SyncDevice, StripInv
  <2>. QED  BY <1>1, <2>2 DEF Routes
<1>7. CASE \E p \in Proc : ApplyFails(p) \/ Crash(p)
  <2>1. ~Healthy'
    BY <1>7 DEF ApplyFails, Crash, Healthy, TypeInv, TypeOK
  <2>. QED  BY <2>1
<1>8. CASE PowerLoss
  BY <1>8 DEF PowerLoss, Routes
<1>9. CASE OrphanSync
  BY <1>1, <1>9 DEF OrphanSync
<1>10. CASE UNCHANGED vars \/ \E p \in Proc : DeadlinePasses(p)
  BY <1>1, <1>10 DEF DeadlinePasses, vars, Behind
<1>. QED  BY <1>2, <1>3, <1>4, <1>5, <1>6, <1>7, <1>8, <1>9, <1>10
          DEF Next, OwnStep, Panic, WriteStep, ApplyStep, Finished

(* Between operations the device routes the peers of the file, if no        *)
(* process died and none reported that applying failed (server.go, commit;  *)
(* Rename does not apply).                                                  *)
THEOREM DeviceMatchesFileHolds == Spec => []DeviceMatchesFile
<1>1. DeviceInv => DeviceMatchesFile
  BY DEF DeviceInv, DeviceMatchesFile, Healthy, Behind, Routes
<1>. QED  BY TypeInit, TypeNext, LockInit, LockNext, WorkInit, WorkNext, StripInit, StripNext,
             OutcomeInit, OutcomeNext, DeviceInit, DeviceNext, <1>1, PTL DEF Spec

-----------------------------------------------------------------------------
(* PeerServer implements PeerRegistry: every step of a server process is a *)
(* step of the abstract list or invisible on it.                           *)

(* Every process works with the sidecar the interface has. *)
ConfigInv == \A p \in Proc : cfg[p] = sidecar

LEMMA ConfigInit == Init => ConfigInv
BY DEF Init, ConfigInv

LEMMA ConfigNext == TypeInv /\ ConfigInv /\ [Next]_vars => ConfigInv'
<1> SUFFICES ASSUME TypeInv, ConfigInv, [Next]_vars  PROVE ConfigInv'
  OBVIOUS
<1> USE DEF memory
<1>1. sidecar' = sidecar
  BY DEF Next, OwnStep, Panic, AcquireStep, ReadStep, WriteStep, ApplyStep, Start, Check,
         OpenLock, OpenLockFails, Flock, FlockBusy, GiveUp, SleepAndRetry, FlockFails,
         ReadList, ReadRefused, ReadAccepted, WriteTemp, SyncTemp, RenameTemp,
         WriteFails, SyncDir, Strip, SyncDevice, ApplyFails, Unlock, Emit, Crash,
         DeadlinePasses, OrphanSync, PowerLoss, Finished, vars
<1>2. CASE \E p \in Proc : Start(p)
  BY <1>1, <1>2 DEF Start, ConfigInv, TypeInv, TypeOK
<1>3. CASE ~ \E p \in Proc : Start(p)
  <2>1. cfg' = cfg
    BY <1>3 DEF Next, OwnStep, Panic, AcquireStep, ReadStep, WriteStep, ApplyStep, Check,
         OpenLock, OpenLockFails, Flock, FlockBusy, GiveUp, SleepAndRetry, FlockFails,
         ReadList, ReadRefused, ReadAccepted, WriteTemp, SyncTemp, RenameTemp,
         WriteFails, SyncDir, Strip, SyncDevice, ApplyFails, Unlock, Emit, Crash,
         DeadlinePasses, OrphanSync, PowerLoss, Finished, vars
  <2>. QED  BY <1>1, <2>1 DEF ConfigInv
<1>. QED  BY <1>2, <1>3

-----------------------------------------------------------------------------
(* The refinement mapping, by name. *)
Reg == Parse(conf.peers)
Disk == {Parse(c.peers) : c \in survivors}
Phase == [p \in Proc |-> PhaseOf(pc[p])]

LEMMA PhaseMoves ==
  ASSUME pc \in [Proc -> Steps], NEW p \in Proc, NEW to, pc' = [pc EXCEPT ![p] = to]
  PROVE  Phase' = [Phase EXCEPT ![p] = PhaseOf(to)]
BY DEF Phase

LEMMA PhaseStays ==
  ASSUME pc \in [Proc -> Steps], NEW p \in Proc, NEW to, pc' = [pc EXCEPT ![p] = to],
         PhaseOf(to) = PhaseOf(pc[p])
  PROVE  Phase' = Phase
BY DEF Phase

(* A step that changes none of the mapped variables is invisible. *)
LEMMA Invisible ==
  ASSUME UNCHANGED <<sidecar, conf, survivors, req, outcome>>, Phase' = Phase
  PROVE  UNCHANGED Registry!vars
BY DEF Registry!vars, Phase

LEMMA RegistryInit == TypeInv /\ Init => Registry!Init
<1> SUFFICES ASSUME TypeInv, Init  PROVE Registry!Init
  OBVIOUS
<1>1. Parse(conf.peers) \in Seq(Peer)
  BY ParseProperties DEF TypeInv, TypeOK, Conf
<1>2. {Parse(c.peers) : c \in survivors} = {Parse(conf.peers)}
  BY DEF Init
<1>3. [p \in Proc |-> PhaseOf(pc[p])] = [p \in Proc |-> "idle"]
  BY DEF Init, PhaseOf
<1>. QED  BY <1>1, <1>2, <1>3 DEF Init, Registry!Init, Registry!Peer, Peer

(* A verdict without effect, justified by the list as it is. *)
LEMMA JudgeStep ==
  ASSUME NEW p \in Proc, NEW v, NEW from,
         pc \in [Proc -> Steps], pc[p] = from, PhaseOf(from) = "called",
         NEW to, PhaseOf(to) = "decided", pc' = [pc EXCEPT ![p] = to],
         v \in Registry!Refusals \cup {"ok", "internal"},
         outcome' = [outcome EXCEPT ![p] = v],
         Registry!Justified(v, req[p], Reg),
         UNCHANGED <<sidecar, files, req>>
  PROVE  Registry!Judge(p)
<1>1. Phase[p] = "called" /\ Phase' = [Phase EXCEPT ![p] = "decided"]
  BY PhaseMoves DEF Phase
<1>. QED  BY <1>1 DEF Registry!Judge, Registry!Moves, Phase, Reg, files

LEMMA VerdictIsJustified ==
  ASSUME NEW peers \in Seq(Peer), NEW r \in Request, Verdict(r, sidecar, peers) # "ok"
  PROVE  /\ Verdict(r, sidecar, peers) \in Registry!Refusals
         /\ Registry!Justified(Verdict(r, sidecar, peers), r, peers)
<1> DEFINE v == Verdict(r, sidecar, peers)
<1>1. \A name : Registry!Named(peers, name) = Named(peers, name)
  BY DEF Registry!Named, Named
<1>2. \A name : FindByName(peers, name) = 0 <=> Named(peers, name) = {}
  BY FindByNameProperties
<1>3. CASE r.op = "add" /\ NameExists(peers, r.name)
  <2>1. v = "name_taken" /\ Named(peers, r.name) # {}
    BY <1>2, <1>3 DEF Verdict, NameExists
  <2>. QED  BY <1>1, <1>3, <2>1 DEF Registry!Refusals, Registry!Justified
<1>4. CASE r.op = "add" /\ ~NameExists(peers, r.name)
  <2>1. v = "no_free_ip" /\ Free(peers, sidecar.pool, sidecar.reserved) = {}
    BY <1>4 DEF Verdict
  <2>2. Registry!Free(peers, sidecar.pool \ sidecar.reserved, {})
          = Free(peers, sidecar.pool, sidecar.reserved)
    BY DEF Registry!Free, Free, Registry!Occupied, Occupied
  <2>. QED  BY <1>4, <2>1, <2>2 DEF Registry!Refusals, Registry!Justified
<1>5. CASE r.op \in {"kill", "rename"} /\ FindByName(peers, r.name) = 0
  <2>1. v = "not_found" /\ Named(peers, r.name) = {}
    BY <1>2, <1>5 DEF Verdict
  <2>. QED  BY <1>1, <1>5, <2>1 DEF Registry!Refusals, Registry!Justified
<1>6. CASE r.op \in {"kill", "rename"} /\ FindByName(peers, r.name) # 0
  <2>1. /\ v = "name_taken" /\ r.op = "rename"
        /\ FindByName(peers, r.newName) \notin {0, FindByName(peers, r.name)}
    BY <1>6 DEF Verdict
  <2>2. r.newName # r.name /\ Named(peers, r.newName) # {}
    BY <1>2, <2>1
  <2>. QED  BY <1>1, <2>1, <2>2 DEF Registry!Refusals, Registry!Justified
<1>7. CASE r.op = "list"
  BY <1>7 DEF Verdict
<1>. QED  BY <1>3, <1>4, <1>5, <1>6, <1>7 DEF Request

LEMMA EditIsAnEffect ==
  ASSUME NEW peers \in Seq(Peer), NEW r \in Request, sidecar \in ServerConfig,
         ~Malformed(r, sidecar), Verdict(r, sidecar, peers) = "ok", r.op # "list"
  PROVE  Edit(r, sidecar, peers) \in Registry!Effects(r, peers)
<1>1. \A name : Registry!Named(peers, name) = Named(peers, name)
  BY DEF Registry!Named, Named
<1>2. CASE r.op = "add"
  <2> DEFINE a == AllocateIP(peers, sidecar.pool, sidecar.reserved)
  <2>1. r.name \in ValidLabel /\ r.name # NoName
    BY <1>2, LabelAssumption DEF Malformed
  <2>2. Named(peers, r.name) = {} /\ Free(peers, sidecar.pool, sidecar.reserved) # {}
    BY <1>2, <2>1, FindByNameProperties DEF Verdict, NameExists
  <2>3. a \in Free(peers, sidecar.pool, sidecar.reserved)
    BY <2>2, AllocateIPProperties DEF ServerConfig
  <2>4. a \in Registry!Free(peers, sidecar.pool \ sidecar.reserved, {})
    BY <2>3 DEF Registry!Free, Free, Registry!Occupied, Occupied
  <2>. HIDE DEF a
  <2>5. Edit(r, sidecar, peers)
          = Append(peers, [name |-> r.name, key |-> r.key, ips |-> {a}, extra |-> FALSE])
    BY <1>2 DEF Edit, AddPeer, NewPeer, a
  <2>. QED  BY <1>1, <1>2, <2>1, <2>2, <2>4, <2>5 DEF Registry!Effects
<1>3. CASE r.op = "kill"
  <2> DEFINE at == FindByName(peers, r.name)
  <2>1. r.name # NoName
    BY <1>3 DEF Malformed
  <2>2. at \in Named(peers, r.name)
    BY <1>3, FindByNameProperties, LenProperties DEF Verdict, Named
  <2>3. Edit(r, sidecar, peers) = Registry!RemoveAt(peers, at)
    BY <1>3 DEF Edit, RemoveByName, RemoveAt, Registry!RemoveAt
  <2>. HIDE DEF at
  <2>. QED  BY <1>1, <1>3, <2>1, <2>2, <2>3 DEF Registry!Effects
<1>4. CASE r.op = "rename"
  <2> DEFINE at == FindByName(peers, r.name)
  <2>1. r.name # NoName /\ r.newName \in ValidLabel
    BY <1>4 DEF Malformed
  <2>2. at \in Named(peers, r.name)
    BY <1>4, FindByNameProperties, LenProperties DEF Verdict, Named
  <2>3. FindByName(peers, r.newName) \in {0, at}
    BY <1>4 DEF Verdict
  <2>4. r.newName = r.name \/ Named(peers, r.newName) = {}
    <3>1. CASE FindByName(peers, r.newName) = 0
      BY <3>1, FindByNameProperties
    <3>2. CASE FindByName(peers, r.newName) = at /\ at # 0
      BY <3>2, FindByNameProperties
    <3>. QED  BY <2>3, <3>1, <3>2
  <2>5. Edit(r, sidecar, peers) = [peers EXCEPT ![at].name = r.newName]
    BY <1>4 DEF Edit, Relabel
  <2>. HIDE DEF at
  <2>. QED  BY <1>1, <1>4, <2>1, <2>2, <2>4, <2>5 DEF Registry!Effects
<1>. QED  BY <1>2, <1>3, <1>4 DEF Request

(* What an edit of a parsed list leaves needs no further parsing. *)
LEMMA EditIsParsed ==
  ASSUME NEW blocks \in Seq(Peer), NEW r \in Request, NEW c \in ServerConfig,
         ~Malformed(r, c), Verdict(r, c, Parse(blocks)) = "ok"
  PROVE  Parse(Edit(r, c, Parse(blocks))) = Edit(r, c, Parse(blocks))
<1> DEFINE peers == Parse(blocks)
           new   == Edit(r, c, peers)
<1>1. /\ peers \in Seq(Peer) /\ Len(peers) \in Nat
      /\ \A i \in 1..Len(peers) : peers[i] \in Peer /\ peers[i].extra = FALSE
  BY ParseProperties, LenProperties
<1>2. new \in Seq(Peer)
  BY <1>1, EditProperties
<1>. HIDE DEF peers
<1>3. CASE r.op = "add"
  <2>1. new = Append(peers, NewPeer(r, c, peers)) /\ NewPeer(r, c, peers).extra = FALSE
    BY <1>3 DEF Edit, AddPeer, NewPeer
  <2>2. /\ Len(new) = Len(peers) + 1
        /\ \A i \in 1..Len(new) : new[i].extra = FALSE
    BY <1>1, <2>1
  <2>. QED  BY <1>2, <2>2, ParseIdempotent DEF peers
<1>4. CASE r.op = "kill"
  <2>1. FindByName(peers, r.name) \in 1..Len(peers)
    BY <1>1, <1>4, FindByNameProperties DEF Verdict, peers
  <2>2. new = RemoveAt(peers, FindByName(peers, r.name))
    BY <1>4 DEF Edit, RemoveByName
  <2>3. /\ Len(new) = Len(peers) - 1
        /\ \A j \in 1..Len(peers) - 1 :
             new[j] = IF j < FindByName(peers, r.name) THEN peers[j] ELSE peers[j + 1]
    BY <1>1, <2>1, <2>2, RemoveAtProperties
  <2>4. \A i \in 1..Len(new) : new[i].extra = FALSE
    BY <1>1, <2>1, <2>3
  <2>. QED  BY <1>2, <2>4, ParseIdempotent DEF peers
<1>5. CASE r.op = "rename"
  <2> DEFINE at == FindByName(peers, r.name)
  <2>1. at \in 1..Len(peers)
    BY <1>1, <1>5, FindByNameProperties DEF Verdict, peers
  <2>2. new = [peers EXCEPT ![at].name = r.newName]
    BY <1>5 DEF Edit, Relabel
  <2>. HIDE DEF at
  <2>3. DOMAIN new = 1..Len(peers) /\ \A i \in 1..Len(peers) : new[i].extra = FALSE
    BY <1>1, <2>1, <2>2, LenProperties DEF Peer
  <2>4. Len(new) = Len(peers)
    BY <1>1, <1>2, <2>3, LenProperties
  <2>. QED  BY <1>2, <2>3, <2>4, ParseIdempotent DEF peers
<1>6. CASE r.op = "list"
  BY <1>1, <1>6, ParseIdempotent DEF Edit, peers
<1>. QED  BY <1>3, <1>4, <1>5, <1>6 DEF Request, peers

-----------------------------------------------------------------------------
(* One lemma per part of the program: what its steps are to the registry.  *)

LEMMA CheckRefines ==
  ASSUME TypeInv, NEW p \in Proc, Start(p) \/ Check(p)
  PROVE  [Registry!Next]_(Registry!vars)
<1> USE DEF Goto, Decide, locks, memory
<1>0. pc \in [Proc -> Steps] /\ outcome \in [Proc -> Statuses]
  BY DEF TypeInv, TypeOK
<1>1. CASE Start(p)
  <2>1. Phase' = [Phase EXCEPT ![p] = "called"] /\ Phase[p] = "idle"
    BY <1>0, <1>1, PhaseMoves DEF Start, Phase, PhaseOf
  <2>2. Registry!Call(p)
    BY <1>1, <2>1 DEF Start, Registry!Call, Registry!Moves, Phase, files
  <2>. QED  BY <2>2 DEF Registry!Next
<1>2. CASE Check(p) /\ pc'[p] = "reply"
  <2>1. PICK v \in {"bad_request", "internal"} :
          outcome' = [outcome EXCEPT ![p] = v]
    BY <1>0, <1>2 DEF Check
  <2>2. /\ pc[p] = "check" /\ pc' = [pc EXCEPT ![p] = "reply"]
        /\ UNCHANGED <<sidecar, files, req>>
    BY <1>0, <1>2 DEF Check
  <2>3. PhaseOf("check") = "called" /\ PhaseOf("reply") = "decided"
    BY DEF PhaseOf
  <2>4. Registry!Justified(v, req[p], Reg) /\ v \in Registry!Refusals \cup {"ok", "internal"}
    BY DEF Registry!Justified, Registry!Refusals
  <2>5. Registry!Judge(p)
    BY <1>0, <2>1, <2>2, <2>3, <2>4, JudgeStep
  <2>. QED  BY <2>5 DEF Registry!Next
<1>3. CASE Check(p) /\ pc'[p] # "reply"
  <2>1. \E to \in {"read", "open"} : pc' = [pc EXCEPT ![p] = to]
    BY <1>0, <1>3 DEF Check
  <2>2. pc[p] = "check" /\ UNCHANGED <<sidecar, conf, survivors, req, outcome>>
    BY <1>0, <1>3 DEF Check, files
  <2>3. Phase' = Phase
    BY <1>0, <2>1, <2>2, PhaseStays DEF PhaseOf
  <2>. QED  BY <2>2, <2>3, Invisible
<1>. QED  BY <1>1, <1>2, <1>3

LEMMA AcquireRefines ==
  ASSUME TypeInv, NEW p \in Proc, AcquireStep(p) \/ DeadlinePasses(p)
  PROVE  [Registry!Next]_(Registry!vars)
<1> USE DEF Goto, Decide, locks, memory
<1>0. pc \in [Proc -> Steps]
  BY DEF TypeInv, TypeOK
<1>1. CASE OpenLockFails(p) \/ GiveUp(p) \/ FlockFails(p)
  <2>1. PICK v \in {"locked", "internal"} : outcome' = [outcome EXCEPT ![p] = v]
    BY <1>1 DEF OpenLockFails, GiveUp, FlockFails
  <2>2. PICK from \in {"open", "retry", "flock"} :
          pc[p] = from /\ pc' = [pc EXCEPT ![p] = "reply"]
    BY <1>1 DEF OpenLockFails, GiveUp, FlockFails
  <2>3. PhaseOf(from) = "called" /\ PhaseOf("reply") = "decided"
    BY DEF PhaseOf
  <2>4. UNCHANGED <<sidecar, files, req>>
    BY <1>1 DEF OpenLockFails, GiveUp, FlockFails
  <2>5. req[p].op # "list"
    BY <2>2 DEF TypeInv, Validated
  <2>6. Registry!Justified(v, req[p], Reg) /\ v \in Registry!Refusals \cup {"ok", "internal"}
    BY <2>5 DEF Registry!Justified, Registry!Refusals
  <2>7. Registry!Judge(p)
    BY <1>0, <2>1, <2>2, <2>3, <2>4, <2>6, JudgeStep
  <2>. QED  BY <2>7 DEF Registry!Next
<1>2. CASE OpenLock(p) \/ Flock(p) \/ FlockBusy(p) \/ SleepAndRetry(p)
  <2>1. PICK to \in {"flock", "read", "retry"} : pc' = [pc EXCEPT ![p] = to]
    BY <1>2 DEF OpenLock, Flock, FlockBusy, SleepAndRetry
  <2>2. /\ pc[p] \in {"open", "flock", "retry"}
        /\ UNCHANGED <<sidecar, conf, survivors, req, outcome>>
    BY <1>2 DEF OpenLock, Flock, FlockBusy, SleepAndRetry, files
  <2>3. PhaseOf(to) = PhaseOf(pc[p])
    BY <2>2 DEF PhaseOf
  <2>. QED  BY <1>0, <2>1, <2>2, <2>3, PhaseStays, Invisible
<1>3. CASE DeadlinePasses(p)
  BY <1>3, Invisible DEF DeadlinePasses, files, Phase
<1>. QED  BY <1>1, <1>2, <1>3 DEF AcquireStep

LEMMA ReadRefines ==
  ASSUME TypeInv, ConfigInv, NEW p \in Proc, ReadStep(p)
  PROVE  [Registry!Next]_(Registry!vars)
<1> USE DEF Goto, Decide, locks, memory
<1>0. pc \in [Proc -> Steps] /\ req[p] \in Request
  BY DEF TypeInv, TypeOK
<1>1. Reg \in Seq(Peer)
  BY ParseProperties DEF TypeInv, TypeOK, Conf, Reg
<1>2. PhaseOf("read") = "called" /\ \A to \in {"reply", "unlock"} : PhaseOf(to) = "decided"
  BY DEF PhaseOf
<1>3. CASE ReadList(p)
  <2>1. PICK v \in {"ok", "internal"} : outcome' = [outcome EXCEPT ![p] = v]
    BY <1>3 DEF ReadList
  <2>2. /\ pc[p] = "read" /\ pc' = [pc EXCEPT ![p] = "reply"]
        /\ req[p].op = "list" /\ UNCHANGED <<sidecar, files, req>>
    BY <1>3 DEF ReadList
  <2>3. Registry!Justified(v, req[p], Reg)
    BY <2>2 DEF Registry!Justified
  <2>4. Registry!Judge(p)
    BY <1>0, <1>2, <2>1, <2>2, <2>3, JudgeStep
  <2>. QED  BY <2>4 DEF Registry!Next
<1>4. CASE ReadRefused(p)
  <2>1. /\ pc[p] = "read" /\ pc' = [pc EXCEPT ![p] = "unlock"]
        /\ UNCHANGED <<sidecar, files, req>>
    BY <1>4 DEF ReadRefused
  <2>2. PICK v : /\ outcome' = [outcome EXCEPT ![p] = v]
                 /\ v = "internal" \/ (v = Verdict(req[p], sidecar, Reg) /\ v # "ok")
    BY <1>4 DEF ReadRefused, ConfigInv, Reg
  <2>3. v \in Registry!Refusals \cup {"ok", "internal"} /\ Registry!Justified(v, req[p], Reg)
    <3>1. CASE v = "internal"
      BY <3>1 DEF Registry!Justified
    <3>2. CASE v = Verdict(req[p], sidecar, Reg) /\ v # "ok"
      BY <1>0, <1>1, <3>2, VerdictIsJustified
    <3>. QED  BY <2>2, <3>1, <3>2
  <2>4. Registry!Judge(p)
    BY <1>0, <1>2, <2>1, <2>2, <2>3, JudgeStep
  <2>. QED  BY <2>4 DEF Registry!Next
<1>5. CASE ReadAccepted(p)
  <2>1. /\ pc[p] = "read" /\ pc' = [pc EXCEPT ![p] = "write"]
        /\ UNCHANGED <<sidecar, conf, survivors, req, outcome>>
    BY <1>5 DEF ReadAccepted, files
  <2>2. PhaseOf("write") = PhaseOf("read")
    BY DEF PhaseOf
  <2>. QED  BY <1>0, <2>1, <2>2, PhaseStays, Invisible
<1>. QED  BY <1>3, <1>4, <1>5 DEF ReadStep

LEMMA RenameTempRefines ==
  ASSUME TypeInv, WorkInv, ConfigInv, NEW p \in Proc, RenameTemp(p)
  PROVE  Registry!Effect(p)
<1> DEFINE new == Edit(req[p], sidecar, Reg)
<1>0. pc \in [Proc -> Steps] /\ req[p] \in Request /\ conf \in Conf
  BY DEF TypeInv, TypeOK
<1>1. sidecar \in ServerConfig /\ cfg[p] = sidecar
  BY InputAssumption DEF TypeInv, TypeOK, ConfigInv
<1>2. pc[p] = "rename" /\ pc' = [pc EXCEPT ![p] = "dirsync"]
  BY DEF RenameTemp, Goto
<1>3. /\ tmp[p] = "synced" /\ Verdict(req[p], sidecar, Reg) = "ok"
      /\ work[p] = [conf EXCEPT !.peers = new]
  BY <1>1, <1>2 DEF WorkInv, NoLostUpdate, Replacing, Reg
<1>4. ~Malformed(req[p], sidecar) /\ req[p].op # "list"
  BY <1>1, <1>2 DEF TypeInv, Validated
<1>5. conf.peers \in Seq(Peer) /\ Reg \in Seq(Peer)
  BY <1>0, ParseProperties DEF Conf, Reg
<1>6. new \in Registry!Effects(req[p], Reg)
  BY <1>0, <1>1, <1>3, <1>4, <1>5, EditIsAnEffect
<1>7. Parse(new) = new
  BY <1>0, <1>1, <1>3, <1>4, <1>5, EditIsParsed DEF Reg
<1>. HIDE DEF new
<1>8. work[p].peers = new
  BY <1>0, <1>3 DEF Conf
<1>9. /\ conf' = work[p] /\ survivors' = survivors \cup {work[p]}
      /\ UNCHANGED <<sidecar, req, outcome>>
  BY <1>3 DEF RenameTemp
<1>10. Reg' = new /\ Disk' = Disk \cup {new}
  BY <1>7, <1>8, <1>9 DEF Reg, Disk
<1>11. Phase[p] = "called" /\ Phase' = [Phase EXCEPT ![p] = "effected"]
  BY <1>0, <1>2, PhaseMoves DEF Phase, PhaseOf
<1>. QED  BY <1>6, <1>9, <1>10, <1>11
          DEF Registry!Effect, Registry!Moves, Reg, Disk, Phase

LEMMA SyncDirRefines ==
  ASSUME TypeInv, NEW p \in Proc, SyncDir(p)
  PROVE  Registry!Save(p)
<1> USE DEF Goto, Decide, locks, memory
<1>0. pc \in [Proc -> Steps] /\ pc[p] = "dirsync"
  BY DEF TypeInv, TypeOK, SyncDir
<1>1. Reg' = Reg /\ (Disk' = {Reg} \/ (DirSyncMayFail /\ Disk' = Disk))
  <2>1. CASE survivors' = {conf}
    BY <2>1 DEF SyncDir, Reg, Disk
  <2>2. CASE DirSyncMayFail /\ survivors' = survivors
    BY <2>2 DEF SyncDir, Reg, Disk
  <2>. QED  BY <2>1, <2>2 DEF SyncDir
<1>2. CASE req[p].op = "rename"
  <2>1. Phase[p] = "effected" /\ Phase' = [Phase EXCEPT ![p] = "decided"]
    BY <1>0, <1>2, PhaseMoves DEF SyncDir, Phase, PhaseOf
  <2>. QED  BY <1>1, <1>2, <2>1 DEF SyncDir, Registry!Save, Registry!Moves, Reg, Disk, Phase
<1>3. CASE req[p].op # "rename"
  <2>1. Phase[p] = "effected" /\ Phase' = [Phase EXCEPT ![p] = "saved"]
    BY <1>0, <1>3, PhaseMoves DEF SyncDir, Phase, PhaseOf
  <2>. QED  BY <1>1, <1>3, <2>1 DEF SyncDir, Registry!Save, Registry!Moves, Reg, Disk, Phase
<1>. QED  BY <1>2, <1>3

LEMMA WriteRefines ==
  ASSUME TypeInv, WorkInv, ConfigInv, NEW p \in Proc, WriteStep(p)
  PROVE  [Registry!Next]_(Registry!vars)
<1> USE DEF Goto, Decide, locks, memory
<1>0. pc \in [Proc -> Steps]
  BY DEF TypeInv, TypeOK
<1>1. CASE WriteTemp(p) \/ SyncTemp(p)
  <2>1. PICK from \in Replacing, to \in Replacing :
          pc[p] = from /\ pc' = [pc EXCEPT ![p] = to]
    BY <1>1 DEF WriteTemp, SyncTemp, Replacing
  <2>2. UNCHANGED <<sidecar, conf, survivors, req, outcome>>
    BY <1>1 DEF WriteTemp, SyncTemp, files
  <2>3. PhaseOf(to) = PhaseOf(pc[p])
    BY <2>1 DEF PhaseOf, Replacing
  <2>. QED  BY <1>0, <2>1, <2>2, <2>3, PhaseStays, Invisible
<1>2. CASE RenameTemp(p)
  BY <1>2, RenameTempRefines DEF Registry!Next
<1>3. CASE WriteFails(p)
  <2>1. PICK from \in Replacing : pc[p] = from /\ pc' = [pc EXCEPT ![p] = "unlock"]
    BY <1>3 DEF WriteFails
  <2>2. PhaseOf(from) = "called" /\ PhaseOf("unlock") = "decided"
    BY DEF PhaseOf, Replacing
  <2>3. outcome' = [outcome EXCEPT ![p] = "internal"] /\ UNCHANGED <<sidecar, files, req>>
    BY <1>3 DEF WriteFails
  <2>4. Registry!Justified("internal", req[p], Reg)
    BY DEF Registry!Justified
  <2>5. Registry!Judge(p)
    BY <1>0, <2>1, <2>2, <2>3, <2>4, JudgeStep
  <2>. QED  BY <2>5 DEF Registry!Next
<1>4. CASE SyncDir(p)
  BY <1>4, SyncDirRefines DEF Registry!Next
<1>. QED  BY <1>1, <1>2, <1>3, <1>4 DEF WriteStep

LEMMA ApplyRefines ==
  ASSUME TypeInv, NEW p \in Proc, ApplyStep(p)
  PROVE  [Registry!Next]_(Registry!vars)
<1> USE DEF Goto, Decide, locks, memory
<1>0. pc \in [Proc -> Steps]
  BY DEF TypeInv, TypeOK
<1>1. CASE Strip(p)
  <2>1. /\ pc[p] = "strip" /\ pc' = [pc EXCEPT ![p] = "sync"]
        /\ UNCHANGED <<sidecar, conf, survivors, req, outcome>>
    BY <1>1 DEF Strip, files
  <2>2. PhaseOf("sync") = PhaseOf("strip")
    BY DEF PhaseOf
  <2>. QED  BY <1>0, <2>1, <2>2, PhaseStays, Invisible
<1>2. CASE SyncDevice(p) \/ ApplyFails(p)
  <2>1. PICK v \in {"ok", "internal"} : outcome' = [outcome EXCEPT ![p] = v]
    BY <1>2 DEF SyncDevice, ApplyFails
  <2>2. PICK from \in {"strip", "sync"} :
          pc[p] = from /\ pc' = [pc EXCEPT ![p] = "unlock"]
    BY <1>2 DEF SyncDevice, ApplyFails
  <2>3. Phase[p] = "saved" /\ Phase' = [Phase EXCEPT ![p] = "decided"]
    BY <1>0, <2>2, PhaseMoves DEF Phase, PhaseOf
  <2>4. UNCHANGED <<sidecar, conf, survivors, req>>
    BY <1>2 DEF SyncDevice, ApplyFails, files
  <2>5. Registry!Settle(p)
    BY <2>1, <2>3, <2>4 DEF Registry!Settle, Registry!Moves, Phase
  <2>. QED  BY <2>5 DEF Registry!Next
<1>. QED  BY <1>1, <1>2 DEF ApplyStep

LEMMA EndRefines ==
  ASSUME TypeInv, NEW p \in Proc, Unlock(p) \/ Emit(p) \/ Crash(p)
  PROVE  [Registry!Next]_(Registry!vars)
<1> USE DEF Goto, Decide, locks, memory
<1>0. pc \in [Proc -> Steps]
  BY DEF TypeInv, TypeOK
<1>1. UNCHANGED <<sidecar, conf, survivors, req, outcome>>
  BY DEF Unlock, Emit, Crash, files
<1>2. CASE Unlock(p)
  <2>1. pc[p] = "unlock" /\ pc' = [pc EXCEPT ![p] = "reply"]
    BY <1>2 DEF Unlock
  <2>2. PhaseOf("reply") = PhaseOf("unlock")
    BY DEF PhaseOf
  <2>. QED  BY <1>0, <1>1, <2>1, <2>2, PhaseStays, Invisible
<1>3. CASE Emit(p)
  <2>1. Phase[p] = "decided" /\ Phase' = [Phase EXCEPT ![p] = "answered"]
    BY <1>0, <1>3, PhaseMoves DEF Emit, Phase, PhaseOf
  <2>2. Registry!Answer(p)
    BY <1>1, <2>1 DEF Registry!Answer, Registry!Moves, Phase
  <2>. QED  BY <2>2 DEF Registry!Next
<1>4. CASE Crash(p)
  <2>1. Phase[p] \notin {"idle", "answered", "dead"}
    BY <1>0, <1>4 DEF Crash, Running, Phase, PhaseOf
  <2>2. Phase' = [Phase EXCEPT ![p] = "dead"]
    BY <1>0, <1>4, PhaseMoves DEF Crash, PhaseOf
  <2>3. Registry!Die(p)
    BY <1>1, <2>1, <2>2 DEF Registry!Die, Phase
  <2>. QED  BY <2>3 DEF Registry!Next
<1>. QED  BY <1>2, <1>3, <1>4

LEMMA EnvironmentRefines ==
  ASSUME TypeInv, OrphanSync \/ PowerLoss \/ UNCHANGED vars
  PROVE  [Registry!Next]_(Registry!vars)
<1> USE DEF locks, memory
<1>1. CASE OrphanSync \/ UNCHANGED vars
  BY <1>1, Invisible DEF OrphanSync, vars, files, Phase
<1>2. CASE PowerLoss
  <2>0. pc \in [Proc -> Steps]
    BY DEF TypeInv, TypeOK
  <2>1. PICK kept \in survivors : conf' = kept /\ survivors' = {kept}
    BY <1>2 DEF PowerLoss
  <2>2. Parse(kept.peers) \in Disk /\ Reg' = Parse(kept.peers) /\ Disk' = {Parse(kept.peers)}
    BY <2>1 DEF Reg, Disk
  <2>3. \A p \in Proc : Running(p) <=> Phase[p] \notin {"idle", "answered", "dead"}
    BY <2>0 DEF Running, Phase, PhaseOf, Steps
  <2>4. Phase' = [p \in Proc |-> IF Phase[p] \in {"idle", "answered"} THEN Phase[p] ELSE "dead"]
    <3>1. \A p \in Proc : pc'[p] = IF Running(p) THEN "dead" ELSE pc[p]
      BY <1>2 DEF PowerLoss
    <3>2. \A p \in Proc :
            PhaseOf(pc'[p]) = IF Phase[p] \in {"idle", "answered"} THEN Phase[p] ELSE "dead"
      BY <2>0, <2>3, <3>1 DEF Phase, PhaseOf
    <3>. QED  BY <3>2 DEF Phase
  <2>5. UNCHANGED <<sidecar, req, outcome>>
    BY <1>2 DEF PowerLoss
  <2>6. Registry!PowerLoss
    BY <2>2, <2>4, <2>5 DEF Registry!PowerLoss, Reg, Disk, Phase
  <2>. QED  BY <2>6 DEF Registry!Next
<1>. QED  BY <1>1, <1>2

LEMMA StepRefines ==
  TypeInv /\ WorkInv /\ ConfigInv /\ [Next]_vars => [Registry!Next]_(Registry!vars)
BY CheckRefines, AcquireRefines, ReadRefines, WriteRefines, ApplyRefines, EndRefines,
   EnvironmentRefines DEF Next, OwnStep, Panic, Finished

(* The server keeps the registry's promise: every operation takes effect in *)
(* one instant (the rename of fsops.go:75), every refusal was true of the   *)
(* list when it was decided, and a power loss returns a list that was.      *)
THEOREM RegistryImplemented == Spec => ImplementsRegistry
BY TypeInit, TypeNext, LockInit, LockNext, WorkInit, WorkNext, ConfigInit, ConfigNext,
   RegistryInit, StepRefines, PTL DEF Spec, ImplementsRegistry, Registry!Spec
=============================================================================
