-------------------------- MODULE PeerClientProof --------------------------
(***************************************************************************)
(* Proofs about clients and the server together, for any command lines,    *)
(* any client.toml, any number of clients and power losses.                *)
(***************************************************************************)
EXTENDS PeerClient, PeerServerProof

LEMMA ClientInitStep == ClientInit => Init
BY DEF ClientInit

LEMMA ClientNextStep == [ClientNext]_clientVars => [Next]_vars
<1>1. ASSUME NEW p \in Proc, Invoke(p) \/ Deliver(p) \/ LoseLink(p) \/ Receive(p)
      PROVE  [Next]_vars
  BY <1>1 DEF Invoke, Deliver, LoseLink, Receive, Next
<1>2. ASSUME ServerStep  PROVE [Next]_vars
  BY <1>2 DEF ServerStep, Next
<1>. QED  BY <1>1, <1>2 DEF ClientNext, AllEnded, clientVars

(* Everything said of the server's processes holds when clients start them:  *)
(* what they send is what the server's callers may send (client.go, call).   *)
THEOREM ClientsDriveTheServer == ClientSpec => Spec
BY ClientInitStep, ClientNextStep, PTL DEF ClientSpec, Spec

-----------------------------------------------------------------------------
(***************************************************************************)
(* What a step of a server process leaves alone: the other processes, and  *)
(* of its own what it read, once it is past the decision.                  *)
(***************************************************************************)
Early == {"new", "check", "read"} \cup Waiting

LEMMA OthersKeep ==
  ASSUME TypeInv, NEW p \in Proc,
         Start(p) \/ OwnStep(p) \/ ApplyStep(p) \/ DeadlinePasses(p) \/ Crash(p),
         NEW q \in Proc, q # p
  PROVE  /\ pc'[q] = pc[q] /\ req'[q] = req[q] /\ cfg'[q] = cfg[q]
         /\ work'[q] = work[q] /\ outcome'[q] = outcome[q]
<1> USE DEF Goto, Decide, locks, memory, TypeInv
<1>1. CASE Start(p) \/ Check(p) \/ DeadlinePasses(p) \/ Crash(p) \/ Unlock(p) \/ Emit(p)
  BY <1>1 DEF Start, Check, DeadlinePasses, Crash, Unlock, Emit, TypeOK
<1>2. CASE AcquireStep(p)
  BY <1>2 DEF AcquireStep, OpenLock, OpenLockFails, Flock, FlockBusy, GiveUp, SleepAndRetry,
              FlockFails, TypeOK
<1>3. CASE ReadStep(p)
  BY <1>3 DEF ReadStep, ReadList, ReadRefused, ReadAccepted, TypeOK
<1>4. CASE WriteStep(p)
  BY <1>4 DEF WriteStep, WriteTemp, SyncTemp, RenameTemp, WriteFails, SyncDir, TypeOK
<1>5. CASE ApplyStep(p)
  BY <1>5 DEF ApplyStep, Strip, SyncDevice, ApplyFails, TypeOK
<1>. QED  BY <1>1, <1>2, <1>3, <1>4, <1>5 DEF OwnStep, Panic

LEMMA LaterKeeps ==
  ASSUME TypeInv, OutcomeInv, [Next]_vars, NEW q \in Proc, pc[q] \notin Early
  PROVE  /\ pc'[q] \notin Early /\ req'[q] = req[q] /\ cfg'[q] = cfg[q] /\ work'[q] = work[q]
         /\ outcome[q] # "none" => outcome'[q] = outcome[q]
<1> USE DEF Goto, Decide, locks, memory, TypeInv, Early, Waiting
<1>1. ASSUME NEW p \in Proc, p # q,
             Start(p) \/ OwnStep(p) \/ ApplyStep(p) \/ DeadlinePasses(p) \/ Crash(p)
      PROVE  /\ pc'[q] \notin Early /\ req'[q] = req[q] /\ cfg'[q] = cfg[q] /\ work'[q] = work[q]
             /\ outcome'[q] = outcome[q]
  BY <1>1, OthersKeep
<1>2. CASE Start(q) \/ Check(q) \/ AcquireStep(q) \/ ReadStep(q) \/ DeadlinePasses(q)
  BY <1>2 DEF Start, Check, AcquireStep, OpenLock, OpenLockFails, Flock, FlockBusy, GiveUp,
              SleepAndRetry, FlockFails, ReadStep, ReadList, ReadRefused, ReadAccepted,
              DeadlinePasses
<1>3. CASE WriteStep(q) \/ ApplyStep(q)
  BY <1>3 DEF WriteStep, WriteTemp, SyncTemp, RenameTemp, WriteFails, SyncDir, ApplyStep,
              Strip, SyncDevice, ApplyFails, Replacing, OutcomeInv, Undecided, TypeOK
<1>4. CASE Unlock(q) \/ Emit(q) \/ Crash(q)
  BY <1>4 DEF Unlock, Emit, Crash, TypeOK
<1>5. CASE PowerLoss
  BY <1>5 DEF PowerLoss, Running, TypeOK
<1>6. CASE OrphanSync \/ UNCHANGED vars
  BY <1>6 DEF OrphanSync, vars
<1>. QED  BY <1>1, <1>2, <1>3, <1>4, <1>5, <1>6 DEF Next, OwnStep, Panic, Finished

-----------------------------------------------------------------------------
(***************************************************************************)
(* The peer a kill or rename picks is the one its label leads to, in the   *)
(* file it is about to replace.                                            *)
(***************************************************************************)
ServerInv == TypeInv /\ LockInv /\ WorkInv /\ OutcomeInv /\ OriginInv

LEMMA ServerInvInit == ClientInit => ServerInv
BY ClientInitStep, TypeInit, LockInit, WorkInit, OutcomeInit, OriginInit DEF ServerInv

LEMMA ServerInvNext == ServerInv /\ [ClientNext]_clientVars => ServerInv'
BY ClientNextStep, TypeNext, LockNext, WorkNext, OutcomeNext, OriginNext DEF ServerInv

KeyNamed(peers, name) == peers[FindByName(peers, name)].key
Picking(r) == r.op \in {"kill", "rename"}
PickInv ==
  /\ picked \in [Proc -> Key \cup {BadKey}]
  /\ \A q \in Proc :
       /\ pc[q] \in Early => picked[q] = BadKey
       /\ pc[q] \in Replacing /\ Picking(req[q]) =>
            picked[q] = KeyNamed(Parse(conf.peers), req[q].name)
       /\ picked[q] # BadKey => Known(picked[q])

LEMMA PickInit == ClientInit => PickInv
BY DEF ClientInit, Init, PickInv, Early, Waiting, Replacing

(* The label an accepted kill or rename gives is that of a peer. *)
LEMMA PickedKnown ==
  ASSUME ServerInv, NEW p \in Proc, ReadAccepted(p), Picking(req[p])
  PROVE  /\ KeyNamed(Parse(conf.peers), req[p].name) \in Key
         /\ KeyNamed(Parse(conf.peers), req[p].name) \in KeysOf(conf.peers)
<1> DEFINE peers == Parse(conf.peers)
           at    == FindByName(peers, req[p].name)
<1>1. conf.peers \in Seq(Peer) /\ Verdict(req[p], cfg[p], peers) = "ok"
  BY DEF ServerInv, TypeInv, TypeOK, Conf, ReadAccepted
<1>2. peers \in Seq(Peer) /\ KeysOf(peers) = KeysOf(conf.peers)
  BY <1>1, ParseProperties, ParseKeys
<1>. HIDE DEF peers
<1>3. at \in 1..Len(peers) /\ DOMAIN peers = 1..Len(peers)
  BY <1>1, <1>2, FindByNameProperties, LenProperties DEF Verdict, Picking
<1>. HIDE DEF at
<1>4. peers[at] \in Peer /\ peers[at].key \in KeysOf(peers)
  BY <1>2, <1>3, LenProperties DEF KeysOf
<1>5. KeyNamed(peers, req[p].name) = peers[at].key
  BY DEF KeyNamed, at
<1>. QED  BY <1>2, <1>4, <1>5 DEF Peer, peers

(* Which steps of a process enter or stay between its read and its rename.  *)
LEMMA EnterReplacing ==
  ASSUME TypeInv, NEW p \in Proc, OwnStep(p) \/ ApplyStep(p) \/ DeadlinePasses(p) \/ Crash(p)
  PROVE  /\ pc[p] = "read" /\ pc'[p] = "write" <=> ReadAccepted(p)
         /\ pc'[p] \in Replacing => ReadAccepted(p) \/ pc[p] \in Replacing
         /\ pc'[p] \in Early => pc[p] \in Early
         /\ pc'[p] \in Replacing => req'[p] = req[p]
<1> USE DEF Goto, locks, memory, TypeInv, Early, Waiting, Replacing
<1>1. CASE Check(p) \/ DeadlinePasses(p) \/ Crash(p) \/ Unlock(p) \/ Emit(p)
  BY <1>1 DEF Check, DeadlinePasses, Crash, Unlock, Emit, ReadAccepted, TypeOK
<1>2. CASE AcquireStep(p)
  BY <1>2 DEF AcquireStep, OpenLock, OpenLockFails, Flock, FlockBusy, GiveUp, SleepAndRetry,
              FlockFails, ReadAccepted, TypeOK
<1>3. CASE ReadStep(p)
  BY <1>3 DEF ReadStep, ReadList, ReadRefused, ReadAccepted, TypeOK
<1>4. CASE WriteStep(p)
  BY <1>4 DEF WriteStep, WriteTemp, SyncTemp, RenameTemp, WriteFails, SyncDir, ReadAccepted, TypeOK
<1>5. CASE ApplyStep(p)
  BY <1>5 DEF ApplyStep, Strip, SyncDevice, ApplyFails, ReadAccepted, TypeOK
<1>. QED  BY <1>1, <1>2, <1>3, <1>4, <1>5 DEF OwnStep, Panic

(* Which steps change the files. *)
LEMMA FileSteps ==
  ASSUME WorkInv, [Next]_vars
  PROVE  \/ UNCHANGED files
         \/ \E q \in Proc : /\ RenameTemp(q) /\ pc[q] = "rename"
                            /\ conf' = work[q] /\ survivors' = survivors \cup {work[q]}
         \/ \E q \in Proc : /\ SyncDir(q) /\ pc[q] = "dirsync" /\ conf' = conf
                            /\ survivors' = {conf} \/ (DirSyncMayFail /\ survivors' = survivors)
         \/ PowerLoss /\ conf' \in survivors /\ survivors' = {conf'}
<1>1. ASSUME NEW p \in Proc,
             Start(p) \/ Check(p) \/ AcquireStep(p) \/ ReadStep(p) \/ WriteTemp(p)
               \/ SyncTemp(p) \/ WriteFails(p) \/ ApplyStep(p) \/ Unlock(p) \/ Emit(p)
               \/ Crash(p) \/ DeadlinePasses(p)
      PROVE  UNCHANGED files
  BY <1>1 DEF Start, Check, AcquireStep, OpenLock, OpenLockFails, Flock, FlockBusy,
              GiveUp, SleepAndRetry, FlockFails, ReadStep, ReadList, ReadRefused,
              ReadAccepted, WriteTemp, SyncTemp, WriteFails, ApplyStep, Strip,
              SyncDevice, ApplyFails, Unlock, Emit, Crash, DeadlinePasses
<1>2. ASSUME NEW p \in Proc, RenameTemp(p)
      PROVE  pc[p] = "rename" /\ conf' = work[p] /\ survivors' = survivors \cup {work[p]}
  BY <1>2 DEF RenameTemp, Goto, WorkInv
<1>3. ASSUME NEW p \in Proc, SyncDir(p)
      PROVE  /\ pc[p] = "dirsync" /\ conf' = conf
             /\ survivors' = {conf} \/ (DirSyncMayFail /\ survivors' = survivors)
  BY <1>3 DEF SyncDir, Goto
<1>4. CASE PowerLoss
  BY <1>4 DEF PowerLoss
<1>5. CASE OrphanSync \/ UNCHANGED vars
  BY <1>5 DEF OrphanSync, vars
<1>. QED  BY <1>1, <1>2, <1>3, <1>4, <1>5 DEF Next, OwnStep, Panic, WriteStep, Finished

LEMMA KnownStays ==
  ASSUME ServerInv, [Next]_vars, NEW k, Known(k)
  PROVE  Known(k)'
BY BroughtStays DEF Known, FromHand, ServerInv

(* Nobody is between its read and its rename when the .conf changes.        *)
LEMMA ConfStandsStill ==
  ASSUME ServerInv, [Next]_vars, NEW q \in Proc, pc'[q] \in Replacing
  PROVE  conf' = conf
<1>1. ASSUME NEW p \in Proc, RenameTemp(p)  PROVE pc'[q] \notin Replacing
  <2>1. pc[p] = "rename" /\ pc' = [pc EXCEPT ![p] = "dirsync"]
    BY <1>1 DEF RenameTemp, Goto
  <2>2. q # p => pc[q] \notin Replacing
    BY <2>1, LockGivesExclusion DEF ServerInv, MutualExclusion, Critical, Replacing
  <2>. QED  BY <2>1, <2>2 DEF Replacing, ServerInv, TypeInv, TypeOK
<1>2. ASSUME PowerLoss  PROVE pc'[q] \notin Replacing
  BY <1>2 DEF PowerLoss, Running, Replacing, ServerInv, TypeInv, TypeOK
<1>. QED  BY <1>1, <1>2, FileSteps DEF ServerInv, files

LEMMA PickNext == ServerInv /\ PickInv /\ [ClientNext]_clientVars => PickInv'
<1> SUFFICES ASSUME ServerInv, PickInv, [ClientNext]_clientVars  PROVE PickInv'
  OBVIOUS
<1> DEFINE Holds(q) ==
      /\ pc'[q] \in Early => picked'[q] = BadKey
      /\ pc'[q] \in Replacing /\ Picking(req'[q]) =>
           picked'[q] = KeyNamed(Parse(conf.peers), req'[q].name)
      /\ picked'[q] # BadKey => Known(picked'[q])
<1>1. [Next]_vars
  BY ClientNextStep
<1>2. ASSUME picked' \in [Proc -> Key \cup {BadKey}], \A q \in Proc : Holds(q)
      PROVE  PickInv'
  BY <1>1, <1>2, KnownStays, ConfStandsStill DEF PickInv
<1>3. CASE UNCHANGED <<pc, req, picked>>
  BY <1>2, <1>3 DEF PickInv
<1>4. CASE \E p \in Proc : Start(p) /\ UNCHANGED picked
  <2>1. PICK p \in Proc : Start(p) /\ UNCHANGED picked
    BY <1>4
  <2>2. /\ pc[p] = "new" /\ pc' = [pc EXCEPT ![p] = "check"]
        /\ \A q \in Proc \ {p} : req'[q] = req[q]
    BY <2>1 DEF Start, Goto, ServerInv, TypeInv, TypeOK
  <2>3. \A q \in Proc : Holds(q)
    BY <2>1, <2>2 DEF PickInv, Early, Replacing, ServerInv, TypeInv, TypeOK
  <2>. QED  BY <1>2, <2>1, <2>3 DEF PickInv
<1>5. CASE \E p \in Proc : /\ OwnStep(p) \/ ApplyStep(p) \/ DeadlinePasses(p) \/ Crash(p)
                           /\ Pick(p)
  <2>1. PICK p \in Proc : /\ OwnStep(p) \/ ApplyStep(p) \/ DeadlinePasses(p) \/ Crash(p)
                          /\ Pick(p)
    BY <1>5
  <2>2. \A q \in Proc \ {p} : pc'[q] = pc[q] /\ req'[q] = req[q]
    BY <2>1, OthersKeep DEF ServerInv
  <2>3. CASE ReadAccepted(p) /\ Picking(req[p])
    <3> DEFINE key == KeyNamed(Parse(conf.peers), req[p].name)
    <3>1. pc[p] = "read" /\ pc'[p] = "write" /\ req' = req
      BY <2>1, <2>3, EnterReplacing DEF ReadAccepted, ServerInv
    <3>2. picked' = [picked EXCEPT ![p] = key]
      BY <2>1, <2>3, <3>1 DEF Pick, KeyNamed, Picking
    <3>3. key \in Key /\ Known(key)
      BY <2>3, PickedKnown DEF ServerInv, OriginInv
    <3>. HIDE DEF key
    <3>4. picked' \in [Proc -> Key \cup {BadKey}] /\ picked'[p] = key
          /\ \A q \in Proc \ {p} : picked'[q] = picked[q]
      BY <3>2, <3>3 DEF PickInv
    <3>5. \A q \in Proc \ {p} : Holds(q)
      BY <2>2, <3>4 DEF PickInv
    <3>6. Holds(p)
      BY <3>1, <3>3, <3>4 DEF key, Early, Waiting
    <3>. QED  BY <1>2, <3>4, <3>5, <3>6
  <2>4. CASE ~(ReadAccepted(p) /\ Picking(req[p]))
    <3>1. picked' = picked
      BY <2>1, <2>4, EnterReplacing DEF Pick, Picking, ServerInv
    <3>2. \A q \in Proc \ {p} : Holds(q)
      BY <2>2, <3>1 DEF PickInv
    <3>3. Holds(p)
      BY <2>1, <2>4, <3>1, EnterReplacing DEF PickInv, ServerInv
    <3>. QED  BY <1>2, <3>1, <3>2, <3>3 DEF PickInv
  <2>. QED  BY <2>3, <2>4
<1>6. CASE PowerLoss /\ UNCHANGED picked
  <2>1. \A q \in Proc : pc'[q] \in {"new", "done", "dead"} /\ (pc'[q] = "new" => pc[q] = "new")
    BY <1>6 DEF PowerLoss, Running, ServerInv, TypeInv, TypeOK
  <2>2. \A q \in Proc : Holds(q)
    BY <1>6, <2>1 DEF PickInv, Early, Waiting, Replacing
  <2>. QED  BY <1>2, <1>6, <2>2 DEF PickInv
<1>7. CASE OrphanSync /\ UNCHANGED picked
  BY <1>3, <1>7 DEF OrphanSync, memory
<1>. QED  BY <1>3, <1>4, <1>5, <1>6, <1>7
          DEF ClientNext, Invoke, Deliver, LoseLink, Receive, ServerStep, AllEnded, clientVars,
              clients, vars, memory

-----------------------------------------------------------------------------
(***************************************************************************)
(* What stands behind an answer: an add that was answered ok was well      *)
(* formed and servable, and the peer it appended is the last it wrote.     *)
(***************************************************************************)
Committed(p) == pc[p] \in {"dirsync", "strip", "sync"} \/ outcome[p] = "ok"
Appended(p) == Last(work[p].peers)
AnswerInv ==
  \A p \in Proc :
    /\ pc[p] \in Waiting \cup {"read"} \cup Replacing => ~Unservable(req[p], cfg[p])
    /\ req[p].op = "add" /\ Committed(p) =>
         /\ ~Malformed(req[p], cfg[p]) /\ ~Unservable(req[p], cfg[p])
         /\ Appended(p) \in Peer /\ Appended(p).key = req[p].key

LEMMA AnswerInit == Init => AnswerInv
BY DEF Init, AnswerInv, Committed, Waiting, Replacing

LEMMA CommittedBefore ==
  ASSUME TypeInv, OutcomeInv, [Next]_vars, NEW p \in Proc,
         Committed(p)', req'[p].op # "list"
  PROVE  /\ Committed(p) \/ RenameTemp(p)
         /\ pc[p] \notin Early
         /\ req'[p] = req[p] /\ cfg'[p] = cfg[p] /\ work'[p] = work[p]
<1> USE DEF Goto, Decide, locks, memory, TypeInv
<1>1. Committed(p) \/ RenameTemp(p)
  <2>1. ASSUME NEW q \in Proc, q # p,
               Start(q) \/ OwnStep(q) \/ ApplyStep(q) \/ DeadlinePasses(q) \/ Crash(q)
        PROVE  Committed(p)
    BY <2>1, OthersKeep DEF Committed
  <2>2. CASE Start(p) \/ Check(p) \/ AcquireStep(p) \/ DeadlinePasses(p)
    BY <2>2 DEF Start, Check, AcquireStep, OpenLock, OpenLockFails, Flock, FlockBusy, GiveUp,
                SleepAndRetry, FlockFails, DeadlinePasses, Committed, TypeOK
  <2>3. CASE ReadStep(p)
    <3>1. Verdict(req[p], cfg[p], Parse(conf.peers)) = "ok" => ~ReadRefused(p) \/ ~conf.readable
      BY DEF ReadRefused
    <3>. QED  BY <2>3, <3>1 DEF ReadStep, ReadList, ReadRefused, ReadAccepted, Committed, TypeOK
  <2>4. CASE WriteStep(p)
    BY <2>4 DEF WriteStep, WriteTemp, SyncTemp, WriteFails, SyncDir, Committed, TypeOK
  <2>5. CASE ApplyStep(p) \/ Unlock(p) \/ Emit(p) \/ Crash(p)
    BY <2>5 DEF ApplyStep, Strip, SyncDevice, ApplyFails, Unlock, Emit, Crash, Committed, TypeOK
  <2>6. CASE PowerLoss
    BY <2>6 DEF PowerLoss, Running, Committed, TypeOK
  <2>7. CASE OrphanSync \/ UNCHANGED vars
    BY <2>7 DEF OrphanSync, vars, Committed
  <2>. QED  BY <2>1, <2>2, <2>3, <2>4, <2>5, <2>6, <2>7 DEF Next, OwnStep, Panic, Finished
<1>2. pc[p] \notin Early
  BY <1>1 DEF Committed, RenameTemp, OutcomeInv, Undecided, Early, Waiting
<1>. QED  BY <1>1, <1>2, LaterKeeps

(* An accepted add is about to write the file with its peer at the end. *)
LEMMA RenamedBlock ==
  ASSUME TypeInv, WorkInv, NEW p \in Proc, pc[p] = "rename", req[p].op = "add"
  PROVE  /\ work[p].peers \in Seq(Peer)
         /\ Len(work[p].peers) \in DOMAIN work[p].peers
         /\ Appended(p) \in Peer /\ Appended(p).key = req[p].key
<1> DEFINE peers == Parse(conf.peers)
           peer  == NewPeer(req[p], cfg[p], peers)
<1>1. Verdict(req[p], cfg[p], peers) = "ok" /\ work[p] = [conf EXCEPT !.peers = Append(peers, peer)]
  BY DEF WorkInv, NoLostUpdate, Replacing, Edit, AddPeer
<1>2. conf \in Conf /\ peers \in Seq(Peer)
  BY ParseProperties DEF TypeInv, TypeOK, Conf
<1>3. req[p] \in Request /\ cfg[p] \in ServerConfig /\ ~Malformed(req[p], cfg[p])
  BY InputAssumption DEF TypeInv, TypeOK, Validated
<1>. HIDE DEF peers
<1>4. req[p].key \in Key /\ req[p].name \in Label
  BY <1>3, LabelAssumption DEF Malformed, Request
<1>5. Free(peers, cfg[p].pool, cfg[p].reserved) # {}
  BY <1>1 DEF Verdict
<1>6. AllocateIP(peers, cfg[p].pool, cfg[p].reserved) \in Addr
  BY <1>3, <1>5, AllocateIPProperties DEF ServerConfig
<1>7. peer \in Peer /\ peer.key = req[p].key
  BY <1>4, <1>6 DEF NewPeer, Peer
<1>. HIDE DEF peer
<1>8. work[p].peers = Append(peers, peer)
  BY <1>1, <1>2 DEF Conf
<1>9. /\ Append(peers, peer) \in Seq(Peer) /\ Len(Append(peers, peer)) = Len(peers) + 1
      /\ Append(peers, peer)[Len(peers) + 1] = peer /\ Len(peers) \in Nat
      /\ DOMAIN Append(peers, peer) = 1..Len(peers) + 1
  BY <1>2, <1>7, AppendProperties, LenProperties
<1>. QED  BY <1>7, <1>8, <1>9 DEF Appended, Last

LEMMA AnswerNext ==
  TypeInv /\ WorkInv /\ OutcomeInv /\ AnswerInv /\ [Next]_vars => AnswerInv'
<1> SUFFICES ASSUME TypeInv, WorkInv, OutcomeInv, AnswerInv, [Next]_vars, NEW p \in Proc
             PROVE  /\ pc'[p] \in Waiting \cup {"read"} \cup Replacing =>
                         ~Unservable(req'[p], cfg'[p])
                    /\ req'[p].op = "add" /\ Committed(p)' =>
                         /\ ~Malformed(req'[p], cfg'[p]) /\ ~Unservable(req'[p], cfg'[p])
                         /\ Appended(p)' \in Peer /\ Appended(p)'.key = req'[p].key
  BY DEF AnswerInv
<1> USE DEF Goto, Decide, locks, memory, TypeInv, Waiting, Replacing
<1>1. pc'[p] \in Waiting \cup {"read"} \cup Replacing => ~Unservable(req'[p], cfg'[p])
  <2>1. ASSUME NEW q \in Proc, q # p,
               Start(q) \/ OwnStep(q) \/ ApplyStep(q) \/ DeadlinePasses(q) \/ Crash(q)
        PROVE  pc'[p] = pc[p] /\ req'[p] = req[p] /\ cfg'[p] = cfg[p]
    BY <2>1, OthersKeep
  <2>2. CASE Check(p)
    BY <2>2 DEF Check, Unservable, TypeOK
  <2>3. CASE Start(p) \/ AcquireStep(p) \/ ReadStep(p) \/ DeadlinePasses(p)
    BY <2>3 DEF Start, AcquireStep, OpenLock, OpenLockFails, Flock, FlockBusy, GiveUp,
                SleepAndRetry, FlockFails, ReadStep, ReadList, ReadRefused, ReadAccepted,
                DeadlinePasses, AnswerInv, TypeOK
  <2>4. CASE WriteStep(p) \/ ApplyStep(p) \/ Unlock(p) \/ Emit(p) \/ Crash(p)
    BY <2>4 DEF WriteStep, WriteTemp, SyncTemp, RenameTemp, WriteFails, SyncDir, ApplyStep,
                Strip, SyncDevice, ApplyFails, Unlock, Emit, Crash, AnswerInv, TypeOK
  <2>5. CASE PowerLoss
    BY <2>5 DEF PowerLoss, Running, TypeOK
  <2>6. CASE OrphanSync \/ UNCHANGED vars
    BY <2>6 DEF OrphanSync, vars, AnswerInv
  <2>. QED  BY <2>1, <2>2, <2>3, <2>4, <2>5, <2>6
            DEF Next, OwnStep, Panic, Finished, AnswerInv
<1>2. ASSUME req'[p].op = "add", Committed(p)'
      PROVE  /\ ~Malformed(req'[p], cfg'[p]) /\ ~Unservable(req'[p], cfg'[p])
             /\ Appended(p)' \in Peer /\ Appended(p)'.key = req'[p].key
  <2>1. /\ Committed(p) \/ RenameTemp(p)
        /\ req'[p] = req[p] /\ cfg'[p] = cfg[p] /\ work'[p] = work[p]
    BY <1>2, CommittedBefore
  <2>2. CASE Committed(p)
    BY <1>2, <2>1, <2>2 DEF AnswerInv, Appended
  <2>3. CASE RenameTemp(p)
    <3>1. pc[p] = "rename"
      BY <2>3 DEF RenameTemp
    <3>2. ~Malformed(req[p], cfg[p]) /\ ~Unservable(req[p], cfg[p])
      BY <3>1 DEF Validated, AnswerInv
    <3>. QED  BY <1>2, <2>1, <3>1, <3>2, RenamedBlock DEF Appended
  <2>. QED  BY <2>1, <2>2, <2>3
<1>. QED  BY <1>1, <1>2

-----------------------------------------------------------------------------
(***************************************************************************)
(* Where a client is, and where its server process is; types.              *)
(***************************************************************************)
NoCall == {"idle", "usage", "failed", "elsewhere"}
Answered == {"refused", "noendpoint", "printed", "undrawn"}

CallInv ==
  /\ client \in [Proc -> [at: {"idle", "calling"} \cup Endings,
                         typed: Invocations \cup {Untyped}]]
  /\ \A p \in Proc :
       /\ client[p].at \in NoCall => pc[p] = "new"
       /\ client[p].at \in Answered => pc[p] = "done"
       /\ client[p].at \in {"calling", "lost"} => client[p].typed \in Invocations
       /\ client[p].at = "calling" /\ pc[p] # "new" => req[p] = RequestOf(p, client[p].typed.line)
       /\ req[p].op = "add" => req[p].key \in {ClientKey[p], BadKey}
       /\ client[p].at = "refused" => outcome[p] # "ok"
       /\ client[p].at # "noendpoint"

ToldInv ==
  /\ told \in [Proc -> Report]
  /\ \A p \in Proc :
       /\ told[p].endpoint # NoEndpoint =>
            /\ pc[p] = "done" /\ outcome[p] = "ok"
            /\ req[p].op = "add" /\ req[p].key = ClientKey[p]
            /\ told[p].key = ClientKey[p] /\ told[p].ips = Appended(p).ips
            /\ told[p].serverKey = work[p].serverKey
       /\ client[p].at = "printed" /\ req[p].op = "kill" =>
            pc[p] = "done" /\ outcome[p] = "ok" /\ told[p].key = picked[p]

LEMMA CallInit == ClientInit => CallInv /\ ToldInv
<1> SUFFICES ASSUME ClientInit  PROVE CallInv /\ ToldInv
  OBVIOUS
<1>1. CallInv
  BY DEF ClientInit, Init, CallInv, NoCall, Answered, Idle
<1>2. ToldInv
  BY DEF ClientInit, Init, ToldInv, Report, About
<1>. QED  BY <1>1, <1>2

LEMMA RequestOfFields ==
  ASSUME NEW p \in Proc, NEW line \in Line
  PROVE  /\ RequestOf(p, line).op = line.op
         /\ line.op = "add" => /\ RequestOf(p, line).key = ClientKey[p]
                               /\ RequestOf(p, line).endpoint = line.endpoint
BY DEF RequestOf, Idle, Line

LEMMA DeliverCall == ASSUME CallInv, TypeInv, NEW p \in Proc, Deliver(p)  PROVE CallInv'
<1> DEFINE line == client[p].typed.line
<1>1. /\ pc[p] = "new" /\ pc' = [pc EXCEPT ![p] = "check"] /\ client' = client /\ outcome' = outcome
      /\ \A q \in Proc \ {p} : req'[q] = req[q]
      /\ client[p].at \in {"calling", "lost"}
      /\ \/ req'[p] = RequestOf(p, line)
         \/ client[p].at = "lost" /\ req'[p] = [Idle EXCEPT !.op = RequestOf(p, line).op]
  BY DEF Deliver, Start, Goto, clients, TypeInv, TypeOK
<1>2. line \in Line
  BY <1>1, InvocationAssumption DEF CallInv
<1>3. req'[p].op = "add" => req'[p].key \in {ClientKey[p], BadKey}
  BY <1>1, <1>2, RequestOfFields DEF Idle
<1>. QED  BY <1>1, <1>3 DEF CallInv, NoCall, Answered, TypeInv, TypeOK

(* With a menu that has the endpoint asked for, the client finds it. *)
LEMMA EndpointFound ==
  ASSUME NEW menu \in Seq(Endpoint), menu # <<>>, NEW name \in ToSet(menu) \cup {NoEndpoint}
  PROVE  ChooseEndpoint(menu, name) \in Endpoint
<1>1. Len(menu) \in Nat \ {0} /\ DOMAIN menu = 1..Len(menu)
      /\ \A i \in 1..Len(menu) : menu[i] \in Endpoint
  BY LenProperties, EmptySeq
<1>2. CASE name = NoEndpoint
  BY <1>1, <1>2 DEF ChooseEndpoint
<1>3. CASE name # NoEndpoint
  <2>1. Contains(menu, name) /\ name \in Endpoint
    BY <1>1, <1>3 DEF ToSet, Contains
  <2>. QED  BY <1>3, <2>1 DEF ChooseEndpoint
<1>. QED  BY <1>2, <1>3

LEMMA ConfigProperties ==
  ASSUME CallInv, AnswerInv, TypeInv, NEW p \in Proc, client[p].at = "calling",
         pc[p] = "done", outcome[p] = "ok", client[p].typed.line.op = "add"
  PROVE  /\ Config(p) \in Report /\ Config(p).endpoint # NoEndpoint
         /\ req[p].op = "add" /\ req[p].key = ClientKey[p]
<1> DEFINE line == client[p].typed.line
<1>1. line \in Line /\ req[p] = RequestOf(p, line)
  BY InvocationAssumption DEF CallInv
<1>2. req[p].op = "add" /\ req[p].key = ClientKey[p] /\ req[p].endpoint = line.endpoint
  BY <1>1, RequestOfFields
<1>3. ~Malformed(req[p], cfg[p]) /\ ~Unservable(req[p], cfg[p]) /\ Appended(p) \in Peer
  BY <1>2 DEF AnswerInv, Committed
<1>4. cfg[p] \in ServerConfig
  BY InputAssumption DEF TypeInv, TypeOK
<1>5. /\ cfg[p].endpoints \in Seq(Endpoint) /\ cfg[p].endpoints # <<>>
      /\ line.endpoint \in ToSet(cfg[p].endpoints) \cup {NoEndpoint}
  BY <1>2, <1>3, <1>4 DEF Malformed, Unservable, UnknownEndpoint, ServerConfig
<1>6. ChooseEndpoint(cfg[p].endpoints, line.endpoint) \in Endpoint
  BY <1>5, EndpointFound
<1>7. ClientKey[p] \in Key /\ work[p].serverKey \in ServerKey \cup {NoServerKey}
      /\ Last(work[p].peers).ips \in SUBSET Addr
  BY <1>3, ClientKeyAssumption DEF TypeInv, TypeOK, Conf, Peer, Appended
<1>. QED  BY <1>2, <1>6, <1>7, EndpointAssumption DEF Config, Report

LEMMA ReceiveCall ==
  ASSUME CallInv, ToldInv, AnswerInv, TypeInv, PickInv, NEW p \in Proc, Receive(p)
  PROVE  CallInv' /\ ToldInv'
<1> DEFINE line == client[p].typed.line
<1>1. /\ client[p].at = "calling" /\ pc[p] = "done" /\ UNCHANGED vars /\ picked' = picked
      /\ req[p] = RequestOf(p, line) /\ line \in Line
  BY InvocationAssumption DEF Receive, CallInv
<1>2. req[p].op = line.op
  BY <1>1, RequestOfFields
<1>3. UNCHANGED <<pc, req, outcome, work>>
  BY <1>1 DEF vars, memory
<1>4. About(BadKey) \in Report /\ About(picked[p]) \in Report
      /\ About(picked[p]).key = picked[p] /\ About(picked[p]).endpoint = NoEndpoint
      /\ About(BadKey).endpoint = NoEndpoint
  BY DEF About, Report, PickInv
<1>5. ASSUME NEW at \in Answered \ {"noendpoint"}, NEW report \in Report,
             client' = [client EXCEPT ![p] = [at |-> at, typed |-> Untyped]],
             told' = [told EXCEPT ![p] = report],
             at = "refused" => outcome[p] # "ok",
             report.endpoint # NoEndpoint =>
               /\ outcome[p] = "ok" /\ req[p].op = "add" /\ req[p].key = ClientKey[p]
               /\ report.key = ClientKey[p] /\ report.ips = Appended(p).ips
               /\ report.serverKey = work[p].serverKey,
             at = "printed" /\ req[p].op = "kill" => outcome[p] = "ok" /\ report.key = picked[p]
      PROVE  CallInv' /\ ToldInv'
  <2>1. CallInv'
    BY <1>1, <1>3, <1>5 DEF CallInv, NoCall, Answered, Endings
  <2>2. told' \in [Proc -> Report]
    BY <1>5 DEF ToldInv
  <2>3. Appended(p)' = Appended(p) /\ \A q \in Proc : Appended(q)' = Appended(q)
    BY <1>3 DEF Appended
  <2>4. ToldInv'
    BY <1>1, <1>3, <1>5, <2>2, <2>3 DEF ToldInv, CallInv
  <2>. QED  BY <2>1, <2>4
<1>6. CASE outcome[p] # "ok"
  BY <1>1, <1>4, <1>5, <1>6 DEF Receive, Answered
<1>7. CASE outcome[p] = "ok" /\ line.op # "add"
  BY <1>1, <1>2, <1>4, <1>5, <1>7 DEF Receive, Answered
<1>8. CASE outcome[p] = "ok" /\ line.op = "add"
  <2>1. /\ Config(p) \in Report /\ Config(p).endpoint # NoEndpoint /\ req[p].key = ClientKey[p]
        /\ Config(p).key = ClientKey[p] /\ Config(p).ips = Appended(p).ips
        /\ Config(p).serverKey = work[p].serverKey
    BY <1>1, <1>8, ConfigProperties DEF Config, Appended
  <2>. QED  BY <1>2, <1>5, <1>8, <2>1 DEF Receive, Answered
<1>. QED  BY <1>6, <1>7, <1>8

(* A server process keeps its request; one that has not begun or has        *)
(* answered stands still.                                                   *)
LEMMA ServerStepKeeps ==
  ASSUME TypeInv, PickInv, ServerStep
  PROVE  /\ req' = req /\ client' = client /\ told' = told
         /\ \A p \in Proc : /\ pc[p] = "new" <=> pc'[p] = "new"
                            /\ pc[p] = "done" => /\ pc'[p] = "done" /\ outcome'[p] = outcome[p]
                                                 /\ work'[p] = work[p] /\ picked'[p] = picked[p]
<1> USE DEF Goto, Decide, locks, memory, TypeInv
<1>1. ASSUME NEW p \in Proc, OwnStep(p) \/ ApplyStep(p) \/ DeadlinePasses(p) \/ Crash(p)
      PROVE  req' = req /\ pc[p] \notin {"new", "done"} /\ pc'[p] # "new"
  <2>1. CASE Check(p) \/ AcquireStep(p) \/ DeadlinePasses(p)
    BY <2>1 DEF Check, AcquireStep, OpenLock, OpenLockFails, Flock, FlockBusy, GiveUp,
                SleepAndRetry, FlockFails, DeadlinePasses, TypeOK
  <2>2. CASE ReadStep(p)
    BY <2>2 DEF ReadStep, ReadList, ReadRefused, ReadAccepted, TypeOK
  <2>3. CASE WriteStep(p) \/ ApplyStep(p)
    BY <2>3 DEF WriteStep, WriteTemp, SyncTemp, RenameTemp, WriteFails, SyncDir, ApplyStep,
                Strip, SyncDevice, ApplyFails, Replacing, TypeOK
  <2>4. CASE Unlock(p) \/ Emit(p) \/ Crash(p)
    BY <2>4 DEF Unlock, Emit, Crash, Running, TypeOK
  <2>. QED  BY <1>1, <2>1, <2>2, <2>3, <2>4 DEF OwnStep, Panic
<1>2. ASSUME NEW p \in Proc, Pick(p), NEW q \in Proc, q # p  PROVE picked'[q] = picked[q]
  BY <1>2 DEF Pick, PickInv
<1>3. CASE \E p \in Proc : /\ OwnStep(p) \/ ApplyStep(p) \/ DeadlinePasses(p) \/ Crash(p)
                           /\ Pick(p)
  BY <1>1, <1>2, <1>3, OthersKeep DEF ServerStep
<1>4. CASE PowerLoss /\ UNCHANGED picked
  BY <1>4 DEF PowerLoss, Running, ServerStep, TypeOK
<1>5. CASE OrphanSync /\ UNCHANGED picked
  BY <1>5 DEF OrphanSync, ServerStep
<1>. QED  BY <1>3, <1>4, <1>5 DEF ServerStep

LEMMA CallNext ==
  ServerInv /\ PickInv /\ AnswerInv /\ CallInv /\ ToldInv /\ [ClientNext]_clientVars
    => CallInv' /\ ToldInv'
<1> SUFFICES ASSUME ServerInv, PickInv, AnswerInv, CallInv, ToldInv, [ClientNext]_clientVars
             PROVE  CallInv' /\ ToldInv'
  OBVIOUS
<1>1. ASSUME NEW p \in Proc, Invoke(p)  PROVE CallInv' /\ ToldInv'
  <2>1. PICK i \in Invocations : \E at \in {Prelude(i)} \cup {"failed"} :
          client' = [client EXCEPT ![p] =
                       [at |-> at, typed |-> IF at = "calling" THEN i ELSE Untyped]]
    BY <1>1 DEF Invoke
  <2>2. PICK at \in {Prelude(i)} \cup {"failed"} :
          client' = [client EXCEPT ![p] =
                       [at |-> at, typed |-> IF at = "calling" THEN i ELSE Untyped]]
    BY <2>1
  <2>3. at \in {"usage", "failed", "elsewhere", "calling"}
    BY <2>2 DEF Prelude
  <2>4. client[p].at = "idle" /\ UNCHANGED <<pc, req, outcome, work, told, picked>>
    BY <1>1 DEF Invoke, vars, memory
  <2>5. CallInv'
    BY <2>2, <2>3, <2>4 DEF CallInv, NoCall, Answered, Endings
  <2>6. ToldInv'
    BY <2>2, <2>3, <2>4 DEF ToldInv, CallInv, Appended
  <2>. QED  BY <2>5, <2>6
<1>2. ASSUME NEW p \in Proc, Deliver(p)  PROVE CallInv' /\ ToldInv'
  <2>1. CallInv'
    BY <1>2, DeliverCall DEF ServerInv
  <2>2. /\ pc[p] = "new" /\ pc' = [pc EXCEPT ![p] = "check"] /\ UNCHANGED <<outcome, work, clients>>
        /\ \A q \in Proc \ {p} : req'[q] = req[q]
        /\ client[p].at # "printed"
    BY <1>2 DEF Deliver, Start, Goto, ServerInv, TypeInv, TypeOK
  <2>3. ToldInv'
    BY <2>2 DEF ToldInv, clients, Appended, ServerInv, TypeInv, TypeOK
  <2>. QED  BY <2>1, <2>3
<1>3. ASSUME NEW p \in Proc, LoseLink(p)  PROVE CallInv' /\ ToldInv'
  <2>1. /\ client[p].at = "calling" /\ client' = [client EXCEPT ![p].at = "lost"]
        /\ UNCHANGED <<pc, req, outcome, work, told, picked>>
    BY <1>3 DEF LoseLink, vars, memory
  <2>2. /\ client'[p].at = "lost" /\ client'[p].typed = client[p].typed
        /\ \A q \in Proc \ {p} : client'[q] = client[q]
        /\ client' \in [Proc -> [at: {"idle", "calling"} \cup Endings,
                                 typed: Invocations \cup {Untyped}]]
    BY <2>1 DEF CallInv, Endings
  <2>3. CallInv'
    BY <2>1, <2>2 DEF CallInv, NoCall, Answered
  <2>4. ToldInv'
    BY <2>1, <2>2 DEF ToldInv, Appended
  <2>. QED  BY <2>3, <2>4
<1>4. ASSUME NEW p \in Proc, Receive(p)  PROVE CallInv' /\ ToldInv'
  BY <1>4, ReceiveCall DEF ServerInv
<1>5. ASSUME ServerStep  PROVE CallInv' /\ ToldInv'
  <2>1. CallInv'
    BY <1>5, ServerStepKeeps DEF CallInv, NoCall, Answered, ServerInv
  <2>2. ToldInv'
    BY <1>5, ServerStepKeeps DEF ToldInv, Appended, ServerInv
  <2>. QED  BY <2>1, <2>2
<1>6. CASE UNCHANGED clientVars
  BY <1>6 DEF clientVars, clients, vars, memory, CallInv, ToldInv, Appended
<1>. QED  BY <1>1, <1>2, <1>3, <1>4, <1>5, <1>6 DEF ClientNext, AllEnded

ClientInv == ServerInv /\ AnswerInv /\ PickInv /\ CallInv /\ ToldInv

LEMMA ClientInvInit == ClientInit => ClientInv
BY ServerInvInit, ClientInitStep, AnswerInit, PickInit, CallInit DEF ClientInv

LEMMA ClientInvNext == ClientInv /\ [ClientNext]_clientVars => ClientInv'
BY ServerInvNext, ClientNextStep, AnswerNext, PickNext, CallNext DEF ClientInv, ServerInv

(* The variables of clients and server keep their types, whatever is typed. *)
THEOREM ClientTypeCorrect == ClientSpec => []ClientTypeOK
<1>1. ClientInv => ClientTypeOK
  BY DEF ClientInv, ServerInv, TypeInv, PickInv, CallInv, ToldInv, ClientTypeOK
<1>. QED  BY ClientInvInit, ClientInvNext, <1>1, PTL DEF ClientSpec

-----------------------------------------------------------------------------
(***************************************************************************)
(* A client that calls has resolved its command line to the interface it   *)
(* calls.                                                                  *)
(***************************************************************************)
ListedInv == \A p \in Proc : client[p].at \in {"calling", "lost"} => Prelude(client[p].typed) = "calling"

LEMMA ListedInit == ClientInit => ListedInv
BY DEF ClientInit, ListedInv

LEMMA ListedNext == CallInv /\ ListedInv /\ [ClientNext]_clientVars => ListedInv'
<1> SUFFICES ASSUME CallInv, ListedInv, [ClientNext]_clientVars  PROVE ListedInv'
  OBVIOUS
<1>1. ASSUME NEW p \in Proc, Invoke(p)  PROVE ListedInv'
  <2>1. PICK i \in Invocations : \E at \in {Prelude(i)} \cup {"failed"} :
          client' = [client EXCEPT ![p] =
                       [at |-> at, typed |-> IF at = "calling" THEN i ELSE Untyped]]
    BY <1>1 DEF Invoke
  <2>2. PICK at \in {Prelude(i)} \cup {"failed"} :
          client' = [client EXCEPT ![p] =
                       [at |-> at, typed |-> IF at = "calling" THEN i ELSE Untyped]]
    BY <2>1
  <2>3. at # "lost" /\ (at = "calling" => Prelude(i) = "calling")
    BY <2>2 DEF Prelude
  <2>. HIDE DEF Prelude
  <2>. QED  BY <2>2, <2>3 DEF ListedInv, CallInv
<1>2. ASSUME NEW p \in Proc, LoseLink(p)  PROVE ListedInv'
  <2>1. /\ client'[p].at = "lost" /\ client'[p].typed = client[p].typed /\ client[p].at = "calling"
        /\ \A q \in Proc \ {p} : client'[q] = client[q]
    BY <1>2 DEF LoseLink, CallInv
  <2>. QED  BY <2>1 DEF ListedInv
<1>3. ASSUME NEW p \in Proc, Receive(p)  PROVE ListedInv'
  <2>1. PICK at \in Answered : client' = [client EXCEPT ![p] = [at |-> at, typed |-> Untyped]]
    BY <1>3 DEF Receive, Answered
  <2>. QED  BY <2>1 DEF ListedInv, CallInv, Answered
<1>4. CASE client' = client
  BY <1>4 DEF ListedInv
<1>. QED  BY <1>1, <1>2, <1>3, <1>4
          DEF ClientNext, Deliver, ServerStep, AllEnded, clientVars, clients

LEMMA IfaceOfListed ==
  ASSUME NEW entry \in [name: STRING, ssh: STRING, ifaces: Seq(STRING)],
         NEW iface \in STRING, IfaceOf(entry, iface) # Unset
  PROVE  /\ entry.ifaces # <<>> => Contains(entry.ifaces, IfaceOf(entry, iface))
         /\ iface \in {Unset, IfaceOf(entry, iface)}
<1>1. CASE entry.ifaces = <<>>
  BY <1>1 DEF IfaceOf
<1>2. CASE entry.ifaces # <<>> /\ iface = Unset
  <2>1. Len(entry.ifaces) \in Nat \ {0}
    BY <1>2, EmptySeq, LenProperties
  <2>. QED  BY <1>2, <2>1 DEF IfaceOf, Contains
<1>3. CASE entry.ifaces # <<>> /\ iface # Unset
  BY <1>3 DEF IfaceOf
<1>. QED  BY <1>1, <1>2, <1>3

LEMMA ResolvedIsListed ==
  ASSUME NEW i \in Invocations, Prelude(i) = "calling"
  PROVE  LET named == IF i.line.server = Unset THEN i.menu.default ELSE i.line.server
         IN \E k \in DOMAIN i.menu.servers :
              /\ i.menu.servers[k].ssh = Home.ssh
              /\ named \in {Unset, i.menu.servers[k].name}
              /\ i.menu.servers[k].ifaces # <<>> => Contains(i.menu.servers[k].ifaces, Home.iface)
              /\ i.line.iface \in {Unset, Home.iface}
<1> DEFINE Entry   == [name: STRING, ssh: STRING, ifaces: Seq(STRING)]
           servers == i.menu.servers
           named   == IF i.line.server = Unset THEN i.menu.default ELSE i.line.server
           fits    == {k \in DOMAIN servers : named \in {Unset, servers[k].name}}
           at      == EntryAt(i.menu, i.line.server)
           iface   == IfaceOf(servers[at], i.line.iface)
<1>1. i.line \in Line /\ i.menu \in Menu
  BY InvocationAssumption
<1>2. Resolve(i.menu, i.line) = Home /\ Resolve(i.menu, i.line) # Nowhere
  BY DEF Prelude
<1>3. at # 0 /\ iface # Unset /\ Home = [ssh |-> servers[at].ssh, iface |-> iface]
  BY <1>2 DEF Resolve
<1>4. servers \in Seq(Entry) /\ i.line.iface \in STRING
  BY <1>1 DEF Menu, Line
<1>5. DOMAIN servers = 1..Len(servers) /\ Len(servers) \in Nat
  BY <1>4, LenProperties
<1>6. at = IF fits = {} THEN 0 ELSE Least(fits)
  BY DEF EntryAt
<1>7. fits \in SUBSET Nat
  BY <1>5
<1>8. at \in fits
  BY <1>3, <1>6, <1>7, LeastProperties
<1>9. servers[at] \in Entry
  <2>1. at \in 1..Len(servers)
    BY <1>5, <1>8
  <2>. HIDE DEF at, servers, Entry
  <2>. QED  BY <1>4, <2>1, ElementOfSeq
<1>10. /\ servers[at].ifaces # <<>> => Contains(servers[at].ifaces, iface)
       /\ i.line.iface \in {Unset, iface}
  BY <1>3, <1>4, <1>9, IfaceOfListed
<1>. HIDE DEF at, iface
<1>11. Home.ssh = servers[at].ssh /\ Home.iface = iface
  BY <1>3
<1>. QED  BY <1>8, <1>10, <1>11

(* A client only reaches an interface that its client.toml has under the    *)
(* server it was told to use, or would use by default (config.go, Resolve). *)
THEOREM OnlyListedInterfacesHolds == ClientSpec => []OnlyListedInterfaces
<1>1. CallInv /\ ListedInv => OnlyListedInterfaces
  BY ResolvedIsListed DEF CallInv, ListedInv, OnlyListedInterfaces
<1>2. ClientInv => CallInv
  BY DEF ClientInv
<1>. QED  BY ClientInvInit, ClientInvNext, ListedInit, ListedNext, <1>1, <1>2, PTL DEF ClientSpec

-----------------------------------------------------------------------------
(***************************************************************************)
(* An add without a config leaves no peer: only the process of a client    *)
(* brings its key, and only while it has not refused.                      *)
(***************************************************************************)
DecidedInv == \A p \in Proc : pc[p] \in {"unlock", "reply", "done"} => outcome[p] # "none"

LEMMA DecidedInit == Init => DecidedInv
BY DEF Init, DecidedInv

LEMMA DecidedNext == TypeInv /\ OutcomeInv /\ DecidedInv /\ [Next]_vars => DecidedInv'
<1> SUFFICES ASSUME TypeInv, OutcomeInv, DecidedInv, [Next]_vars, NEW q \in Proc,
                    pc'[q] \in {"unlock", "reply", "done"}
             PROVE  outcome'[q] # "none"
  BY DEF DecidedInv
<1> USE DEF Goto, Decide, locks, memory, TypeInv
<1>1. ASSUME NEW p \in Proc, p # q,
             Start(p) \/ OwnStep(p) \/ ApplyStep(p) \/ DeadlinePasses(p) \/ Crash(p)
      PROVE  outcome'[q] # "none"
  BY <1>1, OthersKeep DEF DecidedInv
<1>2. CASE Start(q) \/ Check(q) \/ AcquireStep(q) \/ DeadlinePasses(q)
  BY <1>2 DEF Start, Check, AcquireStep, OpenLock, OpenLockFails, Flock, FlockBusy, GiveUp,
              SleepAndRetry, FlockFails, DeadlinePasses, DecidedInv, TypeOK
<1>3. CASE ReadStep(q)
  <2>1. Verdict(req[q], cfg[q], Parse(conf.peers)) # "none"
    BY DEF Verdict
  <2>. QED  BY <1>3, <2>1 DEF ReadStep, ReadList, ReadRefused, ReadAccepted, TypeOK
<1>4. CASE WriteStep(q)
  BY <1>4 DEF WriteStep, WriteTemp, SyncTemp, RenameTemp, WriteFails, SyncDir, TypeOK
<1>5. CASE ApplyStep(q)
  BY <1>5 DEF ApplyStep, Strip, SyncDevice, ApplyFails, TypeOK
<1>6. CASE Unlock(q) \/ Emit(q) \/ Crash(q)
  BY <1>6 DEF Unlock, Emit, Crash, DecidedInv, TypeOK
<1>7. CASE PowerLoss
  BY <1>7 DEF PowerLoss, Running, DecidedInv, TypeOK
<1>8. CASE OrphanSync \/ UNCHANGED vars
  BY <1>8 DEF OrphanSync, vars, DecidedInv
<1>. QED  BY <1>1, <1>2, <1>3, <1>4, <1>5, <1>6, <1>7, <1>8 DEF Next, OwnStep, Panic, Finished

(* The key of a client is known only once its own process has brought it.   *)
LEMMA OwnKey ==
  ASSUME CallInv, NEW p \in Proc, Known(ClientKey[p])
  PROVE  Brought(p, ClientKey[p])
<1>1. ~FromHand(ClientKey[p]) /\ ClientKey[p] # BadKey
  BY ClientKeyAssumption, BadKeyAssumption DEF FromHand, KeysOf
<1>2. PICK q \in Proc : Brought(q, ClientKey[p])
  BY <1>1 DEF Known
<1>3. ClientKey[q] = ClientKey[p]
  BY <1>1, <1>2 DEF Brought, CallInv
<1>. QED  BY <1>2, <1>3, ClientKeyAssumption

(* An add that ends without a config has left no peer behind, but when the  *)
(* connection broke or the server said `internal` (cli.go:174-175,          *)
(* client.go:124-126).                                                      *)
THEOREM NoStrayPeerHolds == ClientSpec => []NoStrayPeer
<1>1. ClientInv /\ DecidedInv => NoStrayPeer
  <2> SUFFICES ASSUME ClientInv, DecidedInv, NEW p \in Proc,
                      \/ client[p].at \in Endings \ {"lost", "refused", "printed", "undrawn"}
                      \/ client[p].at = "refused" /\ outcome[p] # "internal",
                      NEW c \in survivors \cup {conf}, NEW i \in DOMAIN c.peers,
                      c.peers[i].key = ClientKey[p]
               PROVE  FALSE
    BY DEF NoStrayPeer
  <2>1. Brought(p, ClientKey[p])
    <3>1. ClientKey[p] \in KeysOf(c.peers)
      BY DEF KeysOf
    <3>. QED  BY <3>1, OwnKey DEF ClientInv, ServerInv, OriginInv
  <2>2. pc[p] = "new" \/ (pc[p] = "done" /\ outcome[p] \notin {"none", "ok", "internal"})
    BY DEF ClientInv, CallInv, NoCall, Answered, Endings, DecidedInv
  <2>. QED  BY <2>1, <2>2 DEF Brought, Effected
<1>2. ClientInv => TypeInv /\ OutcomeInv
  BY DEF ClientInv, ServerInv
<1>3. ClientInit => DecidedInv
  BY ClientInitStep, DecidedInit
<1>. QED  BY ClientInvInit, ClientInvNext, ClientNextStep, DecidedNext, <1>1, <1>2, <1>3, PTL
          DEF ClientSpec

-----------------------------------------------------------------------------
(***************************************************************************)
(* No edit removes, adds or labels a block without a label.                *)
(***************************************************************************)
LEMMA ParseUnlabelled ==
  ASSUME NEW blocks \in Seq(Peer)
  PROVE  Unlabelled(Parse(blocks)) = Unlabelled(blocks)
<1>1. /\ DOMAIN blocks = 1..Len(blocks) /\ DOMAIN Parse(blocks) = 1..Len(blocks)
      /\ \A i \in 1..Len(blocks) : /\ Parse(blocks)[i].name = blocks[i].name
                                   /\ Parse(blocks)[i].key = blocks[i].key
  BY ParseProperties, LenProperties
<1>. QED  BY <1>1 DEF Unlabelled, Named

LEMMA EditUnlabelled ==
  ASSUME NEW r \in Request, NEW c \in ServerConfig, NEW peers \in Seq(Peer),
         ~Malformed(r, c), Verdict(r, c, peers) = "ok"
  PROVE  Unlabelled(Edit(r, c, peers)) = Unlabelled(peers)
<1>1. DOMAIN peers = 1..Len(peers) /\ Len(peers) \in Nat /\ \A i \in DOMAIN peers : peers[i] \in Peer
  BY LenProperties
<1> DEFINE at == FindByName(peers, r.name)
<1>2. r.op \in {"kill", "rename"} => at \in 1..Len(peers) /\ peers[at].name # NoName
  BY FindByNameProperties DEF Verdict, Malformed
<1>3. CASE r.op = "add"
  <2> DEFINE peer == NewPeer(r, c, peers)
             new  == Append(peers, peer)
  <2>1. Edit(r, c, peers) = new
    BY <1>3 DEF Edit, AddPeer
  <2>2. peer.name # NoName
    BY <1>3, LabelAssumption DEF NewPeer, Malformed
  <2>. HIDE DEF peer
  <2>3. /\ DOMAIN new = 1..(Len(peers) + 1)
        /\ \A i \in 1..Len(peers) : new[i] = peers[i]
        /\ new[Len(peers) + 1] = peer
    BY <1>1
  <2>. HIDE DEF new
  <2>4. Named(new, NoName) = Named(peers, NoName)
    BY <1>1, <2>2, <2>3 DEF Named
  <2>5. \A i \in Named(peers, NoName) : new[i] = peers[i]
    BY <1>1, <2>3 DEF Named
  <2>. QED  BY <2>1, <2>4, <2>5 DEF Unlabelled
<1>4. CASE r.op = "kill"
  <2> DEFINE new == RemoveAt(peers, at)
  <2>1. Edit(r, c, peers) = new
    BY <1>4 DEF Edit, RemoveByName
  <2>2. /\ Len(new) = Len(peers) - 1 /\ DOMAIN new = 1..Len(new)
        /\ \A j \in 1..Len(peers) - 1 : new[j] = IF j < at THEN peers[j] ELSE peers[j + 1]
    BY <1>2, <1>4, RemoveAtProperties, LenProperties
  <2>. HIDE DEF new, at
  <2>3. ASSUME NEW j \in Named(new, NoName)  PROVE new[j].key \in Unlabelled(peers)
    <3>1. j \in 1..Len(peers) /\ j + 1 \in 1..Len(peers)
      BY <1>1, <2>2 DEF Named
    <3>2. new[j] = peers[j] \/ new[j] = peers[j + 1]
      BY <1>1, <2>2 DEF Named
    <3>. QED  BY <1>1, <3>1, <3>2 DEF Named, Unlabelled
  <2>4. ASSUME NEW i \in Named(peers, NoName)  PROVE peers[i].key \in Unlabelled(new)
    <3>1. i \in 1..Len(peers) /\ i # at /\ peers[i].name = NoName
      BY <1>1, <1>2, <1>4 DEF Named
    <3>2. CASE i < at
      <4>1. i \in 1..Len(peers) - 1 /\ new[i] = peers[i]
        BY <1>1, <1>2, <1>4, <2>2, <3>1, <3>2
      <4>. QED  BY <2>2, <3>1, <4>1 DEF Named, Unlabelled
    <3>3. CASE i > at
      <4>1. i - 1 \in 1..Len(peers) - 1 /\ new[i - 1] = peers[i]
        BY <1>1, <1>2, <1>4, <2>2, <3>1, <3>3
      <4>. QED  BY <2>2, <3>1, <4>1 DEF Named, Unlabelled
    <3>. QED  BY <1>1, <1>2, <1>4, <3>1, <3>2, <3>3
  <2>. QED  BY <2>1, <2>3, <2>4 DEF Unlabelled
<1>5. CASE r.op = "rename"
  <2> DEFINE new == [peers EXCEPT ![at].name = r.newName]
  <2>1. Edit(r, c, peers) = new
    BY <1>5 DEF Edit, Relabel
  <2>2. r.newName # NoName
    BY <1>5, LabelAssumption DEF Malformed
  <2>. HIDE DEF at
  <2>3. /\ DOMAIN new = DOMAIN peers
        /\ \A i \in DOMAIN peers : /\ new[i].key = peers[i].key
                                   /\ i # at => new[i].name = peers[i].name
                                   /\ i = at => new[i].name = r.newName
    BY <1>1, <1>2, <1>5 DEF Peer
  <2>. HIDE DEF new
  <2>4. Named(new, NoName) = Named(peers, NoName)
    BY <1>2, <1>5, <2>2, <2>3 DEF Named
  <2>5. \A i \in Named(peers, NoName) : new[i].key = peers[i].key
    BY <2>3 DEF Named
  <2>. QED  BY <2>1, <2>4, <2>5 DEF Unlabelled
<1>6. CASE r.op = "list"
  BY <1>6 DEF Edit
<1>. QED  BY <1>3, <1>4, <1>5, <1>6 DEF Request

(* Peers without a label are a human's: no request, mistyped or cut short   *)
(* on its way, removes or labels one of them (server.go:147, 182).          *)
THEOREM UnlabelledUntouchedHolds == ClientSpec => UnlabelledUntouched
<1>1. ASSUME ClientInv, NEW p \in Proc, RenameTemp(p)
      PROVE  Unlabelled(conf'.peers) = Unlabelled(conf.peers)
  <2> DEFINE peers == Parse(conf.peers)
             new   == Edit(req[p], cfg[p], peers)
  <2>1. pc[p] = "rename" /\ conf' = work[p] /\ TypeInv /\ WorkInv
    BY <1>1 DEF RenameTemp, Goto, ClientInv, ServerInv
  <2>2. Verdict(req[p], cfg[p], peers) = "ok" /\ work[p] = [conf EXCEPT !.peers = new]
    BY <2>1 DEF WorkInv, NoLostUpdate, Replacing
  <2>3. /\ conf \in Conf /\ peers \in Seq(Peer)
        /\ Unlabelled(peers) = Unlabelled(conf.peers)
    BY <2>1, ParseProperties, ParseUnlabelled DEF TypeInv, TypeOK, Conf
  <2>4. req[p] \in Request /\ cfg[p] \in ServerConfig /\ ~Malformed(req[p], cfg[p])
    BY <2>1, InputAssumption DEF TypeInv, TypeOK, Validated
  <2>. HIDE DEF peers
  <2>5. Unlabelled(new) = Unlabelled(peers)
    BY <2>2, <2>3, <2>4, EditUnlabelled
  <2>. HIDE DEF new
  <2>6. work[p].peers = new
    BY <2>2, <2>3 DEF Conf
  <2>. QED  BY <2>1, <2>3, <2>5, <2>6
<1>2. ClientInv /\ [ClientNext]_clientVars =>
        [\A p \in Proc : RenameTemp(p) =>
           Unlabelled(conf'.peers) = Unlabelled(conf.peers)]_clientVars
  BY <1>1
<1>. QED  BY ClientInvInit, ClientInvNext, <1>2, PTL DEF ClientSpec, UnlabelledUntouched

-----------------------------------------------------------------------------
(***************************************************************************)
(* What a client was told lasts: a printed config keeps working and a      *)
(* removed peer stays out, through other clients' calls and power losses.  *)
(***************************************************************************)
HasBlock(peers, k, ips) == \E i \in DOMAIN peers : peers[i].key = k /\ peers[i].ips = ips
OnceIn(peers, k) ==
  \A i, j \in DOMAIN peers : peers[i].key = k /\ peers[j].key = k => i = j

LEMMA ParseBlocks ==
  ASSUME NEW blocks \in Seq(Peer), NEW k
  PROVE  /\ OnceIn(Parse(blocks), k) <=> OnceIn(blocks, k)
         /\ \A ips : HasBlock(Parse(blocks), k, ips) <=> HasBlock(blocks, k, ips)
<1>1. /\ DOMAIN blocks = 1..Len(blocks) /\ DOMAIN Parse(blocks) = 1..Len(blocks)
      /\ \A i \in 1..Len(blocks) : /\ Parse(blocks)[i].key = blocks[i].key
                                   /\ Parse(blocks)[i].ips = blocks[i].ips
  BY ParseProperties, LenProperties
<1>. QED  BY <1>1 DEF OnceIn, HasBlock

(* What an accepted edit does to the blocks of a key: only a kill that      *)
(* picks the key takes one away, and only an add of the key brings one.     *)
LEMMA EditBlocks ==
  ASSUME NEW r \in Request, NEW c \in ServerConfig, NEW peers \in Seq(Peer),
         Verdict(r, c, peers) = "ok",
         r.op = "add" => r.key \notin KeysOf(peers)
  PROVE  /\ \A k, ips : HasBlock(peers, k, ips) /\ (r.op = "kill" => k # KeyNamed(peers, r.name))
                          => HasBlock(Edit(r, c, peers), k, ips)
         /\ \A k : OnceIn(peers, k) => OnceIn(Edit(r, c, peers), k)
         /\ r.op = "kill" /\ OnceIn(peers, KeyNamed(peers, r.name)) =>
              KeyNamed(peers, r.name) \notin KeysOf(Edit(r, c, peers))
<1>1. DOMAIN peers = 1..Len(peers) /\ Len(peers) \in Nat /\ \A i \in DOMAIN peers : peers[i] \in Peer
  BY LenProperties
<1> DEFINE at == FindByName(peers, r.name)
<1>2. r.op \in {"kill", "rename"} => at \in 1..Len(peers)
  BY FindByNameProperties DEF Verdict
<1>3. CASE r.op = "add"
  <2> DEFINE peer == NewPeer(r, c, peers)
             new  == Append(peers, peer)
  <2>1. Edit(r, c, peers) = new
    BY <1>3 DEF Edit, AddPeer
  <2>2. peer.key = r.key
    BY DEF NewPeer
  <2>. HIDE DEF peer
  <2>3. /\ DOMAIN new = 1..(Len(peers) + 1)
        /\ \A i \in 1..Len(peers) : new[i] = peers[i]
        /\ new[Len(peers) + 1] = peer
    BY <1>1
  <2>. HIDE DEF new
  <2>4. \A k, ips : HasBlock(peers, k, ips) => HasBlock(new, k, ips)
    BY <1>1, <2>3 DEF HasBlock
  <2>5. ASSUME NEW k, OnceIn(peers, k)  PROVE OnceIn(new, k)
    <3>1. k = r.key => \A i \in 1..Len(peers) : peers[i].key # k
      BY <1>1, <1>3 DEF KeysOf
    <3>. QED  BY <1>1, <2>2, <2>3, <2>5, <3>1 DEF OnceIn
  <2>. QED  BY <1>3, <2>1, <2>4, <2>5
<1>4. CASE r.op = "kill"
  <2> DEFINE new == RemoveAt(peers, at)
             k0  == KeyNamed(peers, r.name)
  <2>1. Edit(r, c, peers) = new /\ k0 = peers[at].key /\ at \in 1..Len(peers)
    BY <1>2, <1>4 DEF Edit, RemoveByName, KeyNamed
  <2>2. /\ Len(new) = Len(peers) - 1 /\ DOMAIN new = 1..Len(peers) - 1
        /\ \A j \in 1..Len(peers) - 1 : new[j] = IF j < at THEN peers[j] ELSE peers[j + 1]
    BY <2>1, RemoveAtProperties, LenProperties
  <2>. HIDE DEF new, at, k0
  <2>3. ASSUME NEW k, NEW ips, HasBlock(peers, k, ips), k # k0  PROVE HasBlock(new, k, ips)
    <3>1. PICK i \in 1..Len(peers) : peers[i].key = k /\ peers[i].ips = ips
      BY <1>1, <2>3 DEF HasBlock
    <3>2. CASE i < at
      <4>1. i \in 1..Len(peers) - 1 /\ new[i] = peers[i]
        BY <1>1, <2>1, <2>2, <3>2
      <4>. QED  BY <2>2, <3>1, <4>1 DEF HasBlock
    <3>3. CASE i > at
      <4>1. i - 1 \in 1..Len(peers) - 1 /\ new[i - 1] = peers[i]
        BY <1>1, <2>1, <2>2, <3>3
      <4>. QED  BY <2>2, <3>1, <4>1 DEF HasBlock
    <3>4. i # at
      BY <2>1, <2>3, <3>1
    <3>. QED  BY <1>1, <2>1, <3>2, <3>3, <3>4
  <2> DEFINE src(j) == IF j < at THEN j ELSE j + 1
  <2>4. \A j \in DOMAIN new : src(j) \in 1..Len(peers) /\ new[j] = peers[src(j)] /\ src(j) # at
    BY <1>1, <2>1, <2>2
  <2>5. \A i, j \in DOMAIN new : src(i) = src(j) => i = j
    BY <1>1, <2>1, <2>2
  <2>. HIDE DEF src
  <2>6. ASSUME NEW k, OnceIn(peers, k)  PROVE OnceIn(new, k)
    BY <1>1, <2>4, <2>5, <2>6 DEF OnceIn
  <2>7. OnceIn(peers, k0) => k0 \notin KeysOf(new)
    BY <1>1, <2>1, <2>4 DEF OnceIn, KeysOf
  <2>. QED  BY <1>4, <2>1, <2>3, <2>6, <2>7 DEF k0
<1>5. CASE r.op = "rename"
  <2> DEFINE new == [peers EXCEPT ![at].name = r.newName]
  <2>1. Edit(r, c, peers) = new
    BY <1>5 DEF Edit, Relabel
  <2>. HIDE DEF at
  <2>2. /\ DOMAIN new = DOMAIN peers
        /\ \A i \in DOMAIN peers : new[i].key = peers[i].key /\ new[i].ips = peers[i].ips
    BY <1>1, <1>2, <1>5 DEF Peer
  <2>. HIDE DEF new
  <2>. QED  BY <1>5, <2>1, <2>2 DEF HasBlock, OnceIn
<1>6. CASE r.op = "list"
  BY <1>6 DEF Edit
<1>. QED  BY <1>3, <1>4, <1>5, <1>6 DEF Request

(* The key of an add that is about to be written is new to every file.      *)
LEMMA AddsNewKey ==
  ASSUME ClientInv, NEW q \in Proc, pc[q] = "rename", req[q].op = "add"
  PROVE  /\ req[q].key = ClientKey[q] /\ ~Known(req[q].key)
         /\ req[q].key \notin KeysOf(conf.peers)
<1>1. ~Malformed(req[q], cfg[q])
  BY DEF ClientInv, ServerInv, TypeInv, Validated
<1>2. req[q].key = ClientKey[q]
  BY <1>1 DEF Malformed, ClientInv, CallInv
<1>3. ~Brought(q, ClientKey[q])
  BY DEF Brought, Effected
<1>4. ~Known(ClientKey[q])
  BY <1>3, OwnKey DEF ClientInv
<1>. QED  BY <1>2, <1>4 DEF ClientInv, ServerInv, OriginInv

(* What a process is about to rename over the .conf, next to the .conf.     *)
LEMMA RenamedBlocks ==
  ASSUME ClientInv, NEW q \in Proc, pc[q] = "rename"
  PROVE  /\ work[q].serverKey = conf.serverKey
         /\ \A k, ips : HasBlock(conf.peers, k, ips) /\ (req[q].op = "kill" => k # picked[q])
                          => HasBlock(work[q].peers, k, ips)
         /\ \A k : OnceIn(conf.peers, k) => OnceIn(work[q].peers, k)
         /\ req[q].op = "kill" /\ OnceIn(conf.peers, picked[q]) =>
              picked[q] \notin KeysOf(work[q].peers)
         /\ req[q].op = "add" => HasBlock(work[q].peers, req[q].key, Appended(q).ips)
<1> DEFINE peers == Parse(conf.peers)
           new   == Edit(req[q], cfg[q], peers)
<1>1. Verdict(req[q], cfg[q], peers) = "ok" /\ work[q] = [conf EXCEPT !.peers = new]
  BY DEF ClientInv, ServerInv, WorkInv, NoLostUpdate, Replacing
<1>2. conf \in Conf /\ conf.peers \in Seq(Peer) /\ req[q] \in Request /\ cfg[q] \in ServerConfig
  BY InputAssumption DEF ClientInv, ServerInv, TypeInv, TypeOK, Conf
<1>3. /\ peers \in Seq(Peer) /\ KeysOf(peers) = KeysOf(conf.peers)
      /\ \A k : OnceIn(peers, k) <=> OnceIn(conf.peers, k)
      /\ \A k, ips : HasBlock(peers, k, ips) <=> HasBlock(conf.peers, k, ips)
  BY <1>2, ParseProperties, ParseKeys, ParseBlocks
<1>4. req[q].op = "kill" => picked[q] = KeyNamed(peers, req[q].name)
  BY DEF ClientInv, PickInv, Replacing, Picking
<1>. HIDE DEF peers
<1>5. req[q].op = "add" => req[q].key \notin KeysOf(peers)
  BY <1>3, AddsNewKey
<1>6. /\ \A k, ips : HasBlock(peers, k, ips) /\ (req[q].op = "kill" => k # KeyNamed(peers, req[q].name))
                       => HasBlock(new, k, ips)
      /\ \A k : OnceIn(peers, k) => OnceIn(new, k)
      /\ req[q].op = "kill" /\ OnceIn(peers, KeyNamed(peers, req[q].name)) =>
           KeyNamed(peers, req[q].name) \notin KeysOf(new)
  BY <1>1, <1>2, <1>3, <1>5, EditBlocks
<1>. HIDE DEF new
<1>7. work[q].peers = new /\ work[q].serverKey = conf.serverKey
  BY <1>1, <1>2 DEF Conf
<1>8. req[q].op = "add" => HasBlock(work[q].peers, req[q].key, Appended(q).ips)
  BY RenamedBlock DEF ClientInv, ServerInv, HasBlock, Appended, Last
<1>. QED  BY <1>3, <1>4, <1>6, <1>7, <1>8

-----------------------------------------------------------------------------
(***************************************************************************)
(* Files: one server key, and at most one block for a key that a human did *)
(* not write twice.                                                        *)
(***************************************************************************)
Single == {k \in Key : \A f \in Files : OnceIn(f.peers, k)}
FilesInv ==
  /\ \A c \in survivors : c.serverKey = conf.serverKey
  /\ \A c \in survivors \cup {conf} : \A k \in Single : OnceIn(c.peers, k)

LEMMA FilesInit == ClientInit => FilesInv
BY DEF ClientInit, Init, FilesInv, Single

LEMMA FilesNext == ClientInv /\ FilesInv /\ [ClientNext]_clientVars => FilesInv'
<1> SUFFICES ASSUME ClientInv, FilesInv, [ClientNext]_clientVars  PROVE FilesInv'
  OBVIOUS
<1>1. [Next]_vars /\ WorkInv
  BY ClientNextStep DEF ClientInv, ServerInv
<1>2. CASE UNCHANGED files
  BY <1>2 DEF FilesInv, files
<1>3. ASSUME NEW q \in Proc, pc[q] = "rename", conf' = work[q],
             survivors' = survivors \cup {work[q]}
      PROVE  FilesInv'
  BY <1>3, RenamedBlocks DEF FilesInv
<1>4. CASE conf' = conf /\ (survivors' = {conf} \/ survivors' = survivors)
  BY <1>4 DEF FilesInv
<1>5. CASE conf' \in survivors /\ survivors' = {conf'}
  BY <1>5 DEF FilesInv
<1>. QED  BY <1>1, <1>2, <1>3, <1>4, <1>5, FileSteps

LEMMA ClientKeySingle == \A p \in Proc : ClientKey[p] \in Single
BY ClientKeyAssumption DEF Single, OnceIn

-----------------------------------------------------------------------------
(***************************************************************************)
(* What an add wrote stays in the file, and after its directory fsync in   *)
(* all files a reboot may find; what a kill took out stays out.            *)
(***************************************************************************)
Block(p, c) ==
  /\ c.serverKey = work[p].serverKey
  /\ HasBlock(c.peers, req[p].key, Appended(p).ips)
Without(p, c) == picked[p] \notin KeysOf(c.peers)

AddInv ==
  ~DirSyncMayFail =>
    \A p \in Proc : req[p].op = "add" /\ Committed(p) /\ ~Killed(req[p].key) =>
      Block(p, conf) /\ (Saved(p) => \A c \in survivors : Block(p, c))
KillInv ==
  ~DirSyncMayFail =>
    \A p \in Proc : req[p].op = "kill" /\ Committed(p) /\ picked[p] \in Single =>
      Without(p, conf) /\ (Saved(p) => \A c \in survivors : Without(p, c))

LEMMA LastingInit == ClientInit => AddInv /\ KillInv
BY DEF ClientInit, Init, AddInv, KillInv, Committed

(* What a process picked, and what it was asked, stays. *)
LEMMA PickedStays ==
  ASSUME ClientInv, [ClientNext]_clientVars, NEW q \in Proc, pc[q] \notin Early
  PROVE  picked'[q] = picked[q] /\ req'[q] = req[q]
<1>1. req'[q] = req[q]
  BY ClientNextStep, LaterKeeps DEF ClientInv, ServerInv
<1>2. ASSUME NEW p \in Proc, Pick(p)  PROVE picked'[q] = picked[q]
  BY <1>2 DEF Pick, Early, ClientInv, PickInv
<1>3. UNCHANGED picked \/ \E p \in Proc : Pick(p)
  <2>1. ASSUME NEW p \in Proc, Invoke(p) \/ Deliver(p) \/ LoseLink(p) \/ Receive(p)
        PROVE  UNCHANGED picked
    BY <2>1 DEF Invoke, Deliver, LoseLink, Receive, clients
  <2>2. ServerStep => UNCHANGED picked \/ \E p \in Proc : Pick(p)
    BY DEF ServerStep
  <2>. QED  BY <2>1, <2>2 DEF ClientNext, AllEnded, clientVars, clients
<1>. QED  BY <1>1, <1>2, <1>3

LEMMA KilledStays ==
  ASSUME ClientInv, [ClientNext]_clientVars, NEW k \in Key, Killed(k)
  PROVE  Killed(k)'
<1>1. PICK q \in Proc : req[q].op = "kill" /\ picked[q] = k
  BY DEF Killed
<1>2. pc[q] \notin Early
  BY <1>1, BadKeyAssumption DEF ClientInv, PickInv
<1>. QED  BY <1>1, <1>2, PickedStays DEF Killed

(* An add or kill is saved by its directory fsync. *)
LEMMA SavedBefore ==
  ASSUME TypeInv, OutcomeInv, [Next]_vars, NEW p \in Proc,
         Saved(p)', req'[p].op \in {"add", "kill"}
  PROVE  Saved(p) \/ SyncDir(p)
<1> USE DEF Goto, Decide, locks, memory, TypeInv
<1>1. ASSUME NEW q \in Proc, q # p,
             Start(q) \/ OwnStep(q) \/ ApplyStep(q) \/ DeadlinePasses(q) \/ Crash(q)
      PROVE  Saved(p)
  BY <1>1, OthersKeep DEF Saved
<1>2. CASE Start(p) \/ Check(p) \/ AcquireStep(p) \/ DeadlinePasses(p)
  BY <1>2 DEF Start, Check, AcquireStep, OpenLock, OpenLockFails, Flock, FlockBusy, GiveUp,
              SleepAndRetry, FlockFails, DeadlinePasses, Saved, TypeOK
<1>3. CASE ReadStep(p)
  BY <1>3 DEF ReadStep, ReadList, ReadRefused, ReadAccepted, Saved, TypeOK
<1>4. CASE WriteTemp(p) \/ SyncTemp(p) \/ RenameTemp(p) \/ WriteFails(p)
  BY <1>4 DEF WriteTemp, SyncTemp, RenameTemp, WriteFails, Saved, TypeOK
<1>5. CASE ApplyStep(p) \/ Unlock(p) \/ Emit(p) \/ Crash(p)
  BY <1>5 DEF ApplyStep, Strip, SyncDevice, ApplyFails, Unlock, Emit, Crash, Saved, TypeOK
<1>6. CASE PowerLoss
  BY <1>6 DEF PowerLoss, Running, Saved, TypeOK
<1>7. CASE OrphanSync \/ UNCHANGED vars
  BY <1>7 DEF OrphanSync, vars, Saved
<1>. QED  BY <1>1, <1>2, <1>3, <1>4, <1>5, <1>6, <1>7 DEF Next, OwnStep, Panic, WriteStep, Finished

(* Not saved by the rename itself, nor committed by a power loss.           *)
LEMMA NotYetSaved ==
  ASSUME TypeInv, WorkInv, OutcomeInv, NEW p \in Proc, RenameTemp(p)
  PROVE  ~Saved(p)'
BY DEF RenameTemp, Goto, OutcomeInv, Undecided, Replacing, Saved, TypeInv, TypeOK

LEMMA PowerLossSaved ==
  ASSUME TypeInv, PowerLoss, NEW p \in Proc, Committed(p)'
  PROVE  Saved(p)
BY DEF PowerLoss, Running, Committed, Saved, TypeInv, TypeOK

LEMMA AddNext == ClientInv /\ FilesInv /\ AddInv /\ [ClientNext]_clientVars => AddInv'
<1> SUFFICES ASSUME ClientInv, AddInv, FilesInv, [ClientNext]_clientVars, ~DirSyncMayFail,
                    NEW p \in Proc, req'[p].op = "add", Committed(p)', ~Killed(req[p].key)',
                    req'[p] = req[p], work'[p] = work[p], Committed(p) \/ RenameTemp(p)
             PROVE  Block(p, conf') /\ (Saved(p)' => \A c \in survivors' : Block(p, c))
  <2>1. ASSUME NEW p \in Proc, req'[p].op = "add", Committed(p)', ClientInv, [ClientNext]_clientVars
        PROVE  req'[p] = req[p] /\ work'[p] = work[p] /\ (Committed(p) \/ RenameTemp(p))
    BY <2>1, ClientNextStep, CommittedBefore DEF ClientInv, ServerInv
  <2>. QED  BY <2>1 DEF AddInv, Block, Appended, Killed
<1>1. [Next]_vars /\ TypeInv /\ WorkInv /\ OutcomeInv
  BY ClientNextStep DEF ClientInv, ServerInv
<1>2. req[p].key \in Key
  <2>1. ~Malformed(req[p], cfg[p])
    BY DEF ClientInv, AnswerInv, ServerInv, TypeInv, Validated, RenameTemp, Goto
  <2>. QED  BY <1>1, <2>1 DEF Malformed, TypeInv, TypeOK, Request
<1>3. ~Killed(req[p].key)
  BY <1>2, KilledStays
<1>4. CASE RenameTemp(p)
  <2>1. pc[p] = "rename" /\ conf' = work[p] /\ ~Saved(p)'
    BY <1>1, <1>4, NotYetSaved DEF RenameTemp, Goto
  <2>. QED  BY <2>1, RenamedBlocks DEF Block
<1>5. CASE Committed(p) /\ ~RenameTemp(p)
  <2>1. Block(p, conf) /\ (Saved(p) => \A c \in survivors : Block(p, c))
    BY <1>3, <1>5 DEF AddInv
  <2>2. Saved(p)' => Saved(p) \/ SyncDir(p)
    BY <1>1, SavedBefore
  <2>3. CASE UNCHANGED files /\ ~SyncDir(p)
    BY <2>1, <2>2, <2>3 DEF files
  <2>4. ASSUME NEW q \in Proc, RenameTemp(q), pc[q] = "rename", conf' = work[q],
               survivors' = survivors \cup {work[q]}
        PROVE  Block(p, conf') /\ (Saved(p)' => \A c \in survivors' : Block(p, c))
    <3>1. req[q].op = "kill" => picked[q] # req[p].key
      BY <1>3 DEF Killed
    <3>2. Block(p, work[q])
      BY <2>1, <2>4, <3>1, RenamedBlocks DEF Block
    <3>3. Saved(p)' => Saved(p)
      BY <2>2, <2>4 DEF SyncDir, RenameTemp, Goto, ClientInv, ServerInv, TypeInv, TypeOK
    <3>. QED  BY <2>1, <2>4, <3>2, <3>3
  <2>5. CASE conf' = conf /\ survivors' = {conf}
    BY <2>1, <2>5
  <2>6. CASE PowerLoss /\ conf' \in survivors /\ survivors' = {conf'}
    BY <1>1, <2>1, <2>6, PowerLossSaved
  <2>7. SyncDir(p) => conf' = conf /\ survivors' = {conf}
    BY DEF SyncDir
  <2>. QED  BY <1>1, <2>3, <2>4, <2>5, <2>6, <2>7, FileSteps
<1>. QED  BY <1>4, <1>5

LEMMA KillNext == ClientInv /\ FilesInv /\ KillInv /\ [ClientNext]_clientVars => KillInv'
<1> SUFFICES ASSUME ClientInv, KillInv, FilesInv, [ClientNext]_clientVars, ~DirSyncMayFail,
                    NEW p \in Proc, req'[p].op = "kill", Committed(p)', picked[p] \in Single,
                    req'[p] = req[p], picked'[p] = picked[p], Committed(p) \/ RenameTemp(p)
             PROVE  Without(p, conf') /\ (Saved(p)' => \A c \in survivors' : Without(p, c))
  <2>1. ASSUME NEW p \in Proc, req'[p].op = "kill", Committed(p)', ClientInv, [ClientNext]_clientVars
        PROVE  req'[p] = req[p] /\ picked'[p] = picked[p] /\ (Committed(p) \/ RenameTemp(p))
    BY <2>1, ClientNextStep, CommittedBefore, PickedStays DEF ClientInv, ServerInv
  <2>. QED  BY <2>1 DEF KillInv, Without
<1>1. [Next]_vars /\ TypeInv /\ WorkInv /\ OutcomeInv
  BY ClientNextStep DEF ClientInv, ServerInv
<1>2. Known(picked[p])
  BY BadKeyAssumption DEF ClientInv, PickInv, Single
<1>3. CASE RenameTemp(p)
  <2>1. pc[p] = "rename" /\ conf' = work[p] /\ ~Saved(p)'
    BY <1>1, <1>3, NotYetSaved DEF RenameTemp, Goto
  <2>2. OnceIn(conf.peers, picked[p])
    BY DEF FilesInv
  <2>. QED  BY <2>1, <2>2, RenamedBlocks DEF Without
<1>4. CASE Committed(p) /\ ~RenameTemp(p)
  <2>1. Without(p, conf) /\ (Saved(p) => \A c \in survivors : Without(p, c))
    BY <1>4 DEF KillInv
  <2>2. Saved(p)' => Saved(p) \/ SyncDir(p)
    BY <1>1, SavedBefore
  <2>3. CASE UNCHANGED files /\ ~SyncDir(p)
    BY <2>1, <2>2, <2>3 DEF files
  <2>4. ASSUME NEW q \in Proc, RenameTemp(q), pc[q] = "rename", conf' = work[q],
               survivors' = survivors \cup {work[q]}
        PROVE  Without(p, conf') /\ (Saved(p)' => \A c \in survivors' : Without(p, c))
    <3>1. req[q].op = "add" => req[q].key # picked[p]
      BY <1>2, <2>4, AddsNewKey
    <3>2. Without(p, work[q])
      BY <1>1, <2>1, <2>4, <3>1, RenamedKeys DEF Without
    <3>3. Saved(p)' => Saved(p)
      BY <2>2, <2>4 DEF SyncDir, RenameTemp, Goto, ClientInv, ServerInv, TypeInv, TypeOK
    <3>. QED  BY <2>1, <2>4, <3>2, <3>3
  <2>5. CASE conf' = conf /\ survivors' = {conf}
    BY <2>1, <2>5
  <2>6. CASE PowerLoss /\ conf' \in survivors /\ survivors' = {conf'}
    BY <1>1, <2>1, <2>6, PowerLossSaved
  <2>7. SyncDir(p) => conf' = conf /\ survivors' = {conf}
    BY DEF SyncDir
  <2>. QED  BY <1>1, <2>3, <2>4, <2>5, <2>6, <2>7, FileSteps
<1>. QED  BY <1>3, <1>4

-----------------------------------------------------------------------------
(***************************************************************************)
(* The device, as long as no process is killed: every sync brings it to a  *)
(* file that has the printed peers and lacks the removed ones.             *)
(***************************************************************************)
LiveInv ==
  ~DirSyncMayFail /\ Undisturbed =>
    /\ orphans = {}
    /\ \A p \in Proc : outcome[p] = "ok" =>
         /\ req[p].op = "add" /\ ~Killed(req[p].key) =>
              \E d \in live : d.key = req[p].key /\ d.ips = Appended(p).ips
         /\ req[p].op = "kill" /\ picked[p] \in Single => \A d \in live : d.key # picked[p]

LEMMA LiveInit == ClientInit => LiveInv
BY DEF ClientInit, Init, LiveInv

LEMMA DeviceViewBlocks ==
  ASSUME NEW blocks \in Seq(Peer), NEW k
  PROVE  /\ \A ips : HasBlock(blocks, k, ips) /\ OnceIn(blocks, k) =>
                       \E d \in DeviceView(blocks) : d.key = k /\ d.ips = ips
         /\ k \notin KeysOf(blocks) => \A d \in DeviceView(blocks) : d.key # k
<1>1. DOMAIN blocks = 1..Len(blocks) /\ Len(blocks) \in Nat
  BY LenProperties
<1>2. ASSUME NEW ips, HasBlock(blocks, k, ips), OnceIn(blocks, k)
      PROVE  \E d \in DeviceView(blocks) : d.key = k /\ d.ips = ips
  <2>1. PICK i \in DOMAIN blocks : blocks[i].key = k /\ blocks[i].ips = ips
    BY <1>2 DEF HasBlock
  <2>2. \A j \in DOMAIN blocks : blocks[j].key = blocks[i].key => j <= i
    BY <1>1, <1>2, <2>1 DEF OnceIn
  <2> DEFINE d == [key |-> blocks[i].key, ips |-> blocks[i].ips, extra |-> blocks[i].extra]
  <2>3. d \in DeviceView(blocks)
    BY <2>2 DEF DeviceView
  <2>4. d.key = k /\ d.ips = ips
    BY <2>1
  <2>. QED  BY <2>3, <2>4
<1>3. ASSUME NEW d \in DeviceView(blocks)  PROVE d.key \in KeysOf(blocks)
  <2>1. PICK i \in DOMAIN blocks :
          d = [key |-> blocks[i].key, ips |-> blocks[i].ips, extra |-> blocks[i].extra]
    BY DEF DeviceView
  <2>2. d.key = blocks[i].key
    BY <2>1
  <2>. QED  BY <2>2 DEF KeysOf
<1>. QED  BY <1>2, <1>3

(* Which steps move the device while nobody dies. *)
LEMMA LiveSteps ==
  ASSUME TypeInv, StripInv, [Next]_vars, Undisturbed'
  PROVE  /\ Undisturbed
         /\ \/ UNCHANGED <<live, orphans>>
            \/ \E q \in Proc : /\ SyncDevice(q) /\ live' = DeviceView(conf.peers)
                               /\ UNCHANGED <<conf, orphans>>
            \/ PowerLoss \/ OrphanSync
<1> USE DEF Goto, Decide, locks, memory, device, files, TypeInv
<1>1. Undisturbed
  <2>1. ASSUME NEW q \in Proc, pc[q] = "dead"  PROVE pc'[q] = "dead"
    <3>1. ASSUME NEW p \in Proc, p # q,
                 Start(p) \/ OwnStep(p) \/ ApplyStep(p) \/ DeadlinePasses(p) \/ Crash(p)
          PROVE  pc'[q] = "dead"
      BY <2>1, <3>1, OthersKeep
    <3>2. ASSUME Start(q) \/ OwnStep(q) \/ ApplyStep(q) \/ DeadlinePasses(q) \/ Crash(q)
          PROVE  FALSE
      BY <2>1, <3>2 DEF Start, OwnStep, Panic, Check, AcquireStep, OpenLock, OpenLockFails, Flock,
             FlockBusy, GiveUp, SleepAndRetry, FlockFails, ReadStep, ReadList, ReadRefused,
             ReadAccepted, WriteStep, WriteTemp, SyncTemp, RenameTemp, WriteFails, SyncDir,
             ApplyStep, Strip, SyncDevice, ApplyFails, Unlock, Emit, DeadlinePasses, Crash,
             Running, Replacing
    <3>3. CASE PowerLoss \/ OrphanSync \/ UNCHANGED vars
      BY <2>1, <3>3 DEF PowerLoss, Running, OrphanSync, vars, TypeOK
    <3>. QED  BY <3>1, <3>2, <3>3 DEF Next, Finished
  <2>. QED  BY <2>1 DEF Undisturbed
<1>2. ASSUME NEW p \in Proc, Crash(p)  PROVE FALSE
  BY <1>2 DEF Crash, Undisturbed, TypeOK
<1>3. ASSUME NEW p \in Proc,
             Start(p) \/ Check(p) \/ AcquireStep(p) \/ ReadStep(p) \/ WriteStep(p)
               \/ Strip(p) \/ ApplyFails(p) \/ Unlock(p) \/ Emit(p) \/ DeadlinePasses(p)
      PROVE  UNCHANGED <<live, orphans>>
  BY <1>3 DEF Start, Check, AcquireStep, OpenLock, OpenLockFails, Flock, FlockBusy,
              GiveUp, SleepAndRetry, FlockFails, ReadStep, ReadList, ReadRefused, ReadAccepted,
              WriteStep, WriteTemp, SyncTemp, RenameTemp, WriteFails, SyncDir,
              Strip, ApplyFails, Unlock, Emit, DeadlinePasses
<1>4. ASSUME NEW p \in Proc, SyncDevice(p)
      PROVE  live' = DeviceView(conf.peers) /\ UNCHANGED <<conf, orphans>>
  BY <1>4 DEF SyncDevice, StripInv
<1>5. UNCHANGED vars => UNCHANGED <<live, orphans>>
  BY DEF vars
<1>6. \/ UNCHANGED <<live, orphans>> \/ (\E q \in Proc : SyncDevice(q)) \/ PowerLoss \/ OrphanSync
  BY <1>2, <1>3, <1>5 DEF Next, OwnStep, Panic, ApplyStep, Finished
<1>. QED  BY <1>1, <1>4, <1>6

LEMMA OkBefore ==
  ASSUME TypeInv, OutcomeInv, [Next]_vars, NEW p \in Proc, ~SyncDevice(p),
         outcome'[p] = "ok", req'[p].op \in {"add", "kill"}
  PROVE  outcome[p] = "ok"
<1> USE DEF Goto, Decide, locks, memory, TypeInv
<1>1. ASSUME NEW q \in Proc, q # p,
             Start(q) \/ OwnStep(q) \/ ApplyStep(q) \/ DeadlinePasses(q) \/ Crash(q)
      PROVE  outcome[p] = "ok"
  BY <1>1, OthersKeep
<1>2. CASE Start(p) \/ Check(p) \/ AcquireStep(p) \/ DeadlinePasses(p)
  BY <1>2 DEF Start, Check, AcquireStep, OpenLock, OpenLockFails, Flock, FlockBusy, GiveUp,
              SleepAndRetry, FlockFails, DeadlinePasses, TypeOK
<1>3. CASE ReadStep(p)
  BY <1>3 DEF ReadStep, ReadList, ReadRefused, ReadAccepted, TypeOK
<1>4. CASE WriteStep(p)
  BY <1>4 DEF WriteStep, WriteTemp, SyncTemp, RenameTemp, WriteFails, SyncDir, TypeOK
<1>5. CASE Strip(p) \/ ApplyFails(p) \/ Unlock(p) \/ Emit(p) \/ Crash(p)
  BY <1>5 DEF Strip, ApplyFails, Unlock, Emit, Crash, TypeOK
<1>6. CASE PowerLoss \/ OrphanSync \/ UNCHANGED vars
  BY <1>6 DEF PowerLoss, OrphanSync, vars
<1>. QED  BY <1>1, <1>2, <1>3, <1>4, <1>5, <1>6 DEF Next, OwnStep, Panic, ApplyStep, Finished

LastingInv == ClientInv /\ StripInv /\ FilesInv /\ AddInv /\ KillInv

(* What a device loaded from a saved file routes of an add or kill. *)
LEMMA LoadedDevice ==
  ASSUME LastingInv, NEW p \in Proc, NEW c \in survivors \cup {conf}, Committed(p)
  PROVE  /\ req[p].op = "add" /\ Block(p, c) =>
              \E d \in DeviceView(c.peers) : d.key = req[p].key /\ d.ips = Appended(p).ips
         /\ Without(p, c) => \A d \in DeviceView(c.peers) : d.key # picked[p]
<1>1. c.peers \in Seq(Peer)
  BY DEF LastingInv, ClientInv, ServerInv, TypeInv, TypeOK, Conf
<1>2. req[p].op = "add" => req[p].key \in Single
  <2>1. req[p].op = "add" => req[p].key # BadKey
    BY DEF LastingInv, ClientInv, AnswerInv, Malformed
  <2>. QED  BY <2>1, ClientKeySingle DEF LastingInv, ClientInv, CallInv
<1>3. req[p].op = "add" => OnceIn(c.peers, req[p].key)
  BY <1>2 DEF LastingInv, FilesInv
<1>. QED  BY <1>1, <1>3, DeviceViewBlocks DEF Block, Without

LEMMA LiveNext == LastingInv /\ LiveInv /\ [ClientNext]_clientVars => LiveInv'
<1> SUFFICES ASSUME LastingInv, LiveInv, [ClientNext]_clientVars, ~DirSyncMayFail, Undisturbed'
             PROVE  LiveInv'
  BY DEF LiveInv
<1>1. [Next]_vars /\ TypeInv /\ WorkInv /\ OutcomeInv /\ StripInv
  BY ClientNextStep DEF LastingInv, ClientInv, ServerInv
<1>2. Undisturbed /\ orphans = {}
  BY <1>1, LiveSteps DEF LiveInv
<1>3. orphans' = {}
  BY <1>1, <1>2, LiveSteps DEF PowerLoss, OrphanSync
<1>4. ASSUME NEW p \in Proc, outcome'[p] = "ok", req'[p].op \in {"add", "kill"}
      PROVE  /\ req'[p].op = "add" /\ ~Killed(req[p].key)' =>
                  \E d \in live' : d.key = req[p].key /\ d.ips = Appended(p).ips
             /\ req'[p].op = "kill" /\ picked[p] \in Single => \A d \in live' : d.key # picked[p]
             /\ req'[p] = req[p] /\ picked'[p] = picked[p] /\ work'[p] = work[p]
  <2>1. outcome[p] = "ok" \/ SyncDevice(p)
    BY <1>1, <1>4, OkBefore
  <2>2. Saved(p) /\ Committed(p) /\ pc[p] \notin Early
    BY <1>1, <2>1 DEF SyncDevice, Goto, Saved, Committed, OutcomeInv, Undecided, Early, Waiting
  <2>3. req'[p] = req[p] /\ picked'[p] = picked[p] /\ work'[p] = work[p]
    BY <1>1, <2>2, PickedStays, LaterKeeps DEF LastingInv
  <2>4. req[p].op = "add" /\ ~Killed(req[p].key)' => ~Killed(req[p].key)
    <3>1. req[p].op = "add" => req[p].key \in Key
      BY <1>1, <2>2 DEF LastingInv, ClientInv, AnswerInv, Malformed, TypeInv, TypeOK, Request
    <3>. QED  BY <2>3, <3>1, KilledStays DEF LastingInv
  <2>5. \A c \in survivors \cup {conf} :
          /\ req[p].op = "add" /\ ~Killed(req[p].key) => Block(p, c)
          /\ req[p].op = "kill" /\ picked[p] \in Single => Without(p, c)
    BY <2>2 DEF LastingInv, AddInv, KillInv
  <2>6. \A c \in survivors \cup {conf} :
          /\ req[p].op = "add" /\ ~Killed(req[p].key) =>
               \E d \in DeviceView(c.peers) : d.key = req[p].key /\ d.ips = Appended(p).ips
          /\ req[p].op = "kill" /\ picked[p] \in Single =>
               \A d \in DeviceView(c.peers) : d.key # picked[p]
    BY <2>2, <2>5, LoadedDevice
  <2>7. CASE live' = live /\ outcome[p] = "ok"
    BY <1>2, <2>3, <2>4, <2>7 DEF LiveInv
  <2>8. CASE live' = DeviceView(conf.peers)
    BY <2>3, <2>4, <2>6, <2>8
  <2>9. CASE PowerLoss
    <3>1. \E c \in survivors : live' = DeviceView(c.peers)
      BY <2>9 DEF PowerLoss
    <3>. QED  BY <2>3, <2>4, <2>6, <3>1
  <2>10. ~OrphanSync /\ (SyncDevice(p) => live' = DeviceView(conf.peers))
    BY <1>1, <1>2 DEF OrphanSync, SyncDevice, Goto, StripInv
  <2>. QED  BY <1>1, <2>1, <2>7, <2>8, <2>9, <2>10, LiveSteps
<1>5. \A p \in Proc : work'[p] = work[p] => Appended(p)' = Appended(p)
  BY DEF Appended
<1>. QED  BY <1>3, <1>4, <1>5 DEF LiveInv, Killed

LEMMA LastingInvInit == ClientInit => LastingInv /\ LiveInv
BY ClientInvInit, ClientInitStep, StripInit, FilesInit, LastingInit, LiveInit DEF LastingInv

LEMMA LastingInvNext == LastingInv /\ LiveInv /\ [ClientNext]_clientVars => LastingInv' /\ LiveInv'
BY ClientInvNext, ClientNextStep, StripNext, FilesNext, AddNext, KillNext, LiveNext
   DEF LastingInv, ClientInv, ServerInv

(* A printed config keeps working, through other calls, renames and         *)
(* reboots, until a kill picks its peer (client.go, assembleConfig).        *)
THEOREM ConfigStaysValidHolds == ClientSpec => []ConfigStaysValid
<1>1. LastingInv /\ LiveInv => ConfigStaysValid
  <2> SUFFICES ASSUME LastingInv, LiveInv, NEW p \in Proc, told[p].endpoint # NoEndpoint,
                      ~Killed(told[p].key), ~DirSyncMayFail
               PROVE  /\ \A c \in survivors \cup {conf} :
                           /\ c.serverKey = told[p].serverKey
                           /\ \E i \in DOMAIN c.peers :
                                c.peers[i].key = told[p].key /\ c.peers[i].ips = told[p].ips
                      /\ Undisturbed =>
                           \E d \in live : d.key = told[p].key /\ d.ips = told[p].ips
    BY DEF ConfigStaysValid
  <2>1. /\ outcome[p] = "ok" /\ req[p].op = "add" /\ told[p].key = req[p].key
        /\ told[p].ips = Appended(p).ips /\ told[p].serverKey = work[p].serverKey
    BY DEF LastingInv, ClientInv, ToldInv
  <2>2. \A c \in survivors \cup {conf} : Block(p, c)
    BY <2>1 DEF LastingInv, AddInv, Committed, Saved
  <2>. QED  BY <2>1, <2>2 DEF Block, HasBlock, LiveInv
<1>. QED  BY LastingInvInit, LastingInvNext, <1>1, PTL DEF ClientSpec

(* A client that was told `removed` has cut the peer off for good, if no    *)
(* human had written one key twice into the file (server.go, Kill).         *)
KeysAreSingle == \A f \in Files : \A k \in Key : OnceIn(f.peers, k)
THEOREM KilledStaysOutHolds ==
  ASSUME KeysAreSingle  PROVE ClientSpec => []KilledStaysOut
<1>1. LastingInv /\ LiveInv => KilledStaysOut
  <2> SUFFICES ASSUME LastingInv, LiveInv, NEW p \in Proc, client[p].at = "printed",
                      req[p].op = "kill", ~DirSyncMayFail
               PROVE  /\ \A c \in survivors \cup {conf} : \A i \in DOMAIN c.peers :
                           c.peers[i].key # told[p].key
                      /\ Undisturbed => \A d \in live : d.key # told[p].key
    BY DEF KilledStaysOut
  <2>1. outcome[p] = "ok" /\ told[p].key = picked[p]
    BY DEF LastingInv, ClientInv, ToldInv
  <2>2. CASE picked[p] \in Key
    <3>1. picked[p] \in Single
      BY <2>2, KeysAreSingle DEF Single, KeysAreSingle
    <3>2. \A c \in survivors \cup {conf} : Without(p, c)
      BY <2>1, <3>1 DEF LastingInv, KillInv, Committed, Saved
    <3>. QED  BY <2>1, <3>1, <3>2 DEF Without, KeysOf, LiveInv
  <2>3. CASE picked[p] \notin Key
    <3>1. \A c \in survivors \cup {conf} : c.peers \in Seq(Peer)
      BY DEF LastingInv, ClientInv, ServerInv, TypeInv, TypeOK, Conf
    <3>2. \A c \in survivors \cup {conf} : \A i \in DOMAIN c.peers : c.peers[i].key \in Key
      <4>1. ASSUME NEW c \in survivors \cup {conf}, NEW i \in DOMAIN c.peers
            PROVE  c.peers[i].key \in Key
        <5>1. c.peers \in Seq(Peer)
          BY <3>1
        <5>2. c.peers[i] \in Peer
          BY <5>1, LenProperties
        <5>. QED  BY <5>2 DEF Peer
      <4>. QED  BY <4>1
    <3>3. \A d \in live : d.key \in Key
      BY DEF LastingInv, ClientInv, ServerInv, TypeInv, TypeOK
    <3>. QED  BY <2>1, <2>3, <3>2, <3>3
  <2>. QED  BY <2>2, <2>3
<1>. QED  BY LastingInvInit, LastingInvNext, <1>1, PTL DEF ClientSpec
=============================================================================
