------------------------ MODULE IfaceLifecycleProof ------------------------
(***************************************************************************)
(* What provide, remove and the peer operations guarantee when they are    *)
(* not overlapped, and which key an overlapped one may lose, proved for    *)
(* every set of calls, processes, files and days, from whatever            *)
(* overlapping or killed calls left behind.                                *)
(***************************************************************************)
EXTENDS IfaceLifecycle, PeerServerProof

AdminStep(a) == Begin(a) \/ ProvideStep(a) \/ RemoveStep(a) \/ AdminCrash(a)
ServerStep(p) ==
  OwnStep(p) \/ Strip(p) \/ SyncDevice(p) \/ ApplyFails(p) \/ DeadlinePasses(p) \/ Crash(p)

(* One step of the system, without the history variables.                   *)
Moves ==
  \/ \E a \in Admin : AdminStep(a)
  \/ Midnight
  \/ \E p \in Proc : (Start(p) \/ ServerStep(p)) /\ UNCHANGED lifecycle
  \/ up /\ OrphanSync /\ UNCHANGED lifecycle
  \/ UNCHANGED <<vars, lifecycle>>

LEMMA StepsMove ==
  ASSUME [LifecycleNext]_allVars
  PROVE  /\ Moves
         /\ Overlaps \/ UNCHANGED allVars
<1>1. CASE LifecycleNext
  BY <1>1 DEF LifecycleNext, Moves, AdminStep, PeerStep, ServerStep, AllFinished
<1>2. CASE UNCHANGED allVars
  BY <1>2 DEF allVars, Moves
<1>. QED  BY <1>1, <1>2

-----------------------------------------------------------------------------
(***************************************************************************)
(* Types.                                                                  *)
(***************************************************************************)
LifeTypeInv == LifecycleTypeOK /\ Validated

LEMMA AbsentType == Absent \in Conf /\ Absent.readable = FALSE /\ Absent.there = FALSE
                    /\ Absent.serverKey = NoServerKey
BY EmptySeq DEF Absent, Unreadable, Conf

LEMMA JobType ==
  ASSUME NEW at \in Answers \cup ProvideSteps \cup RemoveSteps, NEW line \in Calls \cup {NoCall}
  PROVE  Job(at, line) \in [at: ProvideSteps \cup RemoveSteps \cup Answers,
                            call: Calls \cup {NoCall}, day: 0..LastDay,
                            copy: Conf, warned: BOOLEAN]
<1>1. 0 \in 0..LastDay
  BY DayAssumption
<1>. QED  BY <1>1, AbsentType DEF Job

LEMMA LifeTypeInit == LifecycleInit => LifeTypeInv
<1> SUFFICES ASSUME LifecycleInit  PROVE LifeTypeInv
  OBVIOUS
<1>1. TypeInv /\ conf \in Conf
  BY TypeInit DEF LifecycleInit, TypeInv, TypeOK
<1>2. 1 \in 1..LastDay
  BY DayAssumption
<1>3. job \in [Admin -> [at: ProvideSteps \cup RemoveSteps \cup Answers,
                         call: Calls \cup {NoCall}, day: 0..LastDay,
                         copy: Conf, warned: BOOLEAN]]
  <2>1. Job("new", NoCall) \in [at: ProvideSteps \cup RemoveSteps \cup Answers,
                                call: Calls \cup {NoCall}, day: 0..LastDay,
                                copy: Conf, warned: BOOLEAN]
    BY JobType DEF Answers
  <2>. QED  BY <2>1 DEF LifecycleInit
<1>4. up \in BOOLEAN /\ backups \in [1..LastDay -> Conf] /\ today \in 1..LastDay
  BY <1>1, <1>2, AbsentType DEF LifecycleInit, Conf
<1>5. \A a \in Admin : job[a].at \notin {"readconf", "backup"}
  BY DEF LifecycleInit, Job
<1>6. beside \subseteq InProgress /\ near \subseteq InProgress
  BY DEF LifecycleInit
<1>. QED  BY <1>1, <1>3, <1>4, <1>5, <1>6 DEF LifeTypeInv, LifecycleTypeOK, TypeInv

(* The files, the sidecar and the device, whoever moves.                    *)
LEMMA FilesType ==
  ASSUME LifeTypeInv, Moves
  PROVE  TypeInv'
<1>1. TypeInv
  BY DEF LifeTypeInv, LifecycleTypeOK, TypeInv
<1>2. CASE UNCHANGED vars
  BY <1>1, <1>2, EnvironmentType
<1>3. ASSUME NEW p \in Proc, Start(p) \/ ServerStep(p)  PROVE TypeInv'
  BY <1>1, <1>3, TypeNext DEF ServerStep, Next, ApplyStep
<1>4. CASE OrphanSync
  BY <1>1, <1>4, EnvironmentType
<1>5. ASSUME NEW a \in Admin, WriteConf(a)  PROVE TypeInv'
  <2>1. conf' \in Conf /\ survivors' \subseteq Conf
    BY <1>5, FreshKeyAssumption, EmptySeq DEF WriteConf, Conf
  <2>. QED
    BY <1>1, <1>5, <2>1
       DEF WriteConf, TypeInv, TypeOK, Validated, server, device, locks, memory
<1>6. ASSUME NEW a \in Admin, WriteSidecar(a) \/ DeleteSidecar(a)  PROVE TypeInv'
  BY <1>1, <1>6, SidecarAssumption
     DEF WriteSidecar, DeleteSidecar, TypeInv, TypeOK, Validated, server, files, device,
         locks, memory
<1>7. ASSUME NEW a \in Admin, Enable(a) \/ Disable(a)  PROVE TypeInv'
  <2>1. DeviceView(conf.peers) \subseteq DevicePeer
    BY <1>1, DeviceViewType DEF TypeInv, TypeOK, Conf
  <2>2. live' \subseteq DevicePeer
    BY <1>1, <1>7, <2>1 DEF Enable, Disable, TypeInv, TypeOK, DevicePeer
  <2>. QED
    BY <1>1, <1>7, <2>2
       DEF Enable, Disable, TypeInv, TypeOK, Validated, server, files, locks, memory, DevicePeer
<1>8. ASSUME NEW a \in Admin, DeleteConf(a)  PROVE TypeInv'
  BY <1>1, <1>8, AbsentType
     DEF DeleteConf, TypeInv, TypeOK, Validated, server, device, locks, memory
<1>9. ASSUME NEW a \in Admin, DeleteLock(a)  PROVE TypeInv'
  BY <1>1, <1>9 DEF DeleteLock, TypeInv, TypeOK, Validated, files, device, memory
<1>10. ASSUME NEW a \in Admin, AdminStep(a)  PROVE TypeInv'
  BY <1>2, <1>5, <1>6, <1>7, <1>8, <1>9, <1>10
     DEF AdminStep, Begin, ProvideStep, StatConf, StatSidecar, ProvideFails, RemoveStep,
         ShowPlan, Confirm, Replan, PlanRefused, ReadForBackup, WriteBackup, BackupFails,
         DisableFails, DeleteFails, AdminCrash
<1>. QED  BY <1>2, <1>3, <1>4, <1>10 DEF Moves, Midnight

(* The memory of a call, whoever moves.                                     *)
JobRecord == [at: ProvideSteps \cup RemoveSteps \cup Answers, call: Calls \cup {NoCall},
              day: 0..LastDay, copy: Conf, warned: BOOLEAN]
Dated == \A a \in Admin : job[a].at \in {"readconf", "backup"} => job[a].day # 0
JobsOK == job \in [Admin -> JobRecord] /\ Dated

LEMMA FinishType ==
  ASSUME JobsOK, NEW a \in Admin, NEW step, NEW answer \in Answers, Finish(a, step, answer)
  PROVE  JobsOK'
<1>1. Job(answer, NoCall) \in JobRecord
  BY JobType DEF JobRecord
<1>2. Job(answer, NoCall).at \notin {"readconf", "backup"}
  BY DEF Job, Answers
<1>. QED  BY <1>1, <1>2 DEF Finish, JobsOK, Dated

LEMMA AdvanceType ==
  ASSUME JobsOK, NEW a \in Admin, NEW step, NEW to \in ProvideSteps \cup RemoveSteps,
         to \notin {"readconf", "backup"}, Advance(a, step, to) \/ Warn(a, step, to)
  PROVE  JobsOK'
BY DEF Advance, Warn, JobsOK, Dated, JobRecord

LEMMA BeginJob ==
  ASSUME JobsOK, NEW a \in Admin, Begin(a)
  PROVE  /\ JobsOK'
         /\ job[a].at = "new"
         /\ job'[a].at \in {"statconf", "plan", "replan", "bad_request"}
<1>1. PICK line \in Calls :
        job' = [job EXCEPT ![a] =
                  IF line.valid
                    THEN Job(CASE line.op = "provide" -> "statconf"
                               [] line.op = "remove" /\ line.asks -> "plan"
                               [] line.op = "remove" /\ ~line.asks -> "replan", line)
                    ELSE Job("bad_request", NoCall)]
  BY DEF Begin
<1>2. line.op \in {"provide", "remove"} /\ line.asks \in BOOLEAN /\ line.valid \in BOOLEAN
  BY CallAssumption DEF Call
<1>3. PICK at \in {"statconf", "plan", "replan", "bad_request"} :
        \E call \in Calls \cup {NoCall} : job' = [job EXCEPT ![a] = Job(at, call)]
  BY <1>1, <1>2
<1>4. PICK call \in Calls \cup {NoCall} : job' = [job EXCEPT ![a] = Job(at, call)]
  BY <1>3
<1>5. Job(at, call) \in JobRecord /\ Job(at, call).at = at
  BY JobType DEF JobRecord, Answers, ProvideSteps, RemoveSteps, Job
<1>. QED  BY <1>4, <1>5 DEF JobsOK, Dated, Begin, At

LEMMA ProvideJob ==
  ASSUME JobsOK, NEW a \in Admin, ProvideStep(a)
  PROVE  JobsOK'
<1> USE FinishType, AdvanceType DEF Answers, ProvideSteps
<1>1. CASE StatConf(a)
  BY <1>1 DEF StatConf
<1>2. CASE StatSidecar(a)
  BY <1>2 DEF StatSidecar
<1>3. CASE WriteConf(a)
  BY <1>3 DEF WriteConf
<1>4. CASE WriteSidecar(a)
  BY <1>4 DEF WriteSidecar
<1>5. CASE Enable(a)
  BY <1>5 DEF Enable
<1>6. CASE ProvideFails(a)
  BY <1>6 DEF ProvideFails
<1>. QED  BY <1>1, <1>2, <1>3, <1>4, <1>5, <1>6 DEF ProvideStep

LEMMA RemoveJob ==
  ASSUME LifeTypeInv, JobsOK, NEW a \in Admin, RemoveStep(a)
  PROVE  JobsOK'
<1>1. CASE ShowPlan(a) \/ Confirm(a) \/ Disable(a) \/ DisableFails(a)
  BY <1>1, FinishType, AdvanceType
     DEF ShowPlan, Confirm, Disable, DisableFails, Answers, RemoveSteps
<1>2. CASE Replan(a)
  <2>1. today \in 1..LastDay /\ 0 \in 0..LastDay /\ today \in 0..LastDay /\ today # 0
    BY DayAssumption DEF LifeTypeInv, LifecycleTypeOK
  <2>2. PICK at \in {"readconf", "disable"}, day \in 0..LastDay :
          /\ job' = [job EXCEPT ![a].at = at, ![a].day = day]
          /\ at = "readconf" => day # 0
    BY <1>2, <2>1 DEF Replan
  <2>3. DEFINE new == [job[a] EXCEPT !.at = at, !.day = day]
  <2>4. job[a] \in JobRecord
    BY DEF JobsOK
  <2>5. new \in JobRecord /\ new.at = at /\ new.day = day
    BY <2>2, <2>4 DEF JobRecord, RemoveSteps
  <2>6. job' = [job EXCEPT ![a] = new]
    BY <2>2, <2>4 DEF JobsOK
  <2>. HIDE DEF new
  <2>. QED  BY <2>2, <2>5, <2>6 DEF JobsOK, Dated
<1>3. CASE PlanRefused(a)
  <2>1. PICK step \in {"plan", "replan"}, status \in {Refusal, "internal"} \ {"none"} :
          Finish(a, step, status)
    BY <1>3 DEF PlanRefused
  <2>2. status \in Answers
    BY <2>1 DEF Refusal, Answers
  <2>. QED  BY <2>1, <2>2, FinishType
<1>4. CASE ReadForBackup(a)
  <2>1. conf \in Conf /\ job[a].day # 0
    BY <1>4 DEF LifeTypeInv, LifecycleTypeOK, TypeOK, ReadForBackup, JobsOK, Dated, At
  <2>2. DEFINE new == [job[a] EXCEPT !.at = "backup", !.copy = conf]
  <2>3. job[a] \in JobRecord
    BY DEF JobsOK
  <2>4. new \in JobRecord /\ new.day = job[a].day
    BY <2>1, <2>3 DEF JobRecord, RemoveSteps
  <2>5. job' = [job EXCEPT ![a] = new]
    BY <1>4, <2>3 DEF ReadForBackup, JobsOK
  <2>. HIDE DEF new
  <2>. QED  BY <2>1, <2>4, <2>5 DEF JobsOK, Dated
<1>5. CASE WriteBackup(a)
  <2>1. 0 \in 0..LastDay
    BY DayAssumption
  <2>2. DEFINE new == [job[a] EXCEPT !.at = "disable", !.day = 0, !.copy = Absent]
  <2>3. job[a] \in JobRecord
    BY DEF JobsOK
  <2>4. new \in JobRecord /\ new.at = "disable"
    BY <2>1, <2>3, AbsentType DEF JobRecord, RemoveSteps
  <2>5. job' = [job EXCEPT ![a] = new]
    BY <1>5, <2>3 DEF WriteBackup, JobsOK
  <2>. HIDE DEF new
  <2>. QED  BY <2>4, <2>5 DEF JobsOK, Dated
<1>6. CASE BackupFails(a)
  BY <1>6, FinishType DEF BackupFails, Answers
<1>7. CASE DeleteConf(a) \/ DeleteSidecar(a) \/ DeleteLock(a) \/ DeleteFails(a)
  BY <1>7, FinishType, AdvanceType
     DEF DeleteConf, DeleteSidecar, DeleteLock, DeleteFails, Answers, RemoveSteps
<1>. QED  BY <1>1, <1>2, <1>3, <1>4, <1>5, <1>6, <1>7 DEF RemoveStep

LEMMA JobsType ==
  ASSUME LifeTypeInv, JobsOK, Moves
  PROVE  JobsOK'
<1>1. ASSUME NEW a \in Admin, AdminCrash(a)  PROVE JobsOK'
  <2>1. Job("dead", NoCall) \in JobRecord /\ Job("dead", NoCall).at = "dead"
    BY JobType DEF JobRecord, Answers, Job
  <2>. QED  BY <1>1, <2>1 DEF AdminCrash, JobsOK, Dated
<1>2. CASE UNCHANGED job
  BY <1>2 DEF JobsOK, Dated
<1>. QED
  BY <1>1, <1>2, BeginJob, ProvideJob, RemoveJob DEF Moves, AdminStep, Midnight, lifecycle

LEMMA LifeTypeNext == LifeTypeInv /\ [LifecycleNext]_allVars => LifeTypeInv'
<1> SUFFICES ASSUME LifeTypeInv, [LifecycleNext]_allVars  PROVE LifeTypeInv'
  OBVIOUS
<1>1. Moves /\ TypeInv'
  BY StepsMove, FilesType
<1>2. JobsOK
  BY DEF LifeTypeInv, LifecycleTypeOK, JobsOK, Dated, JobRecord
<1>3. JobsOK'
  BY <1>1, <1>2, JobsType
<1>4. beside' \subseteq InProgress' /\ near' \subseteq InProgress'
  <2>1. CASE Overlaps
    BY <2>1 DEF Overlaps
  <2>2. CASE UNCHANGED allVars
    BY <2>2
       DEF allVars, vars, lifecycle, InProgress, Working, Running, LifeTypeInv, LifecycleTypeOK
  <2>. QED  BY <2>1, <2>2, StepsMove
<1>5. up' \in BOOLEAN /\ today' \in 1..LastDay /\ backups' \in [1..LastDay -> Conf]
  <2>1. ASSUME NEW a \in Admin, WriteBackup(a)
        PROVE  backups' \in [1..LastDay -> Conf] /\ UNCHANGED <<up, today>>
    BY <1>2, <2>1 DEF WriteBackup, LifeTypeInv, LifecycleTypeOK, JobsOK, JobRecord
  <2>2. ASSUME NEW a \in Admin, Enable(a) \/ Disable(a)
        PROVE  up' \in BOOLEAN /\ UNCHANGED <<backups, today>>
    BY <1>2, <2>2, CallAssumption
       DEF Enable, Disable, LifeTypeInv, LifecycleTypeOK, JobsOK, JobRecord, Call, NoCall
  <2>3. ASSUME NEW a \in Admin, AdminStep(a), ~WriteBackup(a), ~Enable(a), ~Disable(a)
        PROVE  UNCHANGED <<up, backups, today>>
    BY <2>3
       DEF AdminStep, Begin, ProvideStep, StatConf, StatSidecar, WriteConf, WriteSidecar,
           ProvideFails, RemoveStep, ShowPlan, Confirm, Replan, PlanRefused, ReadForBackup,
           BackupFails, DisableFails, DeleteConf, DeleteSidecar, DeleteLock, DeleteFails,
           AdminCrash
  <2>4. CASE Midnight
    BY <2>4, DayAssumption DEF Midnight, LifeTypeInv, LifecycleTypeOK
  <2>5. CASE UNCHANGED lifecycle
    BY <2>5 DEF lifecycle, LifeTypeInv, LifecycleTypeOK
  <2>. QED
    BY <1>1, <2>1, <2>2, <2>3, <2>4, <2>5 DEF Moves, LifeTypeInv, LifecycleTypeOK
<1>. QED
  BY <1>1, <1>3, <1>4, <1>5 DEF LifeTypeInv, LifecycleTypeOK, TypeInv, JobsOK, Dated, JobRecord

(* Every variable of the lifecycle keeps its type, whichever calls overlap  *)
(* or are killed, and a plan that copies has stamped its copy with a day.   *)
THEOREM LifecycleTypeCorrect == LifecycleSpec => []LifecycleTypeOK
<1>1. LifeTypeInv => LifecycleTypeOK
  BY DEF LifeTypeInv
<1>. QED  BY LifeTypeInit, LifeTypeNext, <1>1, PTL DEF LifecycleSpec

-----------------------------------------------------------------------------
(***************************************************************************)
(* Who met whom. A provide or remove that is apart is alone; a peer         *)
(* operation that is apart is beside no provide or remove and beside no     *)
(* other peer operation that is.                                            *)
(***************************************************************************)
MeetInv ==
  /\ \A x \in InProgress : \A a \in Admin \cap InProgress : a # x => x \in beside
  /\ \A x \in InProgress : \A p \in Proc \cap beside : p # x => x \in near

LEMMA MeetInit == LifecycleInit => MeetInv
BY DEF LifecycleInit, Init, MeetInv, InProgress, Working, Running, Job, ProvideSteps, RemoveSteps

LEMMA MeetNext == LifeTypeInv /\ MeetInv /\ [LifecycleNext]_allVars => MeetInv'
<1> SUFFICES ASSUME LifeTypeInv, MeetInv, [LifecycleNext]_allVars  PROVE MeetInv'
  OBVIOUS
<1>1. CASE UNCHANGED allVars
  BY <1>1 DEF allVars, lifecycle, vars, MeetInv, InProgress, Working, Running
<1>2. CASE Overlaps
  <2>1. ASSUME NEW x \in InProgress', NEW a \in Admin \cap InProgress', a # x
        PROVE  x \in beside'
    BY <1>2, <2>1 DEF Overlaps
  <2>2. ASSUME NEW x \in InProgress', NEW p \in Proc \cap beside', p # x
        PROVE  x \in near'
    BY <1>2, <2>2 DEF Overlaps
  <2>. QED  BY <2>1, <2>2 DEF MeetInv
<1>. QED  BY <1>1, <1>2, StepsMove

LEMMA MeetingsLast ==
  ASSUME [LifecycleNext]_allVars, NEW x \in InProgress'
  PROVE  (x \in beside => x \in beside') /\ (x \in near => x \in near')
<1>1. CASE Overlaps
  BY <1>1 DEF Overlaps
<1>2. CASE UNCHANGED allVars
  BY <1>2 DEF allVars
<1>. QED  BY <1>1, <1>2, StepsMove

LEMMA ApartBefore ==
  ASSUME [LifecycleNext]_allVars, NEW x \in InProgress', Apart(x)'
  PROVE  Apart(x)
BY MeetingsLast DEF Apart

LEMMA CallsAreInProgress == \A a \in Admin : Working(a) <=> a \in InProgress
BY ActorAssumption DEF InProgress
LEMMA ProcessesAreInProgress == \A p \in Proc : Running(p) <=> p \in InProgress
BY ActorAssumption DEF InProgress

(* A provide or remove that is apart is the only caller in progress.        *)
LEMMA Alone ==
  ASSUME MeetInv, NEW a \in Admin, Apart(a), a \in InProgress, NEW x \in InProgress
  PROVE  x = a
<1>1. x \in Admin \cup Proc
  BY DEF InProgress
<1>2. CASE x \in Admin
  BY <1>2 DEF MeetInv, Apart
<1>3. CASE x \in Proc
  <2>1. x # a
    BY <1>3, ActorAssumption
  <2>2. x \in beside
    BY <2>1 DEF MeetInv
  <2>. QED  BY <1>3, <2>1, <2>2 DEF MeetInv, Apart
<1>. QED  BY <1>1, <1>2, <1>3

(* What a peer operation that is apart never meets.                         *)
LEMMA NothingBeside ==
  ASSUME MeetInv, NEW p \in Proc, Apart(p), p \in InProgress
  PROVE  /\ \A a \in Admin : ~Working(a)
         /\ \A q \in Proc \ {p} : q \notin beside
BY CallsAreInProgress, ActorAssumption DEF MeetInv, Apart

(***************************************************************************)
(* What the steps of one actor leave alone.                                *)
(***************************************************************************)
OthersKeep(a) == \A b \in Admin \ {a} : job'[b] = job[b]

LEMMA SetKeeps ==
  ASSUME LifeTypeInv, NEW a \in Admin, NEW new, job' = [job EXCEPT ![a] = new]
  PROVE  OthersKeep(a)
BY DEF LifeTypeInv, LifecycleTypeOK, OthersKeep

LEMMA MoveKeeps ==
  ASSUME LifeTypeInv, NEW a \in Admin, NEW step, NEW to,
         Advance(a, step, to) \/ Warn(a, step, to) \/ Finish(a, step, to)
  PROVE  job[a].at = step /\ OthersKeep(a)
<1>1. job \in [Admin -> JobRecord]
  BY DEF LifeTypeInv, LifecycleTypeOK, JobRecord
<1>2. CASE Advance(a, step, to)
  BY <1>1, <1>2 DEF Advance, At, OthersKeep
<1>3. CASE Warn(a, step, to)
  BY <1>1, <1>3 DEF Warn, At, OthersKeep
<1>4. CASE Finish(a, step, to)
  BY <1>1, <1>4 DEF Finish, At, OthersKeep
<1>. QED  BY <1>2, <1>3, <1>4

LEMMA AdminFrame ==
  ASSUME LifeTypeInv, NEW a \in Admin, AdminStep(a)
  PROVE  /\ UNCHANGED <<pc, req, cfg, work, fd, holds, today>>
         /\ lockFile' = lockFile \/ DeleteLock(a)
         /\ OthersKeep(a)
         /\ Working(a) \/ (Begin(a) /\ UNCHANGED <<vars, up, backups>>)
<1>1. /\ UNCHANGED <<pc, req, cfg, work, fd, holds, today>>
      /\ lockFile' = lockFile \/ DeleteLock(a)
  BY DEF AdminStep, Begin, ProvideStep, StatConf, StatSidecar, WriteConf, WriteSidecar, Enable,
         ProvideFails, RemoveStep, ShowPlan, Confirm, Replan, PlanRefused, ReadForBackup,
         WriteBackup, BackupFails, Disable, DisableFails, DeleteConf, DeleteSidecar,
         DeleteLock, DeleteFails, AdminCrash, server, locks, memory, vars
<1>0. job \in [Admin -> JobRecord]
  BY DEF LifeTypeInv, LifecycleTypeOK, JobRecord
<1>2. CASE Begin(a)
  <2>1. OthersKeep(a)
    BY <1>2, SetKeeps DEF Begin
  <2>. QED  BY <1>1, <1>2, <2>1 DEF Begin
<1>3. CASE StatConf(a) \/ StatSidecar(a) \/ WriteConf(a) \/ WriteSidecar(a) \/ Enable(a)
  <2>1. OthersKeep(a) /\ job[a].at \in ProvideSteps
    BY <1>3, MoveKeeps
       DEF StatConf, StatSidecar, WriteConf, WriteSidecar, Enable, ProvideSteps
  <2>. QED  BY <1>1, <2>1 DEF Working
<1>4. CASE ProvideFails(a)
  <2>1. OthersKeep(a) /\ job[a].at \in ProvideSteps
    BY <1>4, MoveKeeps DEF ProvideFails, ProvideSteps
  <2>. QED  BY <1>1, <2>1 DEF Working
<1>5. CASE ShowPlan(a) \/ Confirm(a) \/ PlanRefused(a) \/ BackupFails(a)
  <2>1. OthersKeep(a) /\ job[a].at \in RemoveSteps
    BY <1>5, MoveKeeps DEF ShowPlan, Confirm, PlanRefused, BackupFails, RemoveSteps
  <2>. QED  BY <1>1, <2>1 DEF Working
<1>6. CASE Replan(a)
  <2>1. PICK at, day : job' = [job EXCEPT ![a].at = at, ![a].day = day]
    BY <1>6 DEF Replan
  <2>2. OthersKeep(a)
    BY <1>0, <2>1 DEF OthersKeep
  <2>3. job[a].at \in RemoveSteps
    BY <1>6 DEF Replan, At, RemoveSteps
  <2>. QED  BY <1>1, <2>2, <2>3 DEF Working
<1>7. CASE ReadForBackup(a) \/ WriteBackup(a)
  <2>1. ASSUME ReadForBackup(a)  PROVE OthersKeep(a)
    BY <1>0, <2>1 DEF OthersKeep, ReadForBackup
  <2>2. ASSUME WriteBackup(a)  PROVE OthersKeep(a)
    BY <1>0, <2>2 DEF OthersKeep, WriteBackup
  <2>3. job[a].at \in RemoveSteps
    BY <1>7 DEF ReadForBackup, WriteBackup, At, RemoveSteps
  <2>. QED  BY <1>1, <1>7, <2>1, <2>2, <2>3 DEF Working
<1>8. CASE Disable(a) \/ DisableFails(a)
  <2>1. OthersKeep(a) /\ job[a].at \in RemoveSteps
    BY <1>8, MoveKeeps DEF Disable, DisableFails, RemoveSteps
  <2>. QED  BY <1>1, <2>1 DEF Working
<1>9. CASE DeleteConf(a) \/ DeleteSidecar(a) \/ DeleteLock(a) \/ DeleteFails(a)
  <2>1. OthersKeep(a) /\ job[a].at \in RemoveSteps
    BY <1>9, MoveKeeps DEF DeleteConf, DeleteSidecar, DeleteLock, DeleteFails, RemoveSteps
  <2>. QED  BY <1>1, <2>1 DEF Working
<1>10. CASE AdminCrash(a)
  BY <1>1, <1>10, SetKeeps DEF AdminCrash
<1>. QED
  BY <1>2, <1>3, <1>4, <1>5, <1>6, <1>7, <1>8, <1>9, <1>10
     DEF AdminStep, ProvideStep, RemoveStep

LEMMA ServerFrame ==
  ASSUME TypeInv, NEW p \in Proc, ServerStep(p)
  PROVE  /\ Running(p) /\ UNCHANGED <<sidecar, req, cfg>>
         /\ \A q \in Proc \ {p} : SameMemory(q)
         /\ conf' = conf \/ RenameTemp(p)
         /\ pc'[p] \in Replacing =>
              \/ ReadAccepted(p)
              \/ pc[p] \in Replacing /\ work' = work /\ conf' = conf
<1> USE DEF Goto, Decide, files, locks, memory, TypeInv, TypeOK, Replacing, Running, SameMemory
<1>1. CASE Check(p) \/ DeadlinePasses(p) \/ Crash(p) \/ Unlock(p) \/ Emit(p)
  BY <1>1 DEF Check, DeadlinePasses, Crash, Unlock, Emit
<1>2. CASE AcquireStep(p)
  BY <1>2 DEF AcquireStep, OpenLock, OpenLockFails, Flock, FlockBusy, GiveUp, SleepAndRetry,
              FlockFails
<1>3. CASE ReadStep(p)
  BY <1>3 DEF ReadStep, ReadList, ReadRefused, ReadAccepted
<1>4. CASE WriteStep(p)
  BY <1>4 DEF WriteStep, WriteTemp, SyncTemp, RenameTemp, WriteFails, SyncDir
<1>5. CASE Strip(p) \/ SyncDevice(p) \/ ApplyFails(p)
  BY <1>5 DEF Strip, SyncDevice, ApplyFails
<1>. QED  BY <1>1, <1>2, <1>3, <1>4, <1>5 DEF ServerStep, OwnStep, Panic

LEMMA StartFrame ==
  ASSUME TypeInv, NEW p \in Proc, Start(p)
  PROVE  /\ UNCHANGED <<sidecar, conf, live, work>>
         /\ pc'[p] = "check" /\ cfg'[p] = sidecar
         /\ \A q \in Proc \ {p} : SameMemory(q)
BY DEF Start, Goto, SameMemory, files, device, TypeInv, TypeOK

(* What a step writes into the memory of the call that takes it.            *)
LEMMA MoveWrites ==
  ASSUME LifeTypeInv, NEW a \in Admin, NEW step, NEW to
  PROVE  /\ Advance(a, step, to) =>
              /\ job'[a].at = to /\ job'[a].call = job[a].call
              /\ job'[a].copy = job[a].copy /\ job'[a].warned = job[a].warned
         /\ Warn(a, step, to) =>
              /\ job'[a].at = to /\ job'[a].call = job[a].call
              /\ job'[a].copy = job[a].copy /\ job'[a].warned = TRUE
         /\ Finish(a, step, to) => job'[a].at = to /\ job'[a].copy = Absent
<1>1. job \in [Admin -> JobRecord]
  BY DEF LifeTypeInv, LifecycleTypeOK, JobRecord
<1>2. ASSUME Advance(a, step, to)
      PROVE  /\ job'[a].at = to /\ job'[a].call = job[a].call
             /\ job'[a].copy = job[a].copy /\ job'[a].warned = job[a].warned
  BY <1>1, <1>2 DEF Advance, JobRecord
<1>3. ASSUME Warn(a, step, to)
      PROVE  /\ job'[a].at = to /\ job'[a].call = job[a].call
             /\ job'[a].copy = job[a].copy /\ job'[a].warned = TRUE
  BY <1>1, <1>3 DEF Warn, JobRecord
<1>4. ASSUME Finish(a, step, to)
      PROVE  job'[a].at = to /\ job'[a].copy = Absent
  BY <1>1, <1>4 DEF Finish, Job
<1>. QED  BY <1>2, <1>3, <1>4

(* Where a step of remove leads.                                            *)
LEMMA RemoveTargets ==
  ASSUME LifeTypeInv, NEW a \in Admin, RemoveStep(a)
  PROVE  job'[a].at \in RemoveSteps \cup Answers
<1>0. job \in [Admin -> JobRecord]
  BY DEF LifeTypeInv, LifecycleTypeOK, JobRecord
<1>1. CASE ShowPlan(a) \/ Confirm(a) \/ BackupFails(a) \/ Disable(a) \/ DisableFails(a)
  BY <1>1, MoveWrites
     DEF ShowPlan, Confirm, BackupFails, Disable, DisableFails, RemoveSteps, Answers
<1>2. CASE PlanRefused(a)
  <2>1. PICK step \in {"plan", "replan"}, status \in {"not_found", "internal"} :
          Finish(a, step, status)
    BY <1>2 DEF PlanRefused, Refusal
  <2>2. job'[a].at = status
    BY <2>1, MoveWrites
  <2>. QED  BY <2>2 DEF Answers
<1>3. CASE Replan(a)
  <2>1. PICK day : job' = [job EXCEPT ![a].at = IF job[a].call.backup /\ ConfFound
                                                  THEN "readconf" ELSE "disable",
                                      ![a].day = day]
    BY <1>3 DEF Replan
  <2>2. job'[a].at \in {"readconf", "disable"}
    BY <1>0, <2>1 DEF JobRecord
  <2>. QED  BY <2>2 DEF RemoveSteps
<1>4. CASE ReadForBackup(a) \/ WriteBackup(a)
  BY <1>0, <1>4 DEF ReadForBackup, WriteBackup, JobRecord, RemoveSteps
<1>5. CASE DeleteConf(a) \/ DeleteSidecar(a) \/ DeleteLock(a) \/ DeleteFails(a)
  BY <1>5, MoveWrites
     DEF DeleteConf, DeleteSidecar, DeleteLock, DeleteFails, RemoveSteps, Answers
<1>. QED  BY <1>1, <1>2, <1>3, <1>4, <1>5 DEF RemoveStep

(* A call remembers a .conf only by reading it.                             *)
LEMMA CopyMoves ==
  ASSUME LifeTypeInv, NEW a \in Admin, AdminStep(a)
  PROVE  job'[a].copy \in {job[a].copy, Absent, conf}
<1>1. job \in [Admin -> JobRecord]
  BY DEF LifeTypeInv, LifecycleTypeOK, JobRecord
<1>2. CASE Begin(a)
  <2>1. PICK at, line : job' = [job EXCEPT ![a] = Job(at, line)]
    BY <1>2 DEF Begin
  <2>. QED  BY <1>1, <2>1 DEF Job
<1>3. CASE ProvideStep(a)
  BY <1>3, MoveWrites
     DEF ProvideStep, StatConf, StatSidecar, WriteConf, WriteSidecar, Enable, ProvideFails
<1>4. CASE ShowPlan(a) \/ Confirm(a) \/ PlanRefused(a) \/ BackupFails(a) \/ Disable(a)
           \/ DisableFails(a)
  BY <1>4, MoveWrites DEF ShowPlan, Confirm, PlanRefused, BackupFails, Disable, DisableFails
<1>5. CASE DeleteConf(a) \/ DeleteSidecar(a) \/ DeleteLock(a) \/ DeleteFails(a)
  <2>1. \/ \E to : Advance(a, "delconf", to) \/ Warn(a, "delconf", to)
        \/ \E to : Advance(a, "delsidecar", to) \/ Warn(a, "delsidecar", to)
        \/ Finish(a, "dellock", "ok")
    BY <1>5 DEF DeleteConf, DeleteSidecar, DeleteLock, DeleteFails
  <2>. QED  BY <2>1, MoveWrites
<1>6. CASE Replan(a)
  <2>1. PICK at, day : job' = [job EXCEPT ![a].at = at, ![a].day = day]
    BY <1>6 DEF Replan
  <2>. QED  BY <1>1, <2>1 DEF JobRecord
<1>7. CASE ReadForBackup(a)
  BY <1>1, <1>7 DEF ReadForBackup, JobRecord
<1>8. CASE WriteBackup(a)
  BY <1>1, <1>8 DEF WriteBackup, JobRecord
<1>9. CASE AdminCrash(a)
  BY <1>1, <1>9 DEF AdminCrash, Job
<1>. QED
  BY <1>2, <1>3, <1>4, <1>5, <1>6, <1>7, <1>8, <1>9 DEF AdminStep, RemoveStep

(* Only these steps of a call touch the .conf or a backup.                  *)
LEMMA AdminWrites ==
  ASSUME NEW a \in Admin, AdminStep(a)
  PROVE  /\ conf' = conf \/ WriteConf(a) \/ DeleteConf(a)
         /\ backups' = backups \/ WriteBackup(a)
BY DEF AdminStep, Begin, ProvideStep, StatConf, StatSidecar, WriteSidecar, Enable,
       ProvideFails, RemoveStep, ShowPlan, Confirm, Replan, PlanRefused, ReadForBackup,
       WriteConf, DeleteConf, WriteBackup,
       BackupFails, Disable, DisableFails, DeleteSidecar, DeleteLock, DeleteFails,
       AdminCrash, files, vars

-----------------------------------------------------------------------------
(***************************************************************************)
(* A file that is missing holds nothing, and what is about to replace a     *)
(* .conf is not missing.                                                   *)
(***************************************************************************)
Real(c) == c.there \/ c = Absent

MissingInv ==
  /\ Real(conf)
  /\ \A p \in Proc : pc[p] \in Replacing => work[p].there
  /\ \A d \in 1..LastDay : Real(backups[d])
  /\ \A a \in Admin : Real(job[a].copy)

LEMMA MissingInit == LifecycleInit => MissingInv
<1> SUFFICES ASSUME LifecycleInit  PROVE MissingInv
  OBVIOUS
<1>1. Real(conf)
  BY MissingAssumption, InputAssumption DEF LifecycleInit, Init, Real, Conf
<1>2. \A p \in Proc : pc[p] \notin Replacing
  BY DEF LifecycleInit, Init, Replacing
<1>3. \A d \in 1..LastDay : Real(backups[d])
  BY DEF LifecycleInit, Real
<1>4. \A a \in Admin : Real(job[a].copy)
  BY DEF LifecycleInit, Real, Job
<1>. QED  BY <1>1, <1>2, <1>3, <1>4 DEF MissingInv

LEMMA AcceptedIsThere ==
  ASSUME TypeInv, Real(conf), NEW p \in Proc, ReadAccepted(p)
  PROVE  conf.there /\ work'[p].there /\ work'[p].serverKey = conf.serverKey /\ conf' = conf
<1>1. conf.there
  BY AbsentType DEF Real, ReadAccepted, TypeInv, TypeOK, Conf
<1>2. conf \in Conf /\ work \in [Proc -> Conf]
  BY DEF TypeInv, TypeOK
<1>3. PICK peers : work' = [work EXCEPT ![p] = [conf EXCEPT !.peers = peers]]
  BY DEF ReadAccepted
<1>4. [conf EXCEPT !.peers = peers].there = conf.there
      /\ [conf EXCEPT !.peers = peers].serverKey = conf.serverKey
  BY <1>2 DEF Conf
<1>5. conf' = conf
  BY DEF ReadAccepted, files
<1>. QED  BY <1>1, <1>2, <1>3, <1>4, <1>5

LEMMA MissingNext == LifeTypeInv /\ MissingInv /\ Moves => MissingInv'
<1> SUFFICES ASSUME LifeTypeInv, MissingInv, Moves  PROVE MissingInv'
  OBVIOUS
<1>1. TypeInv
  BY DEF LifeTypeInv, LifecycleTypeOK, TypeInv
<1>2. ASSUME UNCHANGED lifecycle
      PROVE  /\ \A d \in 1..LastDay : Real(backups[d])'
             /\ \A a \in Admin : Real(job[a].copy)'
  BY <1>2 DEF lifecycle, MissingInv, Real, Absent, Unreadable
<1>3. ASSUME NEW a \in Admin, AdminStep(a)  PROVE MissingInv'
  <2>1. Real(conf)'
    <3>1. CASE WriteConf(a)
      BY <3>1 DEF WriteConf, Real
    <3>2. CASE DeleteConf(a)
      BY <3>2 DEF DeleteConf, Real
    <3>. QED  BY <1>3, <3>1, <3>2, AdminWrites DEF MissingInv, Real
  <2>2. \A p \in Proc : (pc[p] \in Replacing => work[p].there)'
    BY <1>3, AdminFrame DEF MissingInv
  <2>3. \A d \in 1..LastDay : Real(backups[d])'
    <3>1. CASE WriteBackup(a)
      BY <3>1 DEF WriteBackup, MissingInv, LifeTypeInv, LifecycleTypeOK, Real
    <3>. QED  BY <1>3, <3>1, AdminWrites DEF MissingInv, Real
  <2>4. \A b \in Admin : Real(job[b].copy)'
    BY <1>3, CopyMoves, AdminFrame DEF OthersKeep, MissingInv, Real
  <2>. QED  BY <2>1, <2>2, <2>3, <2>4 DEF MissingInv
<1>4. ASSUME NEW p \in Proc, ServerStep(p), UNCHANGED lifecycle  PROVE MissingInv'
  <2>1. \A q \in Proc : (pc[q] \in Replacing => work[q].there)'
    BY <1>1, <1>4, ServerFrame, AcceptedIsThere DEF MissingInv, SameMemory
  <2>2. Real(conf)'
    BY <1>1, <1>4, ServerFrame DEF MissingInv, RenameTemp, Goto, Replacing, Real
  <2>. QED  BY <1>2, <1>4, <2>1, <2>2 DEF MissingInv
<1>5. ASSUME NEW p \in Proc, Start(p), UNCHANGED lifecycle  PROVE MissingInv'
  BY <1>1, <1>2, <1>5, StartFrame DEF MissingInv, SameMemory, Replacing, Real
<1>6. CASE OrphanSync /\ UNCHANGED lifecycle
  BY <1>2, <1>6 DEF OrphanSync, MissingInv, Real, files, memory
<1>7. CASE Midnight \/ UNCHANGED <<vars, lifecycle>>
  BY <1>7 DEF Midnight, MissingInv, Real, vars, files, memory, lifecycle
<1>. QED  BY <1>3, <1>4, <1>5, <1>6, <1>7 DEF Moves

(***************************************************************************)
(* The lock beside a remove that deletes its file: the holders are those in *)
(* their critical section, one to an inode, and whoever has an inode open  *)
(* that is no longer at the path was beside the remove that deleted it.    *)
(***************************************************************************)
HoldInv ==
  /\ lockFile.there => lockFile.ino # 0
  /\ \A p \in Proc : pc[p] \in {"flock", "retry"} => fd[p] # 0
  /\ \A p \in Proc : fd[p] # 0 => Running(p)
  /\ \A p \in Proc : holds[p] <=> Critical(p)
  /\ \A p \in Proc : holds[p] => fd[p] # 0
  /\ \A p, q \in Proc : holds[p] /\ holds[q] /\ fd[p] = fd[q] => p = q

AtPath(p) == lockFile.there /\ fd[p] = lockFile.ino
StrayInv == \A p \in Proc : fd[p] # 0 /\ ~AtPath(p) => p \in beside

LEMMA HoldInit == LifecycleInit => HoldInv /\ StrayInv
BY DEF LifecycleInit, Init, HoldInv, StrayInv, Critical, Replacing

LEMMA AcquireHold ==
  ASSUME TypeInv, HoldInv, NEW p \in Proc, AcquireStep(p) \/ DeadlinePasses(p)
  PROVE  HoldInv'
<1> USE DEF TypeInv, Goto, memory, locks, Running
<1>1. CASE OpenLock(p)
  <2>1. lockFile'.there /\ lockFile'.ino # 0
    BY <1>1 DEF OpenLock, HoldInv, TypeOK
  <2>2. fd' = [fd EXCEPT ![p] = lockFile'.ino] /\ pc'[p] = "flock" /\ ~holds[p]
    BY <1>1 DEF OpenLock, HoldInv, Critical, Replacing, TypeOK
  <2>3. \A q \in Proc : Critical(q)' <=> Critical(q)
    BY <1>1 DEF OpenLock, Critical, Replacing, TypeOK
  <2>4. holds' = holds /\ \A q \in Proc : q # p => pc'[q] = pc[q]
    BY <1>1 DEF OpenLock, TypeOK
  <2>. QED  BY <2>1, <2>2, <2>3, <2>4 DEF HoldInv, TypeOK
<1>2. CASE OpenLockFails(p)
  BY <1>2 DEF OpenLockFails, HoldInv, Critical, Replacing, TypeOK
<1>3. CASE Flock(p)
  <2>1. \A q \in Proc : ~(holds[q] /\ fd[q] = fd[p])
    BY <1>3 DEF Flock, LockBusy
  <2>2. req[p].op # "list"
    BY <1>3 DEF Flock, Validated
  <2>. QED  BY <1>3, <2>1, <2>2 DEF Flock, HoldInv, Critical, Replacing, TypeOK
<1>4. CASE FlockBusy(p)
  BY <1>4 DEF FlockBusy, HoldInv, Critical, Replacing, TypeOK
<1>5. CASE GiveUp(p)
  BY <1>5 DEF GiveUp, HoldInv, Critical, Replacing, TypeOK
<1>6. CASE SleepAndRetry(p)
  BY <1>6 DEF SleepAndRetry, HoldInv, Critical, Replacing, TypeOK
<1>7. CASE FlockFails(p)
  BY <1>7 DEF FlockFails, HoldInv, Critical, Replacing, TypeOK
<1>8. CASE DeadlinePasses(p)
  BY <1>8 DEF DeadlinePasses, HoldInv, Critical
<1>. QED  BY <1>1, <1>2, <1>3, <1>4, <1>5, <1>6, <1>7, <1>8 DEF AcquireStep

LEMMA WorkHold ==
  ASSUME TypeInv, HoldInv, NEW p \in Proc,
         Start(p) \/ Check(p) \/ ReadStep(p) \/ WriteStep(p) \/ ApplyStep(p)
  PROVE  HoldInv' /\ UNCHANGED <<lockFile, fd>>
<1> USE DEF TypeInv, Goto, locks, memory
<1>1. UNCHANGED <<lockFile, fd, holds>>
  BY DEF Start, Check, ReadStep, ReadList, ReadRefused, ReadAccepted, WriteStep,
         WriteTemp, SyncTemp, RenameTemp, WriteFails, SyncDir, ApplyStep, Strip,
         SyncDevice, ApplyFails
<1>2. /\ \A q \in Proc \ {p} : pc'[q] = pc[q] /\ req'[q] = req[q]
      /\ pc'[p] \notin {"flock", "retry", "new", "done", "dead"}
      /\ Critical(p)' <=> Critical(p)
  <2>1. CASE Start(p)
    BY <2>1 DEF Start, Critical, Replacing, TypeOK
  <2>2. CASE Check(p)
    BY <2>2 DEF Check, Critical, Replacing, TypeOK
  <2>3. CASE ReadStep(p)
    BY <2>3 DEF ReadStep, ReadList, ReadRefused, ReadAccepted, Critical, Replacing, TypeOK
  <2>4. CASE WriteStep(p)
    BY <2>4 DEF WriteStep, WriteTemp, SyncTemp, RenameTemp, WriteFails, SyncDir,
                Critical, Replacing, TypeOK
  <2>5. CASE ApplyStep(p)
    BY <2>5 DEF ApplyStep, Strip, SyncDevice, ApplyFails, Critical, Replacing, TypeOK
  <2>. QED  BY <2>1, <2>2, <2>3, <2>4, <2>5
<1>3. \A q \in Proc : Critical(q)' <=> Critical(q)
  BY <1>2 DEF Critical
<1>. QED  BY <1>1, <1>2, <1>3 DEF HoldInv, Running

LEMMA EndHold ==
  ASSUME TypeInv, HoldInv, NEW p \in Proc, Unlock(p) \/ Emit(p) \/ Crash(p)
  PROVE  HoldInv' /\ lockFile' = lockFile /\ fd' = [fd EXCEPT ![p] = 0]
<1> USE DEF TypeInv, Goto, locks, memory
<1>1. /\ fd' = [fd EXCEPT ![p] = 0] /\ holds' = [holds EXCEPT ![p] = FALSE]
      /\ lockFile' = lockFile /\ req' = req
      /\ \A q \in Proc \ {p} : pc'[q] = pc[q]
      /\ pc'[p] \in {"reply", "done", "dead"}
  BY DEF Unlock, Emit, Crash, TypeOK
<1>2. /\ ~Critical(p)'
      /\ \A q \in Proc \ {p} : Critical(q)' <=> Critical(q)
  BY <1>1 DEF Critical, Replacing
<1>. QED  BY <1>1, <1>2 DEF HoldInv, Running, TypeOK

LEMMA ServerHold ==
  ASSUME TypeInv, HoldInv, NEW p \in Proc, Start(p) \/ ServerStep(p)
  PROVE  /\ HoldInv'
         /\ \/ OpenLock(p)
            \/ lockFile' = lockFile /\ \A q \in Proc : fd'[q] \in {fd[q], 0}
<1>1. ASSUME AcquireStep(p) \/ DeadlinePasses(p)
      PROVE  \/ OpenLock(p)
             \/ lockFile' = lockFile /\ \A q \in Proc : fd'[q] \in {fd[q], 0}
  BY <1>1
     DEF AcquireStep, OpenLockFails, Flock, FlockBusy, GiveUp, SleepAndRetry, FlockFails,
         DeadlinePasses, locks, TypeInv, TypeOK
<1>2. ASSUME Unlock(p) \/ Emit(p) \/ Crash(p)
      PROVE  HoldInv' /\ lockFile' = lockFile /\ \A q \in Proc : fd'[q] \in {fd[q], 0}
  BY <1>2, EndHold DEF TypeInv, TypeOK
<1>. QED
  BY <1>1, <1>2, AcquireHold, WorkHold DEF ServerStep, OwnStep, ApplyStep, Panic

LEMMA HoldNext == LifeTypeInv /\ HoldInv /\ Moves => HoldInv'
<1> SUFFICES ASSUME LifeTypeInv, HoldInv, Moves  PROVE HoldInv'
  OBVIOUS
<1>1. TypeInv
  BY DEF LifeTypeInv, LifecycleTypeOK, TypeInv
<1>2. ASSUME NEW a \in Admin, AdminStep(a)  PROVE HoldInv'
  <2>1. UNCHANGED <<pc, req, fd, holds>> /\ (lockFile'.there => lockFile' = lockFile)
    BY <1>1, <1>2, AdminFrame DEF DeleteLock, TypeInv, TypeOK
  <2>. QED  BY <2>1 DEF HoldInv, Critical, Running
<1>3. CASE Midnight \/ OrphanSync \/ UNCHANGED <<vars, lifecycle>>
  BY <1>3 DEF Midnight, OrphanSync, vars, locks, memory, HoldInv, Critical, Running
<1>. QED  BY <1>1, <1>2, <1>3, ServerHold DEF Moves

LEMMA StrayNext ==
  LifeTypeInv /\ MeetInv /\ HoldInv /\ StrayInv /\ [LifecycleNext]_allVars => StrayInv'
<1> SUFFICES ASSUME LifeTypeInv, MeetInv, HoldInv, StrayInv, [LifecycleNext]_allVars,
                    NEW p \in Proc, fd'[p] # 0, ~AtPath(p)'
             PROVE  p \in beside'
  BY DEF StrayInv
<1>1. TypeInv /\ Moves
  BY StepsMove DEF LifeTypeInv, LifecycleTypeOK, TypeInv
<1>2. p \in InProgress'
  BY <1>1, HoldNext DEF HoldInv, InProgress
<1>3. SUFFICES p \in beside
  BY <1>2, MeetingsLast
<1>4. CASE lockFile' = lockFile /\ fd'[p] \in {fd[p], 0}
  BY <1>4 DEF StrayInv, AtPath
<1>5. ASSUME NEW a \in Admin, AdminStep(a)  PROVE p \in beside
  <2>1. CASE DeleteLock(a)
    <3>1. Running(p) /\ Working(a)
      BY <1>5, <2>1, AdminFrame DEF HoldInv, DeleteLock, Finish, At, Working, RemoveSteps
    <3>. QED
      BY <3>1, CallsAreInProgress, ProcessesAreInProgress, ActorAssumption DEF MeetInv
  <2>. QED  BY <1>4, <1>5, <2>1, AdminFrame
<1>6. ASSUME NEW q \in Proc, OpenLock(q)  PROVE p \in beside
  <2>1. p # q
    BY <1>1, <1>6 DEF OpenLock, AtPath, TypeInv, TypeOK
  <2>2. fd'[p] = fd[p] /\ lockFile'.there
        /\ (lockFile.there => lockFile'.ino = lockFile.ino)
    BY <1>1, <1>6, <2>1 DEF OpenLock, TypeInv, TypeOK
  <2>. QED  BY <2>2 DEF StrayInv, AtPath
<1>7. CASE Midnight \/ OrphanSync \/ UNCHANGED <<vars, lifecycle>>
  BY <1>4, <1>7 DEF Midnight, OrphanSync, vars, locks
<1>. QED  BY <1>1, <1>4, <1>5, <1>6, <1>7, ServerHold DEF Moves

(* Two peer operations in their critical section at once: one of them has a *)
(* deleted lock file open.                                                  *)
LEMMA ExclusionUnlessBeside ==
  ASSUME HoldInv, StrayInv, NEW p \in Proc, NEW q \in Proc, p # q,
         pc[p] \in Replacing, pc[q] \in Replacing
  PROVE  p \in beside \/ q \in beside
<1>1. holds[p] /\ holds[q] /\ fd[p] # 0 /\ fd[q] # 0
  BY DEF HoldInv, Critical
<1>2. ~(AtPath(p) /\ AtPath(q))
  BY <1>1 DEF HoldInv, AtPath
<1>. QED  BY <1>1, <1>2 DEF StrayInv

(***************************************************************************)
(* A peer operation that is apart has the sidecar in mind that is on disk,  *)
(* and is about to replace the .conf as it is by an edit it allows.        *)
(***************************************************************************)
Decided(p) ==
  /\ conf.there /\ conf.readable
  /\ Verdict(req[p], cfg[p], Parse(conf.peers)) = "ok"
  /\ work[p] = [conf EXCEPT !.peers = Edit(req[p], cfg[p], Parse(conf.peers))]

InTouch(p) == cfg[p] = sidecar /\ (pc[p] \in Replacing => Decided(p))
TouchInv == \A p \in Proc : Running(p) /\ Apart(p) => InTouch(p)

LEMMA TouchInit == LifecycleInit => TouchInv
BY DEF LifecycleInit, Init, TouchInv, Running

LEMMA TouchNext ==
  /\ LifeTypeInv /\ MeetInv /\ MissingInv /\ HoldInv /\ StrayInv /\ TouchInv
  /\ [LifecycleNext]_allVars
  => TouchInv'
<1> SUFFICES ASSUME LifeTypeInv, MeetInv, MissingInv, HoldInv, StrayInv, TouchInv,
                    [LifecycleNext]_allVars,
                    NEW p \in Proc, Running(p)', Apart(p)'
             PROVE  InTouch(p)'
  BY DEF TouchInv
<1>1. TypeInv /\ Moves
  BY StepsMove DEF LifeTypeInv, LifecycleTypeOK, TypeInv
<1>2. Apart(p)
  <2>1. p \in InProgress'
    BY DEF InProgress
  <2>. QED  BY <2>1, ApartBefore
<1>3. CASE UNCHANGED <<pc, req, cfg, work, conf, sidecar>>
  BY <1>2, <1>3 DEF TouchInv, InTouch, Decided, Running
<1>4. ASSUME NEW a \in Admin, AdminStep(a)  PROVE InTouch(p)'
  <2>1. UNCHANGED <<pc, req, cfg, work>>
    BY <1>4, AdminFrame
  <2>2. ~Working(a)
    BY <1>2, <2>1, NothingBeside, ProcessesAreInProgress DEF Running
  <2>. QED  BY <1>3, <1>4, <2>1, <2>2, AdminFrame DEF vars, files
<1>5. ASSUME ServerStep(p)  PROVE InTouch(p)'
  <2>1. Running(p) /\ UNCHANGED <<sidecar, req, cfg>>
    BY <1>1, <1>5, ServerFrame
  <2>2. CASE ReadAccepted(p)
    <3>1. conf.there /\ conf' = conf
      BY <1>1, <2>2, AcceptedIsThere DEF MissingInv
    <3>2. /\ conf.readable
          /\ Verdict(req[p], cfg[p], Parse(conf.peers)) = "ok"
          /\ work'[p] = [conf EXCEPT !.peers = Edit(req[p], cfg[p], Parse(conf.peers))]
      BY <1>1, <2>2 DEF ReadAccepted, TypeInv, TypeOK
    <3>. QED  BY <1>2, <2>1, <3>1, <3>2 DEF TouchInv, InTouch, Decided
  <2>3. CASE pc[p] \in Replacing /\ work' = work /\ conf' = conf
    BY <1>2, <2>1, <2>3 DEF TouchInv, InTouch, Decided
  <2>4. CASE pc'[p] \notin Replacing
    BY <1>2, <2>1, <2>4 DEF TouchInv, InTouch, Replacing
  <2>. QED  BY <1>1, <1>5, <2>2, <2>3, <2>4, ServerFrame
<1>6. ASSUME NEW q \in Proc, ServerStep(q), q # p  PROVE InTouch(p)'
  <2>1. SameMemory(p) /\ sidecar' = sidecar /\ (conf' = conf \/ RenameTemp(q))
    BY <1>1, <1>6, ServerFrame
  <2>2. Running(p)
    BY <2>1 DEF SameMemory, Running
  <2>3. CASE RenameTemp(q) /\ pc[p] \in Replacing
    <3>1. pc[q] \in Replacing
      BY <2>3 DEF RenameTemp, Goto, Replacing
    <3>2. p \in beside \/ q \in beside
      BY <1>6, <2>3, <3>1, ExclusionUnlessBeside
    <3>. QED  BY <1>2, <1>6, <2>2, <3>2, NothingBeside, ProcessesAreInProgress DEF Apart
  <2>4. CASE pc[p] \notin Replacing
    BY <1>2, <2>1, <2>2, <2>4 DEF TouchInv, InTouch, SameMemory, Replacing
  <2>5. CASE conf' = conf
    BY <1>2, <2>1, <2>2, <2>5 DEF TouchInv, InTouch, Decided, SameMemory
  <2>. QED  BY <2>1, <2>3, <2>4, <2>5
<1>7. ASSUME Start(p)  PROVE InTouch(p)'
  BY <1>1, <1>7, StartFrame DEF InTouch, Replacing
<1>8. ASSUME NEW q \in Proc, Start(q), q # p  PROVE InTouch(p)'
  <2>1. SameMemory(p) /\ UNCHANGED <<sidecar, conf>>
    BY <1>1, <1>8, StartFrame
  <2>. QED  BY <1>2, <2>1 DEF TouchInv, InTouch, Decided, SameMemory, Running
<1>9. CASE Midnight \/ OrphanSync \/ UNCHANGED <<vars, lifecycle>>
  BY <1>3, <1>9 DEF Midnight, OrphanSync, vars, files, memory
<1>. QED  BY <1>1, <1>4, <1>5, <1>6, <1>7, <1>8, <1>9 DEF Moves

(***************************************************************************)
(* A provide between its first stat and its first write: a .conf that has   *)
(* appeared since is another provide's, or a peer operation renamed it in   *)
(* place that met this one.                                                 *)
(***************************************************************************)
Looking(a) == At(a, "statsidecar") \/ At(a, "writeconf")
FromAnother(a) == a \in beside /\ \E b \in Admin \ {a} : conf.serverKey = FreshKey[b]
FreshInv ==
  \A a \in Admin : Looking(a) /\ conf.there => a \in near \/ FromAnother(a)

LEMMA FreshInit == LifecycleInit => FreshInv
BY DEF LifecycleInit, FreshInv, Looking, At, Job

LEMMA LooksOn ==
  ASSUME LifeTypeInv, NEW a \in Admin, AdminStep(a), Looking(a)'
  PROVE  conf' = conf /\ (Looking(a) \/ ~conf.there)
<1>0. job \in [Admin -> JobRecord]
  BY DEF LifeTypeInv, LifecycleTypeOK, JobRecord
<1>1. job'[a].at \in {"statsidecar", "writeconf"}
  BY DEF Looking, At
<1>2. CASE StatConf(a)
  <2>1. job'[a].at = "bad_request" \/ ~conf.there
    BY <1>2, MoveWrites DEF StatConf
  <2>2. conf' = conf
    BY <1>2 DEF StatConf, vars, files
  <2>. QED  BY <1>1, <2>1, <2>2
<1>3. CASE StatSidecar(a)
  <2>1. At(a, "statsidecar")
    BY <1>3 DEF StatSidecar, Advance, Finish
  <2>2. conf' = conf
    BY <1>3 DEF StatSidecar, vars, files
  <2>. QED  BY <2>1, <2>2 DEF Looking
<1>4. CASE WriteConf(a) \/ WriteSidecar(a) \/ Enable(a) \/ ProvideFails(a)
  <2>1. job'[a].at \in {"writesidecar", "enable", "ok", "bad_request", "internal"}
    BY <1>4, MoveWrites DEF WriteConf, WriteSidecar, Enable, ProvideFails
  <2>. QED  BY <1>1, <2>1
<1>5. CASE Begin(a) \/ AdminCrash(a)
  <2>1. job'[a].at \in {"statconf", "plan", "replan", "bad_request", "dead"}
    BY <1>0, <1>5, BeginJob
       DEF AdminCrash, Job, LifeTypeInv, LifecycleTypeOK, JobsOK, Dated, JobRecord
  <2>. QED  BY <1>1, <2>1
<1>6. CASE RemoveStep(a)
  BY <1>1, <1>6, RemoveTargets DEF RemoveSteps, Answers
<1>. QED  BY <1>2, <1>3, <1>4, <1>5, <1>6 DEF AdminStep, ProvideStep

LEMMA FreshNext ==
  LifeTypeInv /\ MeetInv /\ FreshInv /\ [LifecycleNext]_allVars => FreshInv'
<1> SUFFICES ASSUME LifeTypeInv, MeetInv, FreshInv, [LifecycleNext]_allVars,
                    NEW a \in Admin, Looking(a)', conf'.there, a \notin near'
             PROVE  FromAnother(a)'
  BY DEF FreshInv
<1>1. TypeInv /\ Moves
  BY StepsMove DEF LifeTypeInv, LifecycleTypeOK, TypeInv
<1>2. (a \in beside => a \in beside') /\ a \notin near
  <2>1. a \in InProgress'
    BY DEF Looking, At, InProgress, Working, ProvideSteps
  <2>. QED  BY <2>1, MeetingsLast
<1>3. ASSUME Looking(a), conf' = conf  PROVE FromAnother(a)'
  BY <1>2, <1>3 DEF FreshInv, FromAnother
<1>4. ASSUME Looking(a)  PROVE a \in InProgress
  BY <1>4 DEF Looking, At, InProgress, Working, ProvideSteps
<1>5. CASE AdminStep(a)
  BY <1>3, <1>5, LooksOn
<1>6. ASSUME NEW b \in Admin, AdminStep(b), b # a  PROVE FromAnother(a)'
  <2>1. Looking(a)
    BY <1>6, AdminFrame DEF OthersKeep, Looking, At
  <2>2. CASE WriteConf(b)
    <3>1. b \in InProgress
      BY <2>2, CallsAreInProgress DEF WriteConf, Advance, At, Working, ProvideSteps
    <3>2. a \in beside
      BY <1>4, <1>6, <2>1, <3>1 DEF MeetInv
    <3>3. conf'.serverKey = FreshKey[b]
      BY <2>2 DEF WriteConf
    <3>. QED  BY <1>2, <1>6, <3>2, <3>3 DEF FromAnother
  <2>3. ~DeleteConf(b)
    BY AbsentType DEF DeleteConf
  <2>. QED  BY <1>3, <1>6, <2>1, <2>2, <2>3, AdminWrites
<1>7. ASSUME NEW p \in Proc, ServerStep(p), UNCHANGED lifecycle  PROVE FromAnother(a)'
  <2>1. Looking(a)
    BY <1>7 DEF lifecycle, Looking, At
  <2>2. p \in InProgress /\ a \in InProgress
    BY <1>1, <1>4, <1>7, <2>1, ServerFrame, ProcessesAreInProgress
  <2>3. FALSE
    BY <1>2, <2>2, ActorAssumption DEF MeetInv
  <2>. QED  BY <2>3
<1>8. ASSUME NEW p \in Proc, Start(p), UNCHANGED lifecycle  PROVE FromAnother(a)'
  BY <1>1, <1>3, <1>8, StartFrame DEF lifecycle, Looking, At
<1>9. CASE Midnight
  BY <1>3, <1>9 DEF Midnight, vars, files, Looking, At
<1>10. CASE OrphanSync /\ UNCHANGED lifecycle
  BY <1>3, <1>10 DEF OrphanSync, files, lifecycle, Looking, At
<1>11. CASE UNCHANGED <<vars, lifecycle>>
  BY <1>3, <1>11 DEF vars, files, lifecycle, Looking, At
<1>. QED  BY <1>1, <1>5, <1>6, <1>7, <1>8, <1>9, <1>10, <1>11 DEF Moves

LifeInv ==
  /\ LifeTypeInv /\ MeetInv /\ MissingInv
  /\ HoldInv /\ StrayInv /\ TouchInv /\ FreshInv

LEMMA LifeInvariant == LifecycleSpec => []LifeInv
<1>1. LifecycleInit => LifeInv
  BY LifeTypeInit, MeetInit, MissingInit, HoldInit, TouchInit, FreshInit DEF LifeInv
<1>2. LifeInv /\ [LifecycleNext]_allVars => LifeInv'
  BY LifeTypeNext, MeetNext, MissingNext, HoldNext, StrayNext, TouchNext, FreshNext, StepsMove
     DEF LifeInv
<1>. QED  BY <1>1, <1>2, PTL DEF LifecycleSpec

KeepStep(p) ==
  RenameTemp(p) /\ Apart(p) =>
    /\ conf.there /\ conf.readable /\ cfg[p] = sidecar
    /\ Verdict(req[p], sidecar, Parse(conf.peers)) = "ok"
    /\ conf' = [conf EXCEPT !.peers = Edit(req[p], sidecar, Parse(conf.peers))]

LEMMA RenamesInTouch ==
  ASSUME LifeInv, NEW p \in Proc, RenameTemp(p), Apart(p)
  PROVE  InTouch(p) /\ Decided(p) /\ conf' = work[p]
<1>1. pc[p] \in Replacing /\ Running(p) /\ conf' = work[p]
  BY DEF RenameTemp, Goto, Replacing, Running
<1>. QED  BY <1>1 DEF LifeInv, TouchInv, InTouch

(* A peer operation that overlapped with no provide and no remove, nor with *)
(* a peer operation that did, replaces the .conf of the interface as it is  *)
(* by an edit that the sidecar and the peers allow, however many others     *)
(* work under lock files that were deleted.                                 *)
THEOREM PeersKeepInterfaceHolds == LifecycleSpec => PeersKeepInterface
<1>1. ASSUME LifeInv, NEW p \in Proc  PROVE KeepStep(p)
  BY <1>1, RenamesInTouch DEF KeepStep, InTouch, Decided
<1>2. LifeInv /\ [LifecycleNext]_allVars => [\A p \in Proc : KeepStep(p)]_allVars
  BY <1>1
<1>. QED  BY <1>2, LifeInvariant, PTL DEF LifecycleSpec, PeersKeepInterface, KeepStep

-----------------------------------------------------------------------------
(***************************************************************************)
(* What a remove that runs alone knows at each of its steps.                *)
(***************************************************************************)
BackedUp == conf.there => \E d \in 1..LastDay : backups[d].serverKey = conf.serverKey
UnitDown == ~up /\ live = {}

CopyIsCurrent(a) == At(a, "backup") => job[a].copy = conf
CopyIsKept(a) == At(a, "disable") \/ At(a, "delconf") => (job[a].call.backup => BackedUp)
TornDown(a) ==
  ~job[a].warned =>
    /\ At(a, "delconf") => UnitDown
    /\ At(a, "delsidecar") => UnitDown /\ ~conf.there
    /\ At(a, "dellock") => UnitDown /\ ~conf.there /\ sidecar.file = "absent"

Knows(a) == CopyIsCurrent(a) /\ CopyIsKept(a) /\ TornDown(a)
AloneInv == \A a \in Admin : Apart(a) => Knows(a)

LEMMA AloneInit == LifecycleInit => AloneInv
BY DEF LifecycleInit, AloneInv, Knows, CopyIsCurrent, CopyIsKept, TornDown,
       At, Job

LEMMA IdleKnowsThen ==
  ASSUME NEW a \in Admin, ~Working(a)'
  PROVE  Knows(a)'
BY DEF Working, Knows, CopyIsCurrent, CopyIsKept, TornDown, At, ProvideSteps, RemoveSteps

(* Nobody else disturbs it: the others are not in progress, and a `wg       *)
(* syncconf` left behind by a killed operation needs the interface.         *)
LEMMA OthersLeave ==
  ASSUME LifeTypeInv, MeetInv, Moves, NEW a \in Admin, Apart(a), Working(a), ~AdminStep(a)
  PROVE  /\ job'[a] = job[a] /\ UNCHANGED <<conf, sidecar, up, backups>>
         /\ live' = live \/ up
<1>1. a \in InProgress
  BY CallsAreInProgress
<1>2. TypeInv
  BY DEF LifeTypeInv, LifecycleTypeOK, TypeInv
<1>3. ASSUME NEW b \in Admin, AdminStep(b)
      PROVE  /\ job'[a] = job[a] /\ UNCHANGED <<conf, sidecar, up, backups>>
             /\ live' = live \/ up
  <2>1. a # b
    BY <1>3
  <2>2. ~Working(b)
    BY <1>1, <2>1, CallsAreInProgress, Alone
  <2>. QED  BY <1>3, <2>1, <2>2, AdminFrame DEF OthersKeep, vars, files, device
<1>4. ASSUME NEW p \in Proc, ServerStep(p)  PROVE FALSE
  BY <1>1, <1>2, <1>4, ServerFrame, ProcessesAreInProgress, Alone, ActorAssumption
<1>5. ASSUME NEW p \in Proc, Start(p), UNCHANGED lifecycle
      PROVE  /\ job'[a] = job[a] /\ UNCHANGED <<conf, sidecar, up, backups>>
             /\ live' = live \/ up
  BY <1>2, <1>5, StartFrame DEF lifecycle
<1>6. CASE Midnight
  BY <1>6 DEF Midnight, vars, files, device
<1>7. CASE up /\ OrphanSync /\ UNCHANGED lifecycle
  BY <1>7 DEF OrphanSync, lifecycle, files
<1>8. CASE UNCHANGED <<vars, lifecycle>>
  BY <1>8 DEF vars, files, device, lifecycle
<1>. QED  BY <1>3, <1>4, <1>5, <1>6, <1>7, <1>8 DEF Moves

LEMMA ProvideKnows ==
  ASSUME LifeTypeInv, NEW a \in Admin, ProvideStep(a)
  PROVE  Knows(a)'
<1>1. job'[a].at \in ProvideSteps \cup {"ok", "bad_request", "internal"}
  BY MoveWrites
     DEF ProvideStep, StatConf, StatSidecar, WriteConf, WriteSidecar, Enable, ProvideFails,
         ProvideSteps
<1>. QED
  BY <1>1 DEF Knows, CopyIsCurrent, CopyIsKept, TornDown, At, ProvideSteps

LEMMA RemoveKnows ==
  ASSUME LifeTypeInv, NEW a \in Admin, RemoveStep(a), Knows(a)
  PROVE  Knows(a)'
<1> USE DEF Knows, CopyIsCurrent, CopyIsKept, TornDown, At
<1>0. job \in [Admin -> JobRecord] /\ conf \in Conf
  BY DEF LifeTypeInv, LifecycleTypeOK, TypeOK, JobRecord
<1>1. CASE ShowPlan(a) \/ Confirm(a) \/ BackupFails(a)
  <2>1. job'[a].at \in {"confirm", "replan", "cancelled", "internal"}
    BY <1>1, MoveWrites DEF ShowPlan, Confirm, BackupFails
  <2>. QED  BY <2>1
<1>2. CASE PlanRefused(a)
  <2>1. PICK step \in {"plan", "replan"}, status \in {"not_found", "internal"} :
          Finish(a, step, status)
    BY <1>2 DEF PlanRefused, Refusal
  <2>2. job'[a].at = status
    BY <2>1, MoveWrites
  <2>. QED  BY <2>2
<1>3. CASE Replan(a)
  <2>1. PICK day : job' = [job EXCEPT ![a].at = IF job[a].call.backup /\ ConfFound
                                                  THEN "readconf" ELSE "disable",
                                      ![a].day = day]
    BY <1>3 DEF Replan
  <2>2. /\ job'[a].at \in {"readconf", "disable"}
        /\ job'[a].call = job[a].call
        /\ job'[a].at = "disable" => (job[a].call.backup => ~ConfFound)
    BY <1>0, <2>1 DEF JobRecord
  <2>3. ~ConfFound => ~conf.there
    BY <1>3 DEF Replan, Refusal, ConfFound
  <2>4. conf' = conf
    BY <1>3 DEF Replan, vars, files
  <2>. QED  BY <2>2, <2>3, <2>4 DEF BackedUp
<1>4. CASE ReadForBackup(a)
  <2>1. job'[a].at = "backup" /\ job'[a].copy = conf
    BY <1>0, <1>4 DEF ReadForBackup, JobRecord
  <2>2. conf' = conf
    BY <1>4 DEF ReadForBackup, vars, files
  <2>. QED  BY <2>1, <2>2
<1>5. CASE WriteBackup(a)
  <2>1. job'[a].at = "disable"
    BY <1>0, <1>5 DEF WriteBackup, JobRecord
  <2>2. conf' = conf
    BY <1>5 DEF WriteBackup, vars, files
  <2>3. job[a].day \in 1..LastDay
    BY <1>0, <1>5, DayAssumption DEF WriteBackup, JobRecord, LifeTypeInv, LifecycleTypeOK
  <2>4. backups'[job[a].day] = conf
    BY <1>5, <2>3 DEF WriteBackup, LifeTypeInv, LifecycleTypeOK
  <2>. QED  BY <2>1, <2>2, <2>3, <2>4 DEF BackedUp
<1>6. CASE Disable(a)
  <2>1. job'[a].at = "delconf" /\ job'[a].call = job[a].call
    BY <1>6, MoveWrites DEF Disable
  <2>2. UNCHANGED <<conf, backups>> /\ UnitDown'
    BY <1>6 DEF Disable, UnitDown, files
  <2>3. At(a, "disable")
    BY <1>6 DEF Disable, Advance
  <2>. QED  BY <2>1, <2>2, <2>3 DEF BackedUp
<1>7. CASE DisableFails(a)
  <2>1. job'[a].at = "delconf" /\ job'[a].call = job[a].call
        /\ job'[a].warned
    BY <1>7, MoveWrites DEF DisableFails
  <2>2. UNCHANGED <<conf, backups>>
    BY <1>7 DEF DisableFails, vars, files
  <2>3. At(a, "disable")
    BY <1>7 DEF DisableFails, Warn
  <2>. QED  BY <2>1, <2>2, <2>3 DEF BackedUp
<1>8. CASE DeleteConf(a)
  <2>1. job'[a].at = "delsidecar" /\ job'[a].warned = job[a].warned
    BY <1>8, MoveWrites DEF DeleteConf
  <2>2. UNCHANGED <<up, live>> /\ ~conf'.there
    BY <1>8 DEF DeleteConf, device, Absent, Unreadable
  <2>3. At(a, "delconf")
    BY <1>8 DEF DeleteConf, Advance
  <2>. QED  BY <2>1, <2>2, <2>3 DEF UnitDown
<1>9. CASE DeleteSidecar(a)
  <2>1. job'[a].at = "dellock" /\ job'[a].warned = job[a].warned
    BY <1>9, MoveWrites DEF DeleteSidecar
  <2>2. UNCHANGED <<up, live, conf>> /\ sidecar'.file = "absent"
    BY <1>9, SidecarAssumption DEF DeleteSidecar, device, files, NoSidecar, ServerConfig
  <2>3. At(a, "delsidecar")
    BY <1>9 DEF DeleteSidecar, Advance
  <2>. QED  BY <2>1, <2>2, <2>3 DEF UnitDown
<1>10. CASE DeleteFails(a) \/ DeleteLock(a)
  <2>1. CASE Warn(a, "delconf", "delsidecar")
    <3>1. job'[a].at = "delsidecar" /\ job'[a].warned
      BY <2>1, MoveWrites
    <3>. QED  BY <3>1
  <2>2. CASE Warn(a, "delsidecar", "dellock")
    <3>1. job'[a].at = "dellock" /\ job'[a].warned
      BY <2>2, MoveWrites
    <3>. QED  BY <3>1
  <2>3. CASE Finish(a, "dellock", "ok")
    <3>1. job'[a].at = "ok"
      BY <2>3, MoveWrites
    <3>. QED  BY <3>1
  <2>. QED  BY <1>10, <2>1, <2>2, <2>3 DEF DeleteFails, DeleteLock
<1>. QED
  BY <1>1, <1>2, <1>3, <1>4, <1>5, <1>6, <1>7, <1>8, <1>9, <1>10 DEF RemoveStep

LEMMA AloneNext ==
  LifeTypeInv /\ MeetInv /\ AloneInv /\ [LifecycleNext]_allVars => AloneInv'
<1> SUFFICES ASSUME LifeTypeInv, MeetInv, AloneInv, [LifecycleNext]_allVars,
                    NEW a \in Admin, Apart(a)', Working(a)'
             PROVE  Knows(a)'
  BY IdleKnowsThen DEF AloneInv
<1>1. Moves /\ Apart(a) /\ Knows(a)
  <2>1. a \in InProgress'
    BY DEF InProgress
  <2>. QED  BY <2>1, StepsMove, ApartBefore DEF AloneInv
<1>2. CASE Begin(a)
  <2>1. job'[a].at \in {"statconf", "plan", "replan", "bad_request"}
    BY <1>2, BeginJob DEF LifeTypeInv, LifecycleTypeOK, JobsOK, Dated, JobRecord
  <2>. QED  BY <2>1 DEF Knows, CopyIsCurrent, CopyIsKept, TornDown, At
<1>3. CASE AdminCrash(a)
  <2>1. job'[a].at = "dead"
    BY <1>3 DEF AdminCrash, Job, LifeTypeInv, LifecycleTypeOK
  <2>. QED  BY <2>1 DEF Knows, CopyIsCurrent, CopyIsKept, TornDown, At
<1>4. CASE ~AdminStep(a) /\ Working(a)
  <2>1. /\ job'[a] = job[a] /\ UNCHANGED <<conf, sidecar, up, backups>>
        /\ live' = live \/ up
    BY <1>1, <1>4, OthersLeave
  <2>. QED
    BY <1>1, <2>1
       DEF Knows, CopyIsCurrent, CopyIsKept, TornDown, At, BackedUp, UnitDown
<1>5. CASE ~AdminStep(a) /\ ~Working(a)
  <2>1. job'[a] = job[a]
    BY <1>1, <1>5, AdminFrame DEF Moves, OthersKeep, Midnight, lifecycle
  <2>. QED
    BY <1>5, <2>1
       DEF Working, Knows, CopyIsCurrent, CopyIsKept, TornDown, At, ProvideSteps,
           RemoveSteps
<1>. QED  BY <1>1, <1>2, <1>3, <1>4, <1>5, ProvideKnows, RemoveKnows DEF AdminStep

LEMMA AloneInvariant == LifecycleSpec => []AloneInv
<1>1. LifeInv /\ AloneInv /\ [LifecycleNext]_allVars => AloneInv'
  BY AloneNext DEF LifeInv
<1>. QED  BY <1>1, AloneInit, LifeInvariant, PTL DEF LifecycleSpec

RemovalStep(a) ==
  /\ DeleteLock(a) /\ Apart(a) /\ ~job[a].warned =>
       /\ ~conf'.there /\ sidecar'.file = "absent" /\ ~lockFile'.there
       /\ ~up' /\ live' = {}
  /\ PlanRefused(a) /\ job'[a].at = "not_found" /\ ~CustomPath =>
       ~conf.there /\ sidecar.file = "absent"

(* A remove that overlapped with nothing and warned of nothing leaves no    *)
(* .conf, sidecar, lock file or unit, whatever others left before it; and   *)
(* one that answers there is nothing to remove is right.                    *)
THEOREM RemovedForGoodHolds == LifecycleSpec => RemovedForGood
<1>1. ASSUME LifeInv, AloneInv, NEW a \in Admin, DeleteLock(a), Apart(a), ~job[a].warned
      PROVE  /\ ~conf'.there /\ sidecar'.file = "absent" /\ ~lockFile'.there
             /\ ~up' /\ live' = {}
  <2>1. UnitDown /\ ~conf.there /\ sidecar.file = "absent"
    BY <1>1 DEF AloneInv, Knows, TornDown, DeleteLock, Finish
  <2>2. UNCHANGED <<conf, sidecar, up, live>>
    BY <1>1 DEF DeleteLock, files, device
  <2>3. ~lockFile'.there
    BY <1>1 DEF DeleteLock, LifeInv, LifeTypeInv, LifecycleTypeOK, TypeOK
  <2>. QED  BY <2>1, <2>2, <2>3 DEF UnitDown
<1>2. ASSUME LifeInv, NEW a \in Admin, PlanRefused(a), job'[a].at = "not_found", ~CustomPath
      PROVE  ~conf.there /\ sidecar.file = "absent"
  <2>1. PICK step \in {"plan", "replan"}, status \in {Refusal, "internal"} \ {"none"} :
          Finish(a, step, status)
    BY <1>2 DEF PlanRefused
  <2>2. job'[a].at = status
    BY <1>2, <2>1, MoveWrites DEF LifeInv
  <2>. QED  BY <1>2, <2>1, <2>2 DEF Refusal, ConfFound
<1>3. LifeInv /\ AloneInv /\ [LifecycleNext]_allVars => [\A a \in Admin : RemovalStep(a)]_allVars
  BY <1>1, <1>2 DEF RemovalStep
<1>. QED
  BY <1>3, LifeInvariant, AloneInvariant, PTL DEF LifecycleSpec, RemovedForGood, RemovalStep

KeyStep(k) ==
  Kept(k) /\ ~Kept(k)' =>
    \/ \E a \in Admin :
         \/ WriteConf(a) /\ a \in near
         \/ WriteConf(a) /\ a \in beside /\ \E b \in Admin \ {a} : k = FreshKey[b]
         \/ WriteBackup(a) /\ backups[job[a].day].there
         \/ DeleteConf(a) /\ (~Apart(a) \/ ~job[a].call.backup)
    \/ \E p \in Proc : RenameTemp(p) /\ ~Apart(p)

LEMMA MissingHoldsNoKey ==
  ASSUME NEW c, Real(c), ~c.there, NEW k \in ServerKey
  PROVE  c.serverKey # k
BY AbsentType, MissingAssumption DEF Real

LEMMA KeyStays ==
  ASSUME LifeInv, AloneInv, [LifecycleNext]_allVars, NEW k \in ServerKey
  PROVE  KeyStep(k)
<1> SUFFICES ASSUME Kept(k), ~Kept(k)', ~KeyStep(k)
             PROVE  FALSE
  BY DEF KeyStep
<1> USE DEF Kept
<1>1. Moves /\ TypeInv /\ DOMAIN backups = 1..LastDay
  BY StepsMove DEF LifeInv, LifeTypeInv, LifecycleTypeOK, TypeInv
<1>2. ~UNCHANGED <<conf, backups>>
  OBVIOUS
<1>3. ASSUME NEW a \in Admin, WriteConf(a)  PROVE FALSE
  <2>1. conf.serverKey = k
    BY <1>3 DEF WriteConf
  <2>2. conf.there /\ Looking(a)
    BY <1>3, <2>1, MissingHoldsNoKey DEF LifeInv, MissingInv, WriteConf, Advance, Looking
  <2>. QED  BY <1>3, <2>1, <2>2 DEF LifeInv, FreshInv, FromAnother, KeyStep
<1>4. ASSUME NEW a \in Admin, DeleteConf(a)  PROVE FALSE
  <2>1. Apart(a) /\ job[a].call.backup
    BY <1>4 DEF KeyStep
  <2>2. BackedUp /\ backups' = backups
    BY <1>4, <2>1 DEF AloneInv, Knows, CopyIsKept, DeleteConf, Advance
  <2>3. conf.serverKey = k => conf.there
    BY MissingHoldsNoKey DEF LifeInv, MissingInv
  <2>. QED  BY <1>1, <2>2, <2>3 DEF BackedUp
<1>5. ASSUME NEW a \in Admin, WriteBackup(a)  PROVE FALSE
  <2>1. conf' = conf
    BY <1>5 DEF WriteBackup, vars, files
  <2>2. job[a].day \in 1..LastDay
    <3>1. job[a].day \in 0..LastDay /\ (At(a, "backup") => job[a].day # 0)
      BY DEF At, LifeInv, LifeTypeInv, LifecycleTypeOK
    <3>2. At(a, "backup")
      BY <1>5 DEF WriteBackup
    <3>3. job[a].day \in 0..LastDay /\ job[a].day # 0
      BY <3>1, <3>2
    <3>. QED  BY <3>3, DayAssumption
  <2>3. backups[job[a].day].serverKey # k
    BY <1>5, <2>2, MissingHoldsNoKey DEF KeyStep, LifeInv, MissingInv
  <2>4. \A d \in 1..LastDay : d # job[a].day => backups'[d] = backups[d]
    BY <1>1, <1>5 DEF WriteBackup
  <2>5. DOMAIN backups' = 1..LastDay
    BY <1>1, <1>5 DEF WriteBackup
  <2>. QED  BY <1>1, <2>1, <2>3, <2>4, <2>5
<1>6. ASSUME NEW a \in Admin, AdminStep(a)  PROVE FALSE
  BY <1>2, <1>3, <1>4, <1>5, <1>6, AdminWrites
<1>7. ASSUME NEW p \in Proc, ServerStep(p), UNCHANGED lifecycle  PROVE FALSE
  <2>1. RenameTemp(p) /\ backups' = backups
    BY <1>1, <1>2, <1>7, ServerFrame DEF lifecycle
  <2>2. Apart(p)
    BY <2>1 DEF KeyStep
  <2>3. Decided(p) /\ conf' = work[p] /\ conf \in Conf
    BY <1>1, <2>1, <2>2, RenamesInTouch DEF TypeInv, TypeOK
  <2>4. PICK peers : conf' = [conf EXCEPT !.peers = peers]
    BY <2>3 DEF Decided
  <2>5. conf'.serverKey = conf.serverKey
    BY <2>3, <2>4 DEF Conf
  <2>. QED  BY <2>1, <2>5
<1>8. ASSUME NEW p \in Proc, Start(p), UNCHANGED lifecycle  PROVE FALSE
  BY <1>1, <1>2, <1>8, StartFrame DEF lifecycle
<1>9. CASE Midnight \/ UNCHANGED <<vars, lifecycle>>
  BY <1>2, <1>9 DEF Midnight, vars, files, lifecycle
<1>10. CASE OrphanSync /\ UNCHANGED lifecycle
  BY <1>2, <1>10 DEF OrphanSync, files, lifecycle
<1>. QED  BY <1>1, <1>6, <1>7, <1>8, <1>9, <1>10 DEF Moves

(* The last copy of a private key goes only with a remove told to keep      *)
(* none, under a second backup of one day, or by a call that was itself     *)
(* overlapped, whatever overlapped, was killed or refused before; and a     *)
(* provide that met no peer operation beside another call can replace no    *)
(* key but one another provide generated.                                   *)
THEOREM KeyNotDroppedHolds == LifecycleSpec => KeyNotDropped
<1>1. LifeInv /\ AloneInv /\ [LifecycleNext]_allVars =>
        [\A k \in ServerKey : KeyStep(k)]_allVars
  BY KeyStays
<1>. QED
  BY <1>1, LifeInvariant, AloneInvariant, PTL DEF LifecycleSpec, KeyNotDropped, KeyStep

=============================================================================
