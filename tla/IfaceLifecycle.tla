--------------------------- MODULE IfaceLifecycle ---------------------------
(***************************************************************************)
(* `wgpeer server provide wgN` and `wgpeer server remove wgN`, beside the  *)
(* peer operations of PeerServer, on the same .conf, sidecar, lock file    *)
(* and device. Neither takes the lock: what protects an interface is the   *)
(* order in which files are looked at, written and deleted.                *)
(*                                                                         *)
(* External: systemd and wg-quick (the unit wg-quick@wgN), the file system.*)
(* Abstracted: the settings of a new interface (address, port, menu), the  *)
(* reports on stderr. An atomicWrite is one step here: PeerServer takes it *)
(* apart. Power losses are left to PeerServer too; a killed process is not.*)
(***************************************************************************)
EXTENDS PeerServer

CONSTANTS Admin,      \* invocations of provide and remove
          Calls,      \* command lines they may carry
          Provided,   \* the sidecar a provide writes
          FreshKey,   \* the private key each provide would generate
          LastDay,    \* bound on the calendar
          MaxAtOnce,  \* bound on callers in progress at one time
          CustomPath  \* whether the sidecar's conf_path is unconventional

NoSidecar == [Provided EXCEPT !.file = "absent"]

Call ==
  [op: {"provide", "remove"},
   valid: BOOLEAN,   \* interface name, flags, endpoints, terminal: all in order
   up: BOOLEAN,      \* provide without --no-up
   asks: BOOLEAN,    \* remove without --yes
   backup: BOOLEAN]  \* remove without --no-backup

ASSUME CallAssumption == Calls \subseteq Call
ASSUME SidecarAssumption ==
  /\ Provided \in Configs /\ Provided.file = "loads"
  /\ NoSidecar \in Configs
ASSUME ActorAssumption == Admin \cap Proc = {}
ASSUME MissingAssumption ==
  /\ NoServerKey \notin ServerKey
  /\ \A f \in Files : ~f.there => f = Absent
ASSUME FreshKeyAssumption == FreshKey \in [Admin -> ServerKey]
ASSUME DayAssumption == LastDay \in Nat \ {0}
ASSUME CrowdAssumption == MaxAtOnce \in Nat \ {0}
(* provide only knows the conventional path: with it, keep to that one.    *)
ASSUME PathAssumption ==
  CustomPath \in BOOLEAN /\ (CustomPath => \A c \in Calls : c.op = "remove")

VARIABLES
  up,       \* the unit wg-quick@wgN is enabled and its interface exists
  backups,  \* per day: the file conf_path.bak-<day>
  today,
  job,      \* per invocation: its next step or its answer, and its memory
  beside,   \* history: callers in progress that overlapped with a provide or remove
  near      \* history: those that overlapped with a peer operation that is beside one

lifecycle == <<up, backups, today, job>>
allVars == <<vars, lifecycle, beside, near>>
server == <<powerLosses, locks, pc, memory, outcome>>

ProvideSteps == {"statconf", "statsidecar", "writeconf", "writesidecar", "enable"}
RemoveSteps == {"plan", "confirm", "replan", "readconf", "backup", "disable",
                "delconf", "delsidecar", "dellock"}
Answers == {"new", "ok", "bad_request", "internal", "not_found", "cancelled", "dead"}

(* at: the next step, or else the status answered, or "new" or "dead".     *)
(* call: the command line; day: what the plan stamps the backup with, 0 for *)
(* none; copy: the .conf as read for it; warned: a best-effort step failed. *)
Job(at, line) == [at |-> at, call |-> line, day |-> 0, copy |-> Absent, warned |-> FALSE]
NoCall == [op |-> "remove", valid |-> FALSE, up |-> FALSE, asks |-> TRUE, backup |-> TRUE]

Working(a) == job[a].at \in ProvideSteps \cup RemoveSteps
InProgress == {a \in Admin : Working(a)} \cup {p \in Proc : Running(p)}
MoreMayStart == Cardinality(InProgress) < MaxAtOnce

At(a, step) == job[a].at = step
Advance(a, from, to) == At(a, from) /\ job' = [job EXCEPT ![a].at = to]
Finish(a, from, answer) == At(a, from) /\ job' = [job EXCEPT ![a] = Job(answer, NoCall)]
Warn(a, from, to) == At(a, from) /\ job' = [job EXCEPT ![a].at = to, ![a].warned = TRUE]

LifecycleInit ==
  /\ Init
  /\ CustomPath => sidecar.file = "loads"   \* else nothing points there
  /\ up = conf.there
  /\ backups = [d \in 1..LastDay |-> Absent]
  /\ today = 1
  /\ job = [a \in Admin |-> Job("new", NoCall)]
  /\ beside = {} /\ near = {}

(* Flags are parsed and validated before anything is looked at.            *)
Begin(a) ==
  /\ At(a, "new") /\ MoreMayStart
  /\ \E line \in Calls :
       job' = [job EXCEPT ![a] =
                 IF line.valid
                   THEN Job(CASE line.op = "provide" -> "statconf"
                              [] line.op = "remove" /\ line.asks -> "plan"
                              [] line.op = "remove" /\ ~line.asks -> "replan", line)
                   ELSE Job("bad_request", NoCall)]
  /\ UNCHANGED <<vars, up, backups, today>>

(***************************************************************************)
(* Provide. Both stats come before both writes; nothing is held between.   *)
(***************************************************************************)
StatConf(a) ==
  /\ IF conf.there THEN Finish(a, "statconf", "bad_request")
                   ELSE Advance(a, "statconf", "statsidecar")
  /\ UNCHANGED <<vars, up, backups, today>>

StatSidecar(a) ==
  /\ IF sidecar.file # "absent" THEN Finish(a, "statsidecar", "bad_request")
                                ELSE Advance(a, "statsidecar", "writeconf")
  /\ UNCHANGED <<vars, up, backups, today>>

WriteConf(a) ==
  /\ Advance(a, "writeconf", "writesidecar")
  /\ conf' = [there |-> TRUE, readable |-> TRUE, serverKey |-> FreshKey[a], peers |-> <<>>]
  /\ survivors' = {conf'}
  /\ UNCHANGED <<sidecar, device, server, up, backups, today>>

WriteSidecar(a) ==
  /\ Advance(a, "writesidecar", "enable")
  /\ sidecar' = Provided
  /\ UNCHANGED <<files, device, server, up, backups, today>>

(* `systemctl enable --now`: nothing to start when the unit is running.    *)
Enable(a) ==
  /\ job[a].call.up => up \/ conf.readable
  /\ Finish(a, "enable", "ok")
  /\ up' = (up \/ job[a].call.up)
  /\ live' = IF up' = up THEN live ELSE DeviceView(conf.peers)
  /\ UNCHANGED <<sidecar, files, orphans, server, backups, today>>

(* A stat, the key, a directory, a write or the unit fails: what was        *)
(* written so far stays.                                                    *)
ProvideFails(a) ==
  /\ \/ \E step \in {"statconf", "statsidecar"} : Finish(a, step, "bad_request")
     \/ \E step \in {"writeconf", "writesidecar"} : Finish(a, step, "internal")
     \/ job[a].call.up /\ Finish(a, "enable", "internal")
  /\ UNCHANGED <<vars, up, backups, today>>

(***************************************************************************)
(* Remove: plan, confirm, plan again, back up, disable, delete.            *)
(***************************************************************************)
(* Plan: without a sidecar, only the conventional path is looked at. A      *)
(* sidecar that parses is enough, whether or not the peer operations load   *)
(* it; one that names no conf_path stands for the conventional path too.    *)
ConfFound == conf.there /\ (sidecar.file = "absent" => ~CustomPath)
Refusal == IF sidecar.file = "broken" THEN "internal"
           ELSE IF sidecar.file = "absent" /\ ~ConfFound THEN "not_found" ELSE "none"

ShowPlan(a) ==
  /\ Refusal = "none"
  /\ Advance(a, "plan", "confirm")
  /\ UNCHANGED <<vars, up, backups, today>>

Confirm(a) ==
  /\ Advance(a, "confirm", "replan") \/ Finish(a, "confirm", "cancelled")
  /\ UNCHANGED <<vars, up, backups, today>>

(* Mutant: the second plan is not stamped with a day. *)
ReplanUnstamped(a) ==
  /\ Refusal = "none"
  /\ At(a, "replan")
  /\ job' = [job EXCEPT ![a].at = IF job[a].call.backup /\ ConfFound
                                    THEN "readconf" ELSE "disable"]
  /\ UNCHANGED <<vars, up, backups, today>>

(* Remove computes the plan anew, with the date of that moment.            *)
Replan(a) ==
  LET copies == job[a].call.backup /\ ConfFound
  IN /\ Refusal = "none"
     /\ At(a, "replan")
     /\ job' = [job EXCEPT ![a].at = IF copies THEN "readconf" ELSE "disable",
                           ![a].day = IF copies THEN today ELSE 0]
     /\ UNCHANGED <<vars, up, backups, today>>

(* Either plan: nothing to remove, a broken sidecar, or a stat that fails. *)
PlanRefused(a) ==
  /\ \E step \in {"plan", "replan"} :
       \E status \in {Refusal, "internal"} \ {"none"} : Finish(a, step, status)
  /\ UNCHANGED <<vars, up, backups, today>>

ReadForBackup(a) ==
  /\ conf.there
  /\ At(a, "readconf")
  /\ job' = [job EXCEPT ![a].at = "backup", ![a].copy = conf]
  /\ UNCHANGED <<vars, up, backups, today>>

WriteBackup(a) ==
  /\ At(a, "backup")
  /\ backups' = [backups EXCEPT ![job[a].day] = job[a].copy]
  /\ job' = [job EXCEPT ![a].at = "disable", ![a].day = 0, ![a].copy = Absent]
  /\ UNCHANGED <<vars, up, today>>

(* Mutant: the backup, too, is best effort.                                *)
BackupFailsSoftly(a) ==
  /\ \E step \in {"readconf", "backup"} : Warn(a, step, "disable")
  /\ UNCHANGED <<vars, up, backups, today>>

BackupFails(a) ==
  /\ \E step \in {"readconf", "backup"} : Finish(a, step, "internal")
  /\ UNCHANGED <<vars, up, backups, today>>

(* `systemctl disable --now` runs `wg-quick down`, which reads the .conf.  *)
Disable(a) ==
  /\ up => conf.there
  /\ Advance(a, "disable", "delconf")
  /\ up' = FALSE
  /\ live' = {}
  /\ UNCHANGED <<sidecar, files, orphans, server, backups, today>>

DisableFails(a) ==
  /\ Warn(a, "disable", "delconf")
  /\ UNCHANGED <<vars, up, backups, today>>

DeleteConf(a) ==
  /\ Advance(a, "delconf", "delsidecar")
  /\ conf' = Absent
  /\ survivors' = survivors \cup {Absent}
  /\ UNCHANGED <<sidecar, device, server, up, backups, today>>

DeleteSidecar(a) ==
  /\ Advance(a, "delsidecar", "dellock")
  /\ sidecar' = NoSidecar
  /\ UNCHANGED <<files, device, server, up, backups, today>>

DeleteLock(a) ==
  /\ Finish(a, "dellock", "ok")
  /\ lockFile' = [lockFile EXCEPT !.there = FALSE]
  /\ UNCHANGED <<sidecar, files, device, powerLosses, fd, holds, expired, pc, memory, outcome,
                 up, backups, today>>

(* Mutant: a deletion that fails is not mentioned in the report.           *)
DeleteFailsSilently(a) ==
  /\ \/ Advance(a, "delconf", "delsidecar")
     \/ Advance(a, "delsidecar", "dellock")
     \/ Finish(a, "dellock", "ok")
  /\ UNCHANGED <<vars, up, backups, today>>

DeleteFails(a) ==
  /\ \/ Warn(a, "delconf", "delsidecar")
     \/ Warn(a, "delsidecar", "dellock")
     \/ Finish(a, "dellock", "ok")
  /\ UNCHANGED <<vars, up, backups, today>>

AdminCrash(a) ==
  /\ Working(a)
  /\ job' = [job EXCEPT ![a] = Job("dead", NoCall)]
  /\ UNCHANGED <<vars, up, backups, today>>

Midnight ==
  /\ today < LastDay
  /\ today' = today + 1
  /\ UNCHANGED <<vars, up, backups, job>>

(* The peer operations go on meanwhile; wg syncconf needs the interface.   *)
PeerStep ==
  /\ \/ \E p \in Proc : \/ (MoreMayStart /\ Start(p))
                        \/ OwnStep(p) \/ Strip(p) \/ (up /\ SyncDevice(p)) \/ ApplyFails(p)
                        \/ DeadlinePasses(p) \/ Crash(p)
     \/ up /\ OrphanSync
  /\ UNCHANGED lifecycle

AllFinished ==
  /\ InProgress = {} /\ \A p \in Proc : pc[p] # "new"
  /\ \A a \in Admin : ~At(a, "new")
  /\ UNCHANGED <<vars, lifecycle>>

ProvideStep(a) == \/ StatConf(a) \/ StatSidecar(a) \/ WriteConf(a) \/ WriteSidecar(a)
                  \/ Enable(a) \/ ProvideFails(a)
RemoveStep(a) == \/ ShowPlan(a) \/ Confirm(a) \/ Replan(a) \/ PlanRefused(a)
                 \/ ReadForBackup(a) \/ WriteBackup(a) \/ BackupFails(a)
                 \/ Disable(a) \/ DisableFails(a)
                 \/ DeleteConf(a) \/ DeleteSidecar(a) \/ DeleteLock(a) \/ DeleteFails(a)

(* Who overlaps with whom; forgotten when a caller ends. No step reads it.  *)
Overlaps ==
  /\ beside' = {x \in InProgress' : x \in beside \/ Admin \cap InProgress' \notin {{}, {x}}}
  /\ near' = {x \in InProgress' : x \in near \/ Proc \cap beside' \notin {{}, {x}}}

LifecycleNext ==
  /\ \/ \E a \in Admin : Begin(a) \/ ProvideStep(a) \/ RemoveStep(a) \/ AdminCrash(a)
     \/ Midnight \/ PeerStep \/ AllFinished
  /\ Overlaps

LifecycleSpec == LifecycleInit /\ [][LifecycleNext]_allVars

-----------------------------------------------------------------------------
(* Types of the variables this module adds to the server's; a plan that    *)
(* copies has stamped its copy with a day.                                 *)
LifecycleTypeOK ==
  /\ TypeOK
  /\ up \in BOOLEAN
  /\ backups \in [1..LastDay -> Conf]
  /\ today \in 1..LastDay
  /\ job \in [Admin -> [at: ProvideSteps \cup RemoveSteps \cup Answers,
                       call: Calls \cup {NoCall}, day: 0..LastDay,
                       copy: Conf, warned: BOOLEAN]]
  /\ \A a \in Admin : job[a].at \in {"readconf", "backup"} => job[a].day # 0
  /\ beside \subseteq InProgress /\ near \subseteq InProgress

Kept(k) == conf.serverKey = k \/ \E d \in DOMAIN backups : backups[d].serverKey = k

(* Of a provide or remove: it ran alone. Of a peer operation: it overlapped *)
(* with no provide or remove, nor with a peer operation that did.           *)
Apart(x) == x \notin beside \cup near

(* README.md:165-167: the private key lives only in the .conf. Whatever was *)
(* crashed, refused, half removed or overlapped before, the call that loses *)
(* the last copy of a key is a remove told to keep none, a second backup on *)
(* one day, which takes the first one's name, or a call that was itself     *)
(* overlapped; a provide overlapped by no peer operation that met another   *)
(* call loses no key but one another provide has just generated.            *)
KeyNotDropped ==
  [][\A k \in ServerKey : Kept(k) /\ ~Kept(k)' =>
       \/ \E a \in Admin :
            \/ WriteConf(a) /\ a \in near
            \/ WriteConf(a) /\ a \in beside /\ \E b \in Admin \ {a} : k = FreshKey[b]
            \/ WriteBackup(a) /\ backups[job[a].day].there
            \/ DeleteConf(a) /\ (~Apart(a) \/ ~job[a].call.backup)
       \/ \E p \in Proc : RenameTemp(p) /\ ~Apart(p)]_allVars

(* A remove that ran alone and reports nothing leaves nothing: no .conf,    *)
(* sidecar, lock file or unit, whatever crashed or failed calls left before.*)
(* One that finds nothing to remove is right, as far as it knows the path.  *)
RemovedForGood ==
  [][\A a \in Admin :
       /\ DeleteLock(a) /\ Apart(a) /\ ~job[a].warned =>
            /\ ~conf'.there /\ sidecar'.file = "absent" /\ ~lockFile'.there
            /\ ~up' /\ live' = {}
       /\ PlanRefused(a) /\ job'[a].at = "not_found" /\ ~CustomPath =>
            ~conf.there /\ sidecar.file = "absent"]_allVars

(* A peer operation replaces the .conf of the interface as it is, by the    *)
(* edit its sidecar and its peers allow, unless a provide or remove, or a   *)
(* peer operation that met one, overlapped with it. An operation that met a *)
(* remove may work on an interface that is gone, under a lock file that is  *)
(* deleted and keeps nobody out who comes later: it may disturb those it    *)
(* overlaps with, and no one further away.                                  *)
PeersKeepInterface ==
  [][\A p \in Proc : RenameTemp(p) /\ Apart(p) =>
       /\ conf.there /\ conf.readable /\ cfg[p] = sidecar
       /\ Verdict(req[p], sidecar, Parse(conf.peers)) = "ok"
       /\ conf' = [conf EXCEPT !.peers = Edit(req[p], sidecar, Parse(conf.peers))]]_allVars

(* README.md:167-169: "the deletes are best-effort [...] so a partial prior *)
(* teardown still converges": what a teardown left can be found by another. *)
LeftoverFound == InProgress = {} /\ conf.there => ConfFound
=============================================================================
