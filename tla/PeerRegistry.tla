---------------------------- MODULE PeerRegistry ----------------------------
(***************************************************************************)
(* What `wgpeer server` promises a caller, with no lock, temporary file or *)
(* device in sight: one list of labelled peers on which every operation    *)
(* has its whole effect in one instant between its call and its answer; a  *)
(* refusal has no effect and was justified by the list at some instant of  *)
(* the call; an effect is on disk before the operation is answered; and a  *)
(* power loss returns the list to a value it really had.                   *)
(***************************************************************************)
EXTENDS PeerList

CONSTANTS Proc,           \* invocations of the server, one operation each
          Requests,       \* requests callers send
          NoRequest,      \* the request of an invocation not made yet
          DirSyncMayFail  \* whether a directory fsync may silently do nothing

VARIABLES
  avail,   \* the addresses the interface may hand out
  reg,     \* the peers, in file order
  disk,    \* the lists a power loss may leave behind
  phase,   \* how far each invocation is
  want,    \* the request of each invocation
  verdict  \* the status its answer will carry, once decided

vars == <<avail, reg, disk, phase, want, verdict>>

Phases == {"idle", "called", "effected", "saved", "decided", "answered", "dead"}
Refusals == {"name_taken", "no_free_ip", "not_found", "locked", "bad_request"}

Moves(p, from, to) ==
  /\ phase[p] = from
  /\ phase' = [phase EXCEPT ![p] = to]

Init ==
  /\ reg \in Seq(Peer)
  /\ disk = {reg}
  /\ phase = [p \in Proc |-> "idle"]
  /\ want = [p \in Proc |-> NoRequest]
  /\ verdict = [p \in Proc |-> "none"]

Call(p) ==
  /\ Moves(p, "idle", "called")
  /\ \E r \in Requests : want' = [want EXCEPT ![p] = r]
  /\ UNCHANGED <<avail, reg, disk, verdict>>

(* The states of the list in which a verdict without effect is the truth. *)
Justified(v, r, peers) ==
  CASE v = "ok"         -> r.op = "list"
    [] v = "name_taken" ->
         \/ r.op = "add" /\ Named(peers, r.name) # {}
         \/ r.op = "rename" /\ r.newName # r.name /\ Named(peers, r.newName) # {}
    [] v = "no_free_ip" -> r.op = "add" /\ Free(peers, avail, {}) = {}
    [] v = "not_found"  -> r.op \in {"kill", "rename"} /\ Named(peers, r.name) = {}
    [] v = "locked"     -> r.op # "list"
    [] OTHER            -> TRUE

Judge(p) ==
  /\ Moves(p, "called", "decided")
  /\ \E v \in Refusals \cup {"ok", "internal"} :
       /\ Justified(v, want[p], reg)
       /\ verdict' = [verdict EXCEPT ![p] = v]
  /\ UNCHANGED <<avail, reg, disk, want>>

(* The lists an accepted request may turn a list into. *)
Effects(r, peers) ==
  CASE r.op = "add" /\ r.name \in ValidLabel /\ Named(peers, r.name) = {} ->
         {Append(peers, [name |-> r.name, key |-> r.key, ips |-> {a}, extra |-> FALSE]) :
            a \in Free(peers, avail, {})}
    [] r.op = "kill" /\ r.name # NoName ->
         {RemoveAt(peers, i) : i \in Named(peers, r.name)}
    [] r.op = "rename" /\ r.name # NoName /\ r.newName \in ValidLabel
         /\ (r.newName = r.name \/ Named(peers, r.newName) = {}) ->
         {[peers EXCEPT ![i].name = r.newName] : i \in Named(peers, r.name)}
    [] OTHER -> {}

Effect(p) ==
  /\ Moves(p, "called", "effected")
  /\ reg' \in Effects(want[p], reg)
  /\ disk' = disk \cup {reg'}
  /\ UNCHANGED <<avail, want, verdict>>

(* An operation that has nothing to tell the device is answered right away. *)
Save(p) ==
  /\ \/ Moves(p, "effected", "saved") /\ UNCHANGED verdict
     \/ Moves(p, "effected", "decided") /\ verdict' = [verdict EXCEPT ![p] = "ok"]
  /\ \/ disk' = {reg}
     \/ DirSyncMayFail /\ UNCHANGED disk
  /\ UNCHANGED <<avail, reg, want>>

(* "internal" after the effect: the file is updated, the device may not be. *)
Settle(p) ==
  /\ Moves(p, "saved", "decided")
  /\ \E v \in {"ok", "internal"} : verdict' = [verdict EXCEPT ![p] = v]
  /\ UNCHANGED <<avail, reg, disk, want>>

Answer(p) ==
  /\ Moves(p, "decided", "answered")
  /\ UNCHANGED <<avail, reg, disk, want, verdict>>

Die(p) ==
  /\ phase[p] \notin {"idle", "answered", "dead"}
  /\ phase' = [phase EXCEPT ![p] = "dead"]
  /\ UNCHANGED <<avail, reg, disk, want, verdict>>

PowerLoss ==
  /\ \E kept \in disk : reg' = kept /\ disk' = {kept}
  /\ phase' = [p \in Proc |-> IF phase[p] \in {"idle", "answered"} THEN phase[p] ELSE "dead"]
  /\ UNCHANGED <<avail, want, verdict>>

Next ==
  \/ \E p \in Proc : \/ Call(p) \/ Judge(p) \/ Effect(p) \/ Save(p)
                     \/ Settle(p) \/ Answer(p) \/ Die(p)
  \/ PowerLoss

Spec == Init /\ [][Next]_vars
=============================================================================
