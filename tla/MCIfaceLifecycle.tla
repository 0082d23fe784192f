-------------------------- MODULE MCIfaceLifecycle --------------------------
(* Finite instances of IfaceLifecycle: two calls and peer operations.       *)
EXTENDS IfaceLifecycle, TLC

CONSTANTS p1, p2, a1, a2, alice, bob, k0, k1, s0, wan

Labels == {alice, bob}
Keys == {k0, k1}
Addrs == 1..2
Endpoints == {wan}
Procs == {p1, p2}
Admins == {a1, a2}
CallSymmetry == Permutations(Admins) \cup Permutations(Procs)

(* The key a provide would generate bears the name of the provide.          *)
FreshKeys == [a \in Admins |-> a]
ServerKeys == {s0} \cup Admins

AddAlice == [op |-> "add", name |-> alice, newName |-> NoName, key |-> k1, endpoint |-> wan]
PeerRequests == {AddAlice}

Menu == [file |-> "loads", endpoints |-> <<wan>>, parses |-> TRUE, v4 |-> TRUE,
         pool |-> {1, 2}, reserved |-> {}]
AllSidecars == {[Menu EXCEPT !.file = f] : f \in {"loads", "absent", "broken", "incomplete"}}

Running0 == [there |-> TRUE, readable |-> TRUE, serverKey |-> s0,
             peers |-> <<[name |-> bob, key |-> k0, ips |-> {1}, extra |-> FALSE]>>]
OneFile == {Running0}
OneOrNone == {Running0, Absent}

Ask(op, valid, isUp, asks, backup) ==
  [op |-> op, valid |-> valid, up |-> isUp, asks |-> asks, backup |-> backup]
(* A provide; a remove that is mistyped, one that asks and backs up, one that *)
(* does neither.                                                            *)
Removals ==
  {Ask("remove", FALSE, FALSE, TRUE, TRUE), Ask("remove", TRUE, FALSE, TRUE, TRUE),
   Ask("remove", TRUE, FALSE, FALSE, FALSE)}
AllCalls == Removals \cup {Ask("provide", TRUE, TRUE, FALSE, FALSE)}

(* What guards and properties still read of a state: not the memory of a    *)
(* process or call that is over, nor the files a power loss would leave.    *)
LiveMemory == [p \in Proc |->
  IF Running(p)
    THEN <<pc[p], fd[p], holds[p], expired[p], req[p], cfg[p], tmp[p], work[p], stripped[p],
           outcome[p]>>
    ELSE <<pc[p] = "new">>]
LiveJobs == [a \in Admin |-> IF Working(a) \/ At(a, "new") THEN job[a] ELSE NoCall]
StillRead == <<sidecar, conf, live, orphans, lockFile, LiveMemory, up, backups, today,
               LiveJobs, beside, near>>
=============================================================================
