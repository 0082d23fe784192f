----------------------------- MODULE AddressScan -----------------------------
(***************************************************************************)
(* The loop of Conf.AllocateIP (internal/wgconf/alloc.go), address by      *)
(* address. PeerList.AllocateIP is what it is used for: the least address  *)
(* of the subnet's hosts that is neither reserved nor in an AllowedIPs.    *)
(*                                                                         *)
(* netip.Addr.Next of the highest address is the zero Addr, which compares *)
(* less than every address; addresses are Width bits wide (32 in the code).*)
(***************************************************************************)
EXTENDS PeerList, Integers

CONSTANTS Width,     \* bits of an address
          Subnets,   \* subnets a sidecar may name: an address and prefix bits
          Reserves,  \* reserved lists a sidecar may name
          PeerLists  \* peer lists the .conf may hold

ASSUME WidthAssumption == Width \in Nat

PowerOfTwo[n \in 0..Width] == IF n = 0 THEN 1 ELSE 2 * PowerOfTwo[n - 1]

(* How many addresses a subnet with so many prefix bits has. *)
Size(bits) == PowerOfTwo[Width - bits]
Top == Size(0) - 1
Invalid == -1                                       \* the zero netip.Addr

ASSUME SubnetAssumption ==
  /\ Subnets \subseteq [addr: 0..Top, bits: 0..Width]
  /\ Reserves \subseteq SUBSET Addr
  /\ PeerLists \subseteq Seq(Peer)

(* Mutant: uint32 arithmetic instead of netip's. *)
NextAddrWraps(a) == (a + 1) % Size(0)

NextAddr(a) == IF a = Top THEN Invalid ELSE a + 1

Masked(s) == s.addr - (s.addr % Size(s.bits))
LastAddr(s) == Masked(s) + Size(s.bits) - 1

(* /31 and /32 have no network and broadcast address to skip. *)
PointToPoint(s) == s.bits >= Width - 1
FirstHost(s) == IF PointToPoint(s) THEN Masked(s) ELSE NextAddr(Masked(s))

(* Mutant: the broadcast address is not skipped. *)
LastIncluded(s) == LastAddr(s)

LastHost(s) == IF PointToPoint(s) THEN LastAddr(s) ELSE LastAddr(s) - 1

(* Mutant: a /31 is not too small. *)
TooSmallOffByOne(s) == s.bits > Width - 1

(* What Provide makes of --net and --address before anything is written: it *)
(* refuses a subnet or an address, or writes the server's address as the    *)
(* only reserved one. "given" is Invalid without --address.                 *)
TooSmall(s) == s.bits > Width - 2
ServerAddress(s, given) == IF given = Invalid THEN NextAddr(Masked(s)) ELSE given
Covers(s, a) == Masked(s) <= a /\ a <= LastAddr(s)
Provided(s, given) ==
  /\ ~TooSmall(s)
  /\ given # Invalid => Covers(s, given)

VARIABLES subnet, reserved, peers,
          cur,     \* the address the loop looks at
          status   \* "scanning", "found" or "no_free_ip"

vars == <<subnet, reserved, peers, cur, status>>

Init ==
  /\ subnet \in Subnets
  /\ reserved \in Reserves
  /\ peers \in PeerLists
  /\ cur = FirstHost(subnet)
  /\ status = "scanning"

Taken == cur \in reserved \cup Occupied(peers)
Inside == status = "scanning" /\ cur <= LastHost(subnet)

Advance ==
  /\ Inside /\ Taken
  /\ cur' = NextAddr(cur)
  /\ UNCHANGED <<subnet, reserved, peers, status>>

HandOut ==
  /\ Inside /\ ~Taken
  /\ status' = "found"
  /\ UNCHANGED <<subnet, reserved, peers, cur>>

Exhaust ==
  /\ status = "scanning" /\ cur > LastHost(subnet)
  /\ status' = "no_free_ip"
  /\ UNCHANGED <<subnet, reserved, peers, cur>>

Finished == status # "scanning" /\ UNCHANGED vars

Next == Advance \/ HandOut \/ Exhaust \/ Finished

Spec == Init /\ [][Next]_vars
FairSpec == Spec /\ WF_vars(Next)

-----------------------------------------------------------------------------
(* The addresses a subnet has for peers. *)
Hosts(s) ==
  LET all == {a \in 0..Top : Covers(s, a)}
  IN IF PointToPoint(s) THEN all ELSE all \ {Masked(s), LastAddr(s)}

BelowTop(s) == LastHost(s) < Top

(* The loop answers as PeerList says, for every subnet whose last host is   *)
(* not the highest address there is: the least free host, or no_free_ip if  *)
(* and only if none is free (alloc.go:12-17).                               *)
AnswersLeastFree ==
  BelowTop(subnet) =>
    /\ status = "found" => /\ Free(peers, Hosts(subnet), reserved) # {}
                           /\ cur = AllocateIP(peers, Hosts(subnet), reserved)
    /\ status = "no_free_ip" => Free(peers, Hosts(subnet), reserved) = {}

(* The loop ends, also where Next runs off the address space.               *)
ScanEnds == <>(status # "scanning")

(* On an interface provide made, whatever --net and --address it accepted   *)
(* (the network and the broadcast address too), a peer gets a host of the   *)
(* subnet that is not the server's address, there is one for at least one   *)
(* peer, and no_free_ip means that peers hold every other host              *)
(* (provide.go:88-104, alloc.go:29-42).                                     *)
ProvidedPoolIsSound ==
  \A given \in 0..Top \cup {Invalid} :
    LET server == ServerAddress(subnet, given)
        pool == Hosts(subnet) \ {server}
    IN Provided(subnet, given) /\ reserved = {server} =>
         /\ pool # {}
         /\ status = "found" => cur \in pool \ Occupied(peers)
         /\ status = "no_free_ip" => pool \subseteq Occupied(peers)

(* alloc.go:9: "ErrNoFreeIP is returned by AllocateIP when the subnet is    *)
(* exhausted".                                                              *)
ExhaustionReported ==
  Free(peers, Hosts(subnet), reserved) = {} => status # "found"
=============================================================================
