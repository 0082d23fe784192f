--------------------------- MODULE AddressScanProof ---------------------------
(***************************************************************************)
(* AllocateIP is right for every address width, subnet and peer list.      *)
(***************************************************************************)
EXTENDS AddressScan, PeerListProof, Induction

Segment(s) == {a \in Nat : FirstHost(s) <= a /\ a <= LastHost(s)}

(* Everything the loop has passed is taken; it hands out what it looks at.  *)
ScanInv ==
  /\ subnet \in Subnets
  /\ status \in {"scanning", "found", "no_free_ip"}
  /\ BelowTop(subnet) =>
       /\ cur \in Nat /\ FirstHost(subnet) <= cur
       /\ \A a \in Segment(subnet) : a < cur => a \in reserved \cup Occupied(peers)
       /\ status = "found" => cur <= LastHost(subnet) /\ ~Taken
       /\ status = "no_free_ip" => LastHost(subnet) < cur

(* PowerOfTwo is the function its equation defines.                         *)
LEMMA PowerEquation ==
  /\ PowerOfTwo \in [0..Width -> Nat \ {0}]
  /\ PowerOfTwo[0] = 1
  /\ \A n \in 1..Width : PowerOfTwo[n] = 2 * PowerOfTwo[n - 1]
<1> DEFINE V == Nat \ {0}
           double == [i \in 1..Width |-> [x \in V |-> 2 * x]]
           Step(f) == [n \in 0..Width |-> IF n = 0 THEN 1 ELSE 2 * f[n - 1]]
<1>1. Width \in Nat /\ 1 \in V /\ double \in [1..Width -> [V -> V]]
  BY WidthAssumption
<1>2. PICK f \in [0..Width -> V] : f[0] = 1 /\ \A n \in 1..Width : f[n] = double[n][f[n - 1]]
  <2> HIDE DEF V, double
  <2>. QED  BY <1>1, RecursionExists
<1>3. \A n \in 1..Width : f[n] = 2 * f[n - 1]
  <2> TAKE n \in 1..Width
  <2>1. f[n - 1] \in V
    BY <1>1
  <2>. QED  BY <1>2, <2>1
<1>4. f = Step(f)
  <2>1. \A n \in 0..Width : f[n] = Step(f)[n]
    BY <1>1, <1>2, <1>3
  <2>. QED  BY <2>1
<1>5. PowerOfTwo = Step(PowerOfTwo)
  BY <1>4 DEF PowerOfTwo
<1> DEFINE T == {n \in 0..Width : PowerOfTwo[n] \in V}
<1>6. PowerOfTwo[0] = 1 /\ \A n \in 1..Width : PowerOfTwo[n] = 2 * PowerOfTwo[n - 1]
  BY <1>1, <1>5
<1>7. 0 \in T
  BY <1>1, <1>6
<1>8. ASSUME NEW n \in 0..(Width - 1), n \in T  PROVE n + 1 \in T
  <2>1. n + 1 \in 1..Width /\ (n + 1) - 1 = n
    BY <1>1
  <2>2. PowerOfTwo[n + 1] = 2 * PowerOfTwo[n] /\ PowerOfTwo[n] \in V
    BY <2>1, <1>6, <1>8
  <2>. QED  BY <1>1, <2>1, <2>2
<1>9. \A n \in 0..Width : n \in T
  <2> HIDE DEF T
  <2>. QED  BY <1>1, <1>7, <1>8, IntervalInduct
<1>10. PowerOfTwo \in [0..Width -> V]
  BY <1>5, <1>9
<1>. QED  BY <1>6, <1>10

LEMMA SizeProperties ==
  ASSUME NEW b \in 0..Width
  PROVE  /\ Size(b) \in Nat \ {0}
         /\ b < Width => Size(b) > 1
         /\ b + 1 < Width => Size(b) > 3
<1>1. Width \in Nat /\ b \in Nat /\ Width - b \in 0..Width
  BY WidthAssumption
<1>2. Size(b) \in Nat \ {0}
  BY <1>1, PowerEquation DEF Size
<1>3. ASSUME b < Width
      PROVE  /\ PowerOfTwo[Width - b] = 2 * PowerOfTwo[Width - b - 1]
             /\ PowerOfTwo[Width - b - 1] \in Nat \ {0}
  <2>1. Width - b \in 1..Width /\ Width - b - 1 \in 0..Width
    BY <1>1, <1>3
  <2>. QED  BY <2>1, PowerEquation
<1>4. ASSUME b + 1 < Width
      PROVE  /\ PowerOfTwo[Width - b - 1] = 2 * PowerOfTwo[Width - b - 2]
             /\ PowerOfTwo[Width - b - 2] \in Nat \ {0}
  <2>1. /\ Width - b - 1 \in 1..Width /\ Width - b - 2 \in 0..Width
        /\ (Width - b - 1) - 1 = Width - b - 2
    BY <1>1, <1>4
  <2>. QED  BY <2>1, PowerEquation
<1>. QED  BY <1>1, <1>2, <1>3, <1>4 DEF Size

(* The subnets of one length tile the address space.                       *)
LEMMA Division ==
  ASSUME NEW b \in 0..Width
  PROVE  PowerOfTwo[b] \in Nat /\ Size(0) = Size(b) * PowerOfTwo[b]
<1> DEFINE T == {n \in 0..Width : PowerOfTwo[Width] = PowerOfTwo[Width - n] * PowerOfTwo[n]}
<1>1. Width \in Nat
  BY WidthAssumption
<1>2. 0 \in T
  <2>1. Width - 0 = Width /\ PowerOfTwo[Width] \in Nat /\ PowerOfTwo[0] = 1
    BY <1>1, PowerEquation
  <2>. QED  BY <1>1, <2>1
<1>3. ASSUME NEW n \in 0..(Width - 1), n \in T  PROVE n + 1 \in T
  <2>1. /\ Width - n \in 1..Width /\ Width - (n + 1) = (Width - n) - 1
        /\ Width - (n + 1) \in 0..Width /\ n + 1 \in 1..Width /\ (n + 1) - 1 = n
        /\ n \in 0..Width
    BY <1>1
  <2>2. /\ PowerOfTwo[Width - n] = 2 * PowerOfTwo[Width - (n + 1)]
        /\ PowerOfTwo[n + 1] = 2 * PowerOfTwo[n]
        /\ PowerOfTwo[Width - (n + 1)] \in Nat /\ PowerOfTwo[n] \in Nat
    BY <2>1, PowerEquation
  <2>3. \A x, y \in Nat : (2 * x) * y = x * (2 * y)
    OBVIOUS
  <2>. QED  BY <1>3, <2>1, <2>2, <2>3
<1>4. \A n \in 0..Width : n \in T
  <2> HIDE DEF T
  <2>. QED  BY <1>1, <1>2, <1>3, IntervalInduct
<1>. QED  BY <1>1, <1>4, PowerEquation DEF Size

LEMMA SubnetTypes ==
  ASSUME NEW s \in Subnets
  PROVE  /\ Top \in Nat /\ Size(s.bits) \in Nat \ {0} /\ Width \in Nat /\ s.bits \in 0..Width
         /\ Masked(s) \in Nat /\ Masked(s) <= Top
         /\ LastAddr(s) \in Nat /\ Masked(s) <= LastAddr(s)
<1>1. /\ Width \in Nat /\ s.bits \in 0..Width /\ Size(s.bits) \in Nat \ {0}
      /\ Size(0) \in Nat \ {0} /\ s.addr \in 0..Top
  <2>1. s.bits \in 0..Width /\ s.addr \in 0..Top /\ Width \in Nat /\ 0 \in 0..Width
    BY WidthAssumption, SubnetAssumption
  <2>. QED  BY <2>1, SizeProperties
<1>2. /\ s.addr % Size(s.bits) \in Nat
      /\ s.addr % Size(s.bits) <= s.addr
  BY <1>1 DEF Top
<1>. QED  BY <1>1, <1>2 DEF Top, Masked, LastAddr

(* Where the last host is below the top, the loop runs over just the hosts. *)
LEMMA SegmentIsHosts ==
  ASSUME NEW s \in Subnets, BelowTop(s)
  PROVE  /\ FirstHost(s) \in Nat /\ LastHost(s) \in Int /\ LastHost(s) < Top
         /\ Segment(s) = Hosts(s)
<1>1. /\ Top \in Nat /\ Masked(s) \in Nat /\ Masked(s) <= Top
      /\ LastAddr(s) \in Nat /\ Masked(s) <= LastAddr(s)
  BY SubnetTypes
<1>2. CASE PointToPoint(s)
  BY <1>1, <1>2 DEF FirstHost, LastHost, Hosts, Covers, Segment, BelowTop
<1>3. CASE ~PointToPoint(s)
  <2>1. Size(s.bits) > 1 /\ Size(s.bits) \in Nat
    BY <1>3, SubnetTypes, SizeProperties DEF PointToPoint
  <2>2. Masked(s) # Top
    BY <1>1, <1>3, <2>1 DEF LastHost, LastAddr, BelowTop
  <2>. QED  BY <1>1, <1>3, <2>2 DEF FirstHost, LastHost, NextAddr, Hosts, Covers, Segment, BelowTop
<1>. QED  BY <1>2, <1>3

LEMMA ScanInit == Init => ScanInv
<1> SUFFICES ASSUME Init  PROVE ScanInv
  OBVIOUS
<1>1. BelowTop(subnet) => FirstHost(subnet) \in Nat
  BY SegmentIsHosts DEF Init
<1>. QED  BY <1>1 DEF Init, ScanInv, Segment

LEMMA ScanNext == ScanInv /\ [Next]_vars => ScanInv'
<1> SUFFICES ASSUME ScanInv, [Next]_vars  PROVE ScanInv'
  OBVIOUS
<1>1. /\ subnet' = subnet /\ reserved' = reserved /\ peers' = peers
      /\ status' \in {"scanning", "found", "no_free_ip"}
  BY DEF Next, Advance, HandOut, Exhaust, Finished, vars, ScanInv
<1>2. ASSUME BelowTop(subnet)
      PROVE  /\ cur' \in Nat /\ FirstHost(subnet) <= cur'
             /\ \A a \in Segment(subnet) : a < cur' => a \in reserved \cup Occupied(peers)
             /\ status' = "found" => cur' <= LastHost(subnet) /\ ~Taken'
             /\ status' = "no_free_ip" => LastHost(subnet) < cur'
  <2>1. /\ FirstHost(subnet) \in Nat /\ LastHost(subnet) \in Int
        /\ LastHost(subnet) < Top /\ Top \in Nat
    BY <1>2, SegmentIsHosts, SubnetTypes DEF ScanInv
  <2>2. /\ cur \in Nat /\ FirstHost(subnet) <= cur
        /\ \A a \in Segment(subnet) : a < cur => a \in reserved \cup Occupied(peers)
        /\ status = "found" => cur <= LastHost(subnet) /\ ~Taken
        /\ status = "no_free_ip" => LastHost(subnet) < cur
    BY <1>2 DEF ScanInv
  <2>3. CASE Advance
    <3>1. cur' = cur + 1 /\ status' = status /\ status = "scanning"
          /\ cur \in reserved \cup Occupied(peers)
      BY <2>1, <2>2, <2>3 DEF Advance, Inside, Taken, NextAddr
    <3>2. \A a \in Segment(subnet) : a < cur' => a < cur \/ a = cur
      BY <2>2, <3>1 DEF Segment
    <3>. QED  BY <2>1, <2>2, <3>1, <3>2
  <2>4. CASE HandOut
    BY <1>1, <2>1, <2>2, <2>4 DEF HandOut, Inside, Taken
  <2>5. CASE Exhaust
    BY <2>1, <2>2, <2>5 DEF Exhaust
  <2>6. CASE UNCHANGED vars
    BY <2>2, <2>6 DEF vars, Taken
  <2>. QED  BY <2>3, <2>4, <2>5, <2>6 DEF Next, Finished
<1>. QED  BY <1>1, <1>2 DEF ScanInv

LEMMA LeastIsUnique ==
  ASSUME NEW S \in SUBSET Nat, NEW x \in S, \A y \in S : x <= y
  PROVE  Least(S) = x
<1>1. Least(S) \in S /\ Least(S) <= x
  BY LeastProperties
<1>2. x \in Nat /\ Least(S) \in Nat /\ x <= Least(S)
  BY <1>1
<1>. QED  BY <1>1, <1>2

LEMMA ScanAnswers == ScanInv => AnswersLeastFree
<1> SUFFICES ASSUME ScanInv, BelowTop(subnet)
             PROVE  /\ status = "found" =>
                         /\ Free(peers, Hosts(subnet), reserved) # {}
                         /\ cur = AllocateIP(peers, Hosts(subnet), reserved)
                    /\ status = "no_free_ip" => Free(peers, Hosts(subnet), reserved) = {}
  BY DEF AnswersLeastFree
<1> DEFINE free == Free(peers, Segment(subnet), reserved)
<1>1. Segment(subnet) = Hosts(subnet) /\ LastHost(subnet) \in Int
  BY SegmentIsHosts DEF ScanInv
<1>2. cur \in Nat /\ FirstHost(subnet) \in Int
  BY SegmentIsHosts DEF ScanInv
<1>3. \A a \in free : a \in Nat /\ cur <= a /\ a <= LastHost(subnet)
  BY <1>2 DEF ScanInv, Free, Segment
<1>4. CASE status = "found"
  <2>1. cur \in free
    BY <1>2, <1>4 DEF ScanInv, Free, Segment, Taken
  <2>2. Least(free) = cur
    BY <1>3, <2>1, LeastIsUnique
  <2>. QED  BY <1>1, <1>4, <2>1, <2>2 DEF AllocateIP
<1>5. CASE status = "no_free_ip"
  BY <1>1, <1>2, <1>3, <1>5 DEF ScanInv
<1>. QED  BY <1>4, <1>5

(* AllocateIP hands out the least free host of the subnet, or reports that  *)
(* it is exhausted, for every subnet whose last host is not the highest     *)
(* address there is, every reserved list and every peer list (alloc.go).    *)
THEOREM AnswersLeastFreeHolds == Spec => []AnswersLeastFree
BY ScanInit, ScanNext, ScanAnswers, PTL DEF Spec

LEMMA Mono ==
  ASSUME NEW z \in Nat, NEW i \in Int, NEW j \in Int, i <= j
  PROVE  z * i <= z * j
<1>1. j - i \in Nat
  OBVIOUS
<1>2. z * (j - i) >= 0
  BY <1>1
<1>3. z * (j - i) = z * j - z * i
  OBVIOUS
<1>. QED  BY <1>2, <1>3

(* The block of z addresses that holds a ends inside the address space when *)
(* z divides its size.                                                      *)
LEMMA BlockFits ==
  ASSUME NEW a \in Nat, NEW z \in Nat \ {0}, NEW k \in Nat, a < z * k
  PROVE  a - (a % z) + z <= z * k
<1> DEFINE q == a \div z
<1>1. q \in Int /\ a % z \in Nat /\ a - (a % z) = z * q
  OBVIOUS
<1>2. q + 1 <= k
  <2>1. SUFFICES ASSUME k <= q  PROVE FALSE
    BY <1>1
  <2>2. z * k <= z * q /\ z * q <= a /\ z * k \in Int /\ z * q \in Int
    BY <1>1, <2>1, Mono
  <2>. QED  BY <2>2
<1>3. z * (q + 1) <= z * k
  BY <1>1, <1>2, Mono
<1>4. z * (q + 1) = z * q + z
  BY <1>1
<1>. QED  BY <1>1, <1>3, <1>4

(* A subnet that Provide accepts has room, and ends below the top.          *)
LEMMA AcceptedSubnet ==
  ASSUME NEW s \in Subnets, ~TooSmall(s)
  PROVE  /\ BelowTop(s) /\ ~PointToPoint(s)
         /\ Masked(s) \in Nat
         /\ NextAddr(Masked(s)) = Masked(s) + 1
         /\ {Masked(s) + 1, Masked(s) + 2} \subseteq Hosts(s)
<1>1. /\ Top \in Nat /\ Size(s.bits) \in Nat \ {0} /\ Width \in Nat /\ s.bits \in 0..Width
      /\ Masked(s) \in Nat /\ LastAddr(s) \in Nat
  BY SubnetTypes
<1>2. /\ s.addr \in 0..Top /\ Size(s.bits) > 3
      /\ PowerOfTwo[s.bits] \in Nat /\ Size(0) = Size(s.bits) * PowerOfTwo[s.bits]
  <2>1. s.addr \in 0..Top /\ Size(s.bits) > 3
    <3>1. s.bits + 1 < Width
      BY <1>1 DEF TooSmall
    <3>2. s.addr \in 0..Top
      BY SubnetAssumption
    <3>3. Size(s.bits) > 3
      BY <1>1, <3>1, SizeProperties
    <3>. QED  BY <3>2, <3>3
  <2>2. PowerOfTwo[s.bits] \in Nat /\ Size(0) = Size(s.bits) * PowerOfTwo[s.bits]
    BY <1>1, Division
  <2>. QED  BY <2>1, <2>2
<1>3. LastAddr(s) <= Top
  <2>1. s.addr \in Nat /\ s.addr < Size(s.bits) * PowerOfTwo[s.bits]
    BY <1>1, <1>2 DEF Top
  <2>2. s.addr - (s.addr % Size(s.bits)) + Size(s.bits) <= Size(s.bits) * PowerOfTwo[s.bits]
    BY <1>1, <1>2, <2>1, BlockFits
  <2>. QED  BY <1>1, <1>2, <2>1, <2>2 DEF Top, LastAddr, Masked
<1>4. ~PointToPoint(s)
  BY <1>1 DEF TooSmall, PointToPoint
<1>5. LastAddr(s) = Masked(s) + Size(s.bits) - 1
  BY DEF LastAddr
<1>. QED  BY <1>1, <1>2, <1>3, <1>4, <1>5 DEF BelowTop, LastHost, NextAddr, Hosts, Covers

LEMMA ScanProvides == ScanInv => ProvidedPoolIsSound
<1> SUFFICES ASSUME ScanInv, NEW given \in 0..Top \cup {Invalid},
                    ~TooSmall(subnet), reserved = {ServerAddress(subnet, given)}
             PROVE  LET pool == Hosts(subnet) \ {ServerAddress(subnet, given)}
                    IN /\ pool # {}
                       /\ status = "found" => cur \in pool \ Occupied(peers)
                       /\ status = "no_free_ip" => pool \subseteq Occupied(peers)
  BY DEF ProvidedPoolIsSound, Provided
<1> DEFINE server == ServerAddress(subnet, given)
           pool == Hosts(subnet) \ {server}
<1>1. /\ subnet \in Subnets /\ BelowTop(subnet) /\ Masked(subnet) \in Nat
      /\ {Masked(subnet) + 1, Masked(subnet) + 2} \subseteq Hosts(subnet)
  BY AcceptedSubnet DEF ScanInv
<1>2. Segment(subnet) = Hosts(subnet) /\ LastHost(subnet) \in Int
  BY <1>1, SegmentIsHosts
<1>3. pool # {}
  <2>1. Masked(subnet) + 1 # Masked(subnet) + 2
    BY <1>1
  <2>. QED  BY <1>1, <2>1
<1>4. ASSUME status = "found"  PROVE cur \in pool \ Occupied(peers)
  BY <1>1, <1>2, <1>4 DEF ScanInv, Segment, Taken
<1>5. ASSUME status = "no_free_ip"  PROVE pool \subseteq Occupied(peers)
  BY <1>1, <1>2, <1>5 DEF ScanInv, Segment
<1>. QED  BY <1>3, <1>4, <1>5

(* Whatever subnet and server address Provide accepted, a peer gets a host  *)
(* of the subnet that is not the server's address, there is one for at      *)
(* least one peer, and no_free_ip means that peers hold every other host    *)
(* (provide.go, alloc.go), for every width of an address.                   *)
THEOREM ProvidedPoolIsSoundHolds == Spec => []ProvidedPoolIsSound
BY ScanInit, ScanNext, ScanProvides, PTL DEF Spec
=============================================================================
