--------------------------- MODULE PeerListProof ---------------------------
(* Lemmas about the operations of PeerList. *)
EXTENDS PeerList, FiniteSetTheorems, SequenceTheorems, TLAPS

(***************************************************************************)
(* A non-empty set of naturals has the element Least names. The initial    *)
(* intervals 0..n with n in the set are finite sets, the strict subset     *)
(* relation is well-founded on those, and its minimum is the least n.      *)
(***************************************************************************)
LEMMA LeastProperties ==
  ASSUME NEW S \in SUBSET Nat, S # {}
  PROVE  Least(S) \in S /\ \A y \in S : Least(S) <= y
<1> DEFINE T == {0..n : n \in S}
<1>1. T \subseteq FiniteSubsetsOf(Nat) /\ T # {}
  <2>1. ASSUME NEW n \in S  PROVE 0..n \in SUBSET Nat /\ IsFiniteSet(0..n)
    <3>1. n \in Int /\ 0 \in Int /\ 0..n \subseteq Nat
      OBVIOUS
    <3>. QED  BY <3>1, FS_Interval
  <2>. QED  BY <2>1 DEF FiniteSubsetsOf
<1>2. PICK x \in T : \A y \in T : <<y, x>> \notin StrictSubsetOrdering(Nat)
  <2>1. IsWellFoundedOn(StrictSubsetOrdering(Nat), FiniteSubsetsOf(Nat))
    BY FS_StrictSubsetOrderingWellFounded
  <2>. QED  BY <1>1, <2>1, WFMin
<1>3. PICK n \in S : x = 0..n
  OBVIOUS
<1>4. ASSUME NEW m \in S, m < n  PROVE FALSE
  <2>1. 0..m \in T
    OBVIOUS
  <2>2. 0..m \subseteq 0..n /\ n \in 0..n /\ n \notin 0..m
    BY <1>4
  <2>3. <<0..m, x>> \in StrictSubsetOrdering(Nat)
    BY <1>3, <2>2 DEF StrictSubsetOrdering
  <2>. QED  BY <1>2, <2>1, <2>3
<1>5. \A m \in S : n <= m
  BY <1>4
<1>. QED  BY <1>5 DEF Least

(* A position FindByName returns holds the name; 0 means no block has it.  *)
LEMMA FindByNameProperties ==
  ASSUME NEW peers \in Seq(Peer), NEW name
  PROVE  /\ FindByName(peers, name) \in Nat
         /\ FindByName(peers, name) = 0 <=> Named(peers, name) = {}
         /\ FindByName(peers, name) # 0 =>
              /\ FindByName(peers, name) \in 1..Len(peers)
              /\ peers[FindByName(peers, name)].name = name
<1>1. Named(peers, name) \in SUBSET (1..Len(peers))
  BY LenProperties DEF Named
<1>2. CASE Named(peers, name) = {}
  BY <1>2 DEF FindByName
<1>3. CASE Named(peers, name) # {}
  <2>1. Named(peers, name) \in SUBSET Nat
    BY <1>1
  <2>2. Least(Named(peers, name)) \in Named(peers, name)
    BY <1>3, <2>1, LeastProperties
  <2>. QED  BY <1>1, <1>3, <2>2 DEF FindByName, Named
<1>. QED  BY <1>2, <1>3

(* Parsing changes no block but for the keys it drops. *)
LEMMA ParseProperties ==
  ASSUME NEW blocks \in Seq(Peer)
  PROVE  /\ Parse(blocks) \in Seq(Peer)
         /\ Len(Parse(blocks)) = Len(blocks)
         /\ \A i \in 1..Len(blocks) :
              /\ Parse(blocks)[i].name = blocks[i].name
              /\ Parse(blocks)[i].key = blocks[i].key
              /\ Parse(blocks)[i].ips = blocks[i].ips
              /\ Parse(blocks)[i].extra = FALSE
<1>1. Len(blocks) \in Nat /\ DOMAIN blocks = 1..Len(blocks)
      /\ \A i \in 1..Len(blocks) : blocks[i] \in Peer
  BY LenProperties
<1>2. \A i \in 1..Len(blocks) : [blocks[i] EXCEPT !.extra = FALSE] \in Peer
  BY <1>1 DEF Peer
<1>3. Parse(blocks) \in [1..Len(blocks) -> Peer]
  BY <1>1, <1>2 DEF Parse
<1>4. Parse(blocks) \in Seq(Peer) /\ Len(Parse(blocks)) = Len(blocks)
  BY <1>1, <1>3
<1>5. \A i \in 1..Len(blocks) : Parse(blocks)[i] = [blocks[i] EXCEPT !.extra = FALSE]
  BY <1>1 DEF Parse
<1>. QED  BY <1>1, <1>4, <1>5 DEF Peer

(* A parsed list parses to itself. *)
LEMMA ParseIdempotent ==
  ASSUME NEW peers \in Seq(Peer), \A i \in 1..Len(peers) : peers[i].extra = FALSE
  PROVE  Parse(peers) = peers
<1>1. Len(peers) \in Nat /\ DOMAIN peers = 1..Len(peers)
      /\ \A i \in 1..Len(peers) : peers[i] \in Peer
  BY LenProperties
<1>2. \A i \in 1..Len(peers) : [peers[i] EXCEPT !.extra = FALSE] = peers[i]
  BY <1>1 DEF Peer
<1>3. Parse(peers) = [i \in 1..Len(peers) |-> peers[i]]
  BY <1>1, <1>2 DEF Parse
<1>. QED  BY <1>1, <1>3, LenProperties

(* Taking one element out keeps the others, in order. *)
LEMMA RemoveAtProperties ==
  ASSUME NEW S, NEW s \in Seq(S), NEW i \in 1..Len(s)
  PROVE  /\ RemoveAt(s, i) \in Seq(S)
         /\ Len(RemoveAt(s, i)) = Len(s) - 1
         /\ \A j \in 1..Len(s) - 1 :
              RemoveAt(s, i)[j] = IF j < i THEN s[j] ELSE s[j + 1]
<1> DEFINE a == SubSeq(s, 1, i - 1)
           b == SubSeq(s, i + 1, Len(s))
<1>1. Len(s) \in Nat /\ \A j \in 1..Len(s) : s[j] \in S
  BY LenProperties
<1>2. /\ a \in Seq(S) /\ Len(a) = i - 1
      /\ \A j \in 1..i - 1 : a[j] = s[j]
  <2>1. 1 \in Int /\ i - 1 \in Int /\ \A j \in 1..i - 1 : s[j] \in S
    BY <1>1
  <2>2. /\ a \in Seq(S)
        /\ Len(a) = IF 1 <= i - 1 THEN (i - 1) - 1 + 1 ELSE 0
        /\ \A j \in 1..(i - 1) - 1 + 1 : a[j] = s[1 + j - 1]
    BY <2>1, SubSeqProperties
  <2>. QED  BY <2>2
<1>3. /\ b \in Seq(S) /\ Len(b) = Len(s) - i
      /\ \A j \in 1..Len(s) - i : b[j] = s[i + j]
  <2>1. i + 1 \in Int /\ Len(s) \in Int /\ \A j \in i + 1..Len(s) : s[j] \in S
    BY <1>1
  <2>2. /\ b \in Seq(S)
        /\ Len(b) = IF i + 1 <= Len(s) THEN Len(s) - (i + 1) + 1 ELSE 0
        /\ \A j \in 1..Len(s) - (i + 1) + 1 : b[j] = s[(i + 1) + j - 1]
    BY <2>1, SubSeqProperties
  <2>. QED  BY <1>1, <2>2
<1>4. /\ a \o b \in Seq(S) /\ Len(a \o b) = Len(a) + Len(b)
      /\ \A j \in 1..Len(a) + Len(b) :
           (a \o b)[j] = IF j <= Len(a) THEN a[j] ELSE b[j - Len(a)]
  BY <1>2, <1>3, ConcatProperties
<1>5. RemoveAt(s, i) = a \o b
  BY DEF RemoveAt
<1>. HIDE DEF a, b
<1>6. \A j \in 1..Len(s) - 1 : (a \o b)[j] = IF j < i THEN s[j] ELSE s[j + 1]
  <2> TAKE j \in 1..Len(s) - 1
  <2>1. CASE j < i
    BY <1>1, <1>2, <1>3, <1>4, <2>1
  <2>2. CASE ~(j < i)
    <3>1. /\ j \in 1..Len(a) + Len(b) /\ ~(j <= Len(a))
          /\ j - Len(a) \in 1..Len(s) - i /\ i + (j - Len(a)) = j + 1
      BY <1>1, <1>2, <1>3, <2>2
    <3>2. (a \o b)[j] = b[j - Len(a)]
      BY <1>4, <3>1
    <3>3. b[j - Len(a)] = s[i + (j - Len(a))]
      BY <1>3, <3>1
    <3>. QED  BY <2>2, <3>1, <3>2, <3>3
  <2>. QED  BY <2>1, <2>2
<1>. QED  BY <1>1, <1>2, <1>3, <1>4, <1>5, <1>6

-----------------------------------------------------------------------------
(* Appending a peer with a free label and a free address keeps both apart.  *)
LEMMA AddPeerProperties ==
  ASSUME NEW peers \in Seq(Peer), NEW peer \in Peer
  PROVE  /\ AddPeer(peers, peer) \in Seq(Peer)
         /\ (DistinctNames(peers) /\ (peer.name # NoName => Named(peers, peer.name) = {}))
              => DistinctNames(AddPeer(peers, peer))
         /\ (DistinctAddresses(peers) /\ peer.ips \cap Occupied(peers) = {})
              => DistinctAddresses(AddPeer(peers, peer))
<1> DEFINE new == AddPeer(peers, peer)
<1>1. /\ new \in Seq(Peer) /\ Len(peers) \in Nat /\ DOMAIN peers = 1..Len(peers)
      /\ DOMAIN new = 1..Len(peers) + 1
      /\ \A i \in 1..Len(peers) : new[i] = peers[i]
      /\ new[Len(peers) + 1] = peer
  BY AppendProperties, LenProperties DEF AddPeer
<1>. HIDE DEF new
<1>2. ASSUME DistinctNames(peers), peer.name # NoName => Named(peers, peer.name) = {}
      PROVE  DistinctNames(new)
  BY <1>1, <1>2 DEF DistinctNames, Named
<1>3. ASSUME DistinctAddresses(peers), peer.ips \cap Occupied(peers) = {}
      PROVE  DistinctAddresses(new)
  <2>1. \A i \in 1..Len(peers) : peers[i].ips \cap peer.ips = {}
    BY <1>1, <1>3 DEF Occupied
  <2>. QED  BY <1>1, <1>3, <2>1 DEF DistinctAddresses
<1>. QED  BY <1>1, <1>2, <1>3 DEF new

(* So does removing the peer of a label that is there. *)
LEMMA RemoveByNameProperties ==
  ASSUME NEW peers \in Seq(Peer), NEW name, FindByName(peers, name) # 0
  PROVE  /\ RemoveByName(peers, name) \in Seq(Peer)
         /\ DistinctNames(peers) => DistinctNames(RemoveByName(peers, name))
         /\ DistinctAddresses(peers) => DistinctAddresses(RemoveByName(peers, name))
<1> DEFINE at  == FindByName(peers, name)
           new == RemoveByName(peers, name)
<1>1. at \in 1..Len(peers) /\ Len(peers) \in Nat /\ DOMAIN peers = 1..Len(peers)
  BY FindByNameProperties, LenProperties
<1>2. /\ new \in Seq(Peer) /\ Len(new) = Len(peers) - 1
      /\ \A j \in 1..Len(peers) - 1 :
           new[j] = IF j < at THEN peers[j] ELSE peers[j + 1]
  BY <1>1, RemoveAtProperties DEF RemoveByName
<1>. HIDE DEF at, new
<1>3. DOMAIN new = 1..Len(peers) - 1
  BY <1>2, LenProperties
<1>4. \A j \in DOMAIN new : \E k \in DOMAIN peers :
        new[j] = peers[k] /\ k = IF j < at THEN j ELSE j + 1
  BY <1>1, <1>2, <1>3
<1>5. \A i, j \in DOMAIN new : i # j =>
        \E k, l \in DOMAIN peers : k # l /\ new[i] = peers[k] /\ new[j] = peers[l]
  BY <1>1, <1>3, <1>4
<1>6. DistinctNames(peers) => DistinctNames(new)
  BY <1>5 DEF DistinctNames
<1>7. DistinctAddresses(peers) => DistinctAddresses(new)
  BY <1>5 DEF DistinctAddresses
<1>. QED  BY <1>2, <1>6, <1>7 DEF new

(* And giving a peer a label that no other peer has. *)
LEMMA RelabelProperties ==
  ASSUME NEW peers \in Seq(Peer), NEW name, NEW newName \in Label \cup {NoName},
         FindByName(peers, name) # 0,
         FindByName(peers, newName) \in {0, FindByName(peers, name)}
  PROVE  /\ Relabel(peers, name, newName) \in Seq(Peer)
         /\ DistinctNames(peers) => DistinctNames(Relabel(peers, name, newName))
         /\ DistinctAddresses(peers) => DistinctAddresses(Relabel(peers, name, newName))
<1> DEFINE at  == FindByName(peers, name)
           new == Relabel(peers, name, newName)
<1>1. /\ at \in 1..Len(peers) /\ Len(peers) \in Nat /\ DOMAIN peers = 1..Len(peers)
      /\ \A i \in 1..Len(peers) : peers[i] \in Peer
  BY FindByNameProperties, LenProperties
<1>2. new = [peers EXCEPT ![at] = [peers[at] EXCEPT !.name = newName]]
  BY <1>1 DEF Relabel
<1>3. [peers[at] EXCEPT !.name = newName] \in Peer
  BY <1>1 DEF Peer
<1>4. /\ new \in Seq(Peer) /\ DOMAIN new = 1..Len(peers)
      /\ \A j \in 1..Len(peers) : new[j] =
           IF j = at THEN [peers[at] EXCEPT !.name = newName] ELSE peers[j]
  BY <1>1, <1>2, <1>3, ExceptSeq, LenProperties
<1>5. \A j \in 1..Len(peers) : peers[j].name = newName /\ DistinctNames(peers)
        => j = at \/ newName = NoName
  <2>1. CASE FindByName(peers, newName) = 0
    BY <1>1, <2>1, FindByNameProperties DEF Named
  <2>2. CASE FindByName(peers, newName) = at
    <3>1. peers[at].name = newName
      BY <1>1, <2>2, FindByNameProperties
    <3>. QED  BY <1>1, <3>1 DEF DistinctNames
  <2>. QED  BY <2>1, <2>2
<1>6. \A j \in 1..Len(peers) :
        /\ new[j].ips = peers[j].ips
        /\ new[j].name = IF j = at THEN newName ELSE peers[j].name
  BY <1>1, <1>4 DEF Peer
<1>. HIDE DEF at, new
<1>7. DistinctNames(peers) => DistinctNames(new)
  BY <1>1, <1>4, <1>5, <1>6 DEF DistinctNames
<1>8. DistinctAddresses(peers) => DistinctAddresses(new)
  BY <1>1, <1>4, <1>6 DEF DistinctAddresses
<1>. QED  BY <1>4, <1>7, <1>8 DEF new

(* Parsing moves no label and no address. *)
LEMMA ParseKeepsApart ==
  ASSUME NEW blocks \in Seq(Peer)
  PROVE  /\ DistinctNames(blocks) <=> DistinctNames(Parse(blocks))
         /\ DistinctAddresses(blocks) <=> DistinctAddresses(Parse(blocks))
<1>1. /\ DOMAIN blocks = 1..Len(blocks) /\ DOMAIN Parse(blocks) = 1..Len(blocks)
      /\ \A i \in 1..Len(blocks) : /\ Parse(blocks)[i].name = blocks[i].name
                                   /\ Parse(blocks)[i].ips = blocks[i].ips
  BY ParseProperties, LenProperties
<1>. QED  BY <1>1 DEF DistinctNames, DistinctAddresses
=============================================================================
