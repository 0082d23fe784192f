------------------------------ MODULE PeerList ------------------------------
(***************************************************************************)
(* The peer list of a wgconf.Conf: the [Peer] blocks of a WireGuard .conf, *)
(* in file order, and the operations internal/wgconf offers on them.       *)
(*                                                                         *)
(* A peer is reduced to what the server's decisions read or change: its    *)
(* label, its public key (a key stands for the key pair and the optional   *)
(* PSK, which always travel with it), the host parts of its AllowedIPs,    *)
(* and whether the block still carries a key the tool does not write but   *)
(* the kernel understands (Endpoint, PersistentKeepalive).                 *)
(***************************************************************************)
EXTENDS Naturals, Sequences, SequencesExt

CONSTANTS Label,      \* every non-empty string that can stand after "# name:"
          ValidLabel, \* the labels wgconf.ValidPeerName accepts
          NoName,     \* the empty name: a block without a "# name:" comment
          Key,        \* public keys that decode
          Addr        \* IPv4 host addresses, as numbers

ASSUME LabelAssumption == ValidLabel \subseteq Label /\ NoName \notin Label
ASSUME AddrAssumption == Addr \subseteq Nat

Peer == [name: Label \cup {NoName}, key: Key, ips: SUBSET Addr, extra: BOOLEAN]

(* What Parse keeps of the blocks: unknown keys are dropped, the rest stays. *)
Parse(blocks) == [i \in DOMAIN blocks |-> [blocks[i] EXCEPT !.extra = FALSE]]

Named(peers, name) == {i \in DOMAIN peers : peers[i].name = name}

Least(S) == CHOOSE x \in S : \A y \in S : x <= y

(* The index of the first peer with that name; 0 stands for Go's -1. *)
FindByName(peers, name) ==
  IF Named(peers, name) = {} THEN 0 ELSE Least(Named(peers, name))

NameExists(peers, name) == name # NoName /\ FindByName(peers, name) # 0

AddPeer(peers, peer) == Append(peers, peer)

(* Mutant: an off-by-one takes the block after the one named. *)
RemoveNextByName(peers, name) ==
  RemoveAt(peers, (FindByName(peers, name) % Len(peers)) + 1)

RemoveByName(peers, name) == RemoveAt(peers, FindByName(peers, name))

(* Mutant: the block is made anew and loses its addresses. *)
RelabelAnew(peers, name, newName) ==
  [peers EXCEPT ![FindByName(peers, name)].name = newName,
                ![FindByName(peers, name)].ips = {}]

Relabel(peers, name, newName) ==
  [peers EXCEPT ![FindByName(peers, name)].name = newName]

(* Mutant: blocks without a label are not looked at. *)
OccupiedByNamed(peers) == UNION {peers[i].ips : i \in DOMAIN peers \ Named(peers, NoName)}

Occupied(peers) == UNION {peers[i].ips : i \in DOMAIN peers}

(* Addresses AllocateIP may still hand out of a pool of host addresses. *)
Free(peers, pool, reserved) == pool \ (reserved \cup Occupied(peers))

(* AllocateIP scans the pool upwards and takes the first free address. *)
AllocateIP(peers, pool, reserved) == Least(Free(peers, pool, reserved))

(***************************************************************************)
(* What `wg-quick strip | wg syncconf` makes of the blocks: one device     *)
(* peer per public key, the last block with that key deciding.             *)
(***************************************************************************)
DeviceView(blocks) ==
  {[key |-> blocks[i].key, ips |-> blocks[i].ips, extra |-> blocks[i].extra] :
     i \in {j \in DOMAIN blocks :
              \A k \in DOMAIN blocks : blocks[k].key = blocks[j].key => k <= j}}

(* No two blocks share a label; no two blocks share an address. *)
DistinctNames(peers) ==
  \A i, j \in DOMAIN peers :
    i # j /\ peers[i].name = peers[j].name => peers[i].name = NoName

DistinctAddresses(peers) ==
  \A i, j \in DOMAIN peers : i # j => peers[i].ips \cap peers[j].ips = {}
=============================================================================
