----------------------------- MODULE WgConfProof -----------------------------
(***************************************************************************)
(* What Serialize writes, Parse reads back, for every file, every sequence *)
(* of edits and every label, key, address and comment.                     *)
(***************************************************************************)
EXTENDS WgConfLayout

(* TrimRight keeps the first t lines: those up to the last that says        *)
(* anything.                                                               *)
TrimmedAt(lines, t) ==
  /\ t \in Nat /\ t <= Len(lines)
  /\ TrimRight(lines) = SubSeq(lines, 1, t) /\ Len(TrimRight(lines)) = t
  /\ TrimRight(lines) \in Seq(Lines)
  /\ \A i \in 1..t : TrimRight(lines)[i] = lines[i]
  /\ t = 0 \/ lines[t].kind # "empty"
  /\ \A i \in 1..Len(lines) : t < i => lines[i].kind = "empty"

LEMMA Prefix ==
  ASSUME NEW s \in Seq(Lines), NEW t \in Nat, t <= Len(s)
  PROVE  /\ SubSeq(s, 1, t) \in Seq(Lines) /\ Len(SubSeq(s, 1, t)) = t
         /\ \A i \in 1..t : SubSeq(s, 1, t)[i] = s[i]
<1>1. 1 \in Nat /\ 1 <= 1 /\ 1 - 1 <= t /\ t \in Int
  OBVIOUS
<1>2. /\ SubSeq(s, 1, t) \in Seq(Lines) /\ Len(SubSeq(s, 1, t)) = t - 1 + 1
      /\ \A i \in 1..(t - 1 + 1) : SubSeq(s, 1, t)[i] = s[1 + i - 1]
  BY <1>1, Slice
<1>3. t - 1 + 1 = t /\ \A i \in 1..t : 1 + i - 1 = i
  OBVIOUS
<1>. QED  BY <1>2, <1>3

LEMMA TrimIs ==
  ASSUME NEW lines \in Seq(Lines), NEW t \in Nat, t <= Len(lines),
         t = 0 \/ lines[t].kind # "empty",
         \A i \in 1..Len(lines) : t < i => lines[i].kind = "empty"
  PROVE  TrimmedAt(lines, t)
<1>1. PICK m \in Nat : m = Len(lines) /\ DOMAIN lines = 1..m
  BY LenProperties
<1> DEFINE T == {0} \cup {i \in 1..m : lines[i].kind # "empty"}
<1>2. TrimRight(lines) = SubSeq(lines, 1, Max(T))
  BY <1>1 DEF TrimRight
<1>3. t \in T /\ T \in SUBSET Nat
  BY <1>1
<1>4. ASSUME NEW i \in T  PROVE i <= t
  BY <1>1
<1>5. Max(T) = t
  <2> HIDE DEF T
  <2>. QED  BY <1>3, <1>4, MaxIs
<1> HIDE DEF T
<1>6. TrimRight(lines) = SubSeq(lines, 1, t)
  BY <1>2, <1>5
<1>7. /\ TrimRight(lines) \in Seq(Lines) /\ Len(TrimRight(lines)) = t
      /\ \A i \in 1..t : TrimRight(lines)[i] = lines[i]
  BY <1>6, Prefix
<1>. QED  BY <1>6, <1>7 DEF TrimmedAt

LEMMA TrimExists ==
  ASSUME NEW lines \in Seq(Lines)
  PROVE  \E t : TrimmedAt(lines, t)
<1>1. PICK m \in Nat : m = Len(lines)
  BY LenProperties
<1> DEFINE T == {0} \cup {i \in 1..m : lines[i].kind # "empty"}
<1>2. T \in SUBSET (0..m) /\ T # {}
  OBVIOUS
<1>3. PICK t : t \in T /\ \A y \in T : y <= t
  <2> HIDE DEF T
  <2>. QED  BY <1>2, MaxGreatest
<1>4. t \in Nat /\ t <= m /\ (t = 0 \/ lines[t].kind # "empty")
  BY <1>3
<1>5. \A i \in 1..m : t < i => lines[i].kind = "empty"
  BY <1>3, <1>4
<1>6. TrimmedAt(lines, t)
  BY <1>1, <1>4, <1>5, TrimIs
<1>. QED  BY <1>6

(* One blank line more, or trimmed before, makes no difference. *)
LEMMA TrimTwice ==
  ASSUME NEW lines \in Seq(Lines)
  PROVE  TrimRight(TrimRight(lines) \o <<Empty>>) = TrimRight(lines)
<1>1. PICK t : TrimmedAt(lines, t)
  BY TrimExists
<1>2. PICK H \in Seq(Lines) : H = TrimRight(lines)
  BY <1>1 DEF TrimmedAt
<1>3. t \in Nat /\ Len(H) = t /\ (t = 0 \/ H[t].kind # "empty")
  BY <1>1, <1>2 DEF TrimmedAt
<1>4. PICK line \in Lines : line = Empty
  BY FixedLines
<1>5. Len(<<line>>) = 1 /\ <<line>>[1] = line
  OBVIOUS
<1>6. PICK blank \in Seq(Lines) : blank = <<Empty>> /\ Len(blank) = 1 /\ blank[1] = Empty
  <2>1. <<line>> \in Seq(Lines)
    OBVIOUS
  <2>. QED  BY <1>4, <1>5, <2>1
<1>7. PICK u \in Seq(Lines) : u = H \o blank
  BY ConcatProperties
<1>8. Joined(u, H, blank)
  BY <1>7, Join
<1>9. Len(u) = t + 1 /\ (\A i \in 1..t : u[i] = H[i]) /\ u[t + 1] = Empty
  <2>1. 1 \in 1..1
    OBVIOUS
  <2>. QED  BY <1>3, <1>6, <1>8, <2>1 DEF Joined
<1>10. TrimmedAt(u, t)
  <2>1. t <= Len(u)
    BY <1>3, <1>9
  <2>2. t = 0 \/ u[t].kind # "empty"
    <3>1. t # 0 => t \in 1..t
      BY <1>3
    <3>. QED  BY <1>3, <1>9, <3>1
  <2>3. ASSUME NEW i \in 1..Len(u), t < i  PROVE u[i].kind = "empty"
    <3>1. i = t + 1
      BY <1>3, <1>9, <2>3
    <3>. QED  BY <1>9, <3>1, FixedLines
  <2>. QED  BY <1>3, <2>1, <2>2, <2>3, TrimIs
<1>11. TrimRight(u) = H
  <2>1. PICK v \in Seq(Lines) : v = TrimRight(u) /\ Len(v) = t /\ \A i \in 1..t : v[i] = u[i]
    BY <1>10 DEF TrimmedAt
  <2>2. \A i \in 1..t : v[i] = H[i]
    BY <1>9, <2>1
  <2>. QED  BY <1>3, <2>1, <2>2, SeqEqual
<1>. QED  BY <1>2, <1>6, <1>7, <1>11

-----------------------------------------------------------------------------
(* What Serialize writes, Parse reads: but for the blank line after the    *)
(* header, and the comments above the first [Peer], which join the header. *)
FirstLead(P) == IF P = <<>> THEN <<>> ELSE P[1].lead
NoPeer(lines) == lines \in Seq(Lines) /\ \A i \in 1..Len(lines) : lines[i].kind # "peer"

LEMMA SerializeIs ==
  ASSUME NEW c
  PROVE  Serialize(c) = TrimRight(c.header) \o FlattenSeq(Blocks(c.peers)) \o <<Empty>>
BY DEF Serialize, Blocks

LEMMA TrimNoPeer ==
  ASSUME NEW lines, NoPeer(lines)
  PROVE  NoPeer(TrimRight(lines)) /\ TrimRight(lines) \in Seq(Lines)
<1>1. lines \in Seq(Lines) /\ \A i \in 1..Len(lines) : lines[i].kind # "peer"
  BY DEF NoPeer
<1>2. PICK t : TrimmedAt(lines, t)
  BY <1>1, TrimExists
<1>3. /\ t \in Nat /\ t <= Len(lines) /\ Len(TrimRight(lines)) = t
      /\ TrimRight(lines) \in Seq(Lines)
      /\ \A i \in 1..t : TrimRight(lines)[i] = lines[i]
  BY <1>2 DEF TrimmedAt
<1>4. PICK m \in Nat : m = Len(lines)
  BY <1>1, LenProperties
<1>5. \A i \in 1..t : i \in 1..m
  BY <1>3, <1>4
<1>6. \A i \in 1..Len(TrimRight(lines)) : TrimRight(lines)[i].kind # "peer"
  BY <1>1, <1>3, <1>4, <1>5
<1>. QED  BY <1>3, <1>6 DEF NoPeer

LEMMA SerializeType ==
  ASSUME NEW c, c.header \in Seq(Lines), c.peers \in Seq(PeerRec)
  PROVE  Serialize(c) \in Seq(Lines)
<1>1. PICK t : TrimmedAt(c.header, t)
  BY TrimExists
<1>2. PICK H \in Seq(Lines) : H = TrimRight(c.header)
  BY <1>1 DEF TrimmedAt
<1>3. PICK n \in Nat : n = Len(c.peers)
  BY LenProperties
<1>4. PICK B \in Seq(Lines) : B = FlattenSeq(Blocks(c.peers))
  BY <1>3, BlocksType, FlattenType
<1>6. PICK one \in Seq(Lines) : one = <<Empty>>
  BY BlankLine
<1>7. H \o B \o one \in Seq(Lines)
  BY ConcatProperties
<1>. QED  BY <1>2, <1>4, <1>6, <1>7, SerializeIs

LEMMA WithoutLeadType ==
  ASSUME NEW P \in Seq(PeerRec), NEW n \in Nat, n = Len(P)
  PROVE  /\ FirstWithoutLead(P) \in Seq(PeerRec) /\ Len(FirstWithoutLead(P)) = n
         /\ \A k \in 1..n : FirstWithoutLead(P)[k]
              = IF k = 1 THEN [P[k] EXCEPT !.lead = <<>>] ELSE P[k]
<1>1. DOMAIN P = 1..n
  BY LenProperties
<1>2. FirstWithoutLead(P) = [k \in 1..n |-> IF k = 1 THEN [P[k] EXCEPT !.lead = <<>>] ELSE P[k]]
  BY <1>1 DEF FirstWithoutLead
<1>3. ASSUME NEW k \in 1..n
      PROVE  (IF k = 1 THEN [P[k] EXCEPT !.lead = <<>>] ELSE P[k]) \in PeerRec
  <2>1. PICK peer \in PeerRec : peer = P[k]
    BY ElementOfSeq
  <2>2. <<>> \in Seq(Of({"note"}))
    BY EmptySeq
  <2>3. [peer EXCEPT !.lead = <<>>] \in PeerRec
    BY <2>2 DEF PeerRec
  <2>. QED  BY <2>1, <2>3
<1>. QED  BY <1>2, <1>3

LEMMA RoundTrip ==
  ASSUME NEW c, NoPeer(c.header), c.peers \in Seq(PeerRec), NEW F, F = Serialize(c)
  PROVE  /\ Parse(F).header = TrimRight(c.header) \o <<Empty>> \o FirstLead(c.peers)
         /\ Parse(F).peers = FirstWithoutLead(c.peers)
<1>1. PICK H \in Seq(Lines) : H = TrimRight(c.header) /\ NoPeer(H)
  BY TrimNoPeer
<1>2. PICK P \in Seq(PeerRec) : P = c.peers
  OBVIOUS
<1>3. F = H \o FlattenSeq(Blocks(P)) \o <<Empty>>
  BY <1>1, <1>2, SerializeIs
<1>4. PICK a, d, e : Layout(F, H, P, a, d, e)
  BY <1>3, LayoutExists
<1>5. CASE P # <<>>
  <2>1. \A i \in 1..Len(H) : H[i].kind # "peer"
    BY <1>1 DEF NoPeer
  <2>2. Parse(F).header = H \o <<Empty>> \o P[1].lead /\ Parse(F).peers = FirstWithoutLead(P)
    BY <1>4, <1>5, <2>1, LayoutParse
  <2>. QED  BY <1>1, <1>2, <1>5, <2>2 DEF FirstLead
<1>6. CASE P = <<>>
  <2>1. PICK n \in Nat : n = Len(P)
    BY LenProperties
  <2>2. n = 0
    BY <1>6, <2>1, EmptySeq
  <2>3. At(F, "peer") = {}
    <3>1. At(F, "peer") = {Heads(P, a, e)[k] : k \in 1..n}
      BY <1>1, <1>4, <2>1, LayoutPeers DEF NoPeer
    <3>. QED  BY <2>2, <3>1
  <2>4. Parse(F).header = F /\ Parse(F).peers = <<>>
    BY <2>3, ParseNoPeer
  <2>5. FirstWithoutLead(P) = <<>>
    <3>1. FirstWithoutLead(P) \in Seq(PeerRec) /\ Len(FirstWithoutLead(P)) = 0
      BY <2>1, <2>2, WithoutLeadType
    <3>. QED  BY <3>1, EmptySeq
  <2>6. FlattenSeq(Blocks(P)) = <<>>
    <3>1. Blocks(P) \in Seq(Seq(Lines)) /\ Len(Blocks(P)) = 0
      BY <2>1, <2>2, BlocksType
    <3>2. Blocks(P) = <<>>
      BY <3>1, EmptySeq
    <3>. QED  BY <3>2, FlattenEmpty
  <2>7. F = H \o <<Empty>> \o <<>>
    <3>2. PICK one \in Seq(Lines) : one = <<Empty>>
      BY BlankLine
    <3>3. H \o <<>> = H /\ (H \o one) \o <<>> = H \o one
      <4>1. H \o one \in Seq(Lines)
        BY ConcatProperties
      <4>2. H \o <<>> = H
        BY ConcatEmptySeq
      <4>3. (H \o one) \o <<>> = H \o one
        BY <4>1, ConcatEmptySeq
      <4>. QED  BY <4>2, <4>3
    <3>. QED  BY <1>3, <2>6, <3>2, <3>3
  <2>. QED  BY <1>1, <1>2, <1>6, <2>4, <2>5, <2>7 DEF FirstLead
<1>. QED  BY <1>5, <1>6

LEMMA ParseHeader ==
  ASSUME NEW F \in Seq(Lines)
  PROVE  NoPeer(Parse(F).header)
BY ParseType DEF NoPeer

LEMMA Settles ==
  ASSUME NEW F \in Seq(Lines)
  PROVE  Serialize(Parse(Serialize(Parse(F)))) = Serialize(Parse(F))
<1>1. PICK c : c = Parse(F)
  OBVIOUS
<1>2. /\ NoPeer(c.header) /\ c.header \in Seq(Lines) /\ c.peers \in Seq(PeerRec)
      /\ Len(c.peers) >= 1 => c.peers[1].lead = <<>>
  BY <1>1, ParseType, ParseHeader
<1>3. PICK once : once = Serialize(c)
  OBVIOUS
<1>4. /\ Parse(once).header = TrimRight(c.header) \o <<Empty>> \o FirstLead(c.peers)
      /\ Parse(once).peers = FirstWithoutLead(c.peers)
  BY <1>2, <1>3, RoundTrip
<1>5. PICK n \in Nat : n = Len(c.peers)
  BY <1>2, LenProperties
<1>6. FirstLead(c.peers) = <<>>
  <2>1. CASE c.peers = <<>>
    BY <2>1 DEF FirstLead
  <2>2. CASE c.peers # <<>>
    <3>1. n # 0
      BY <1>2, <1>5, <2>2, EmptySeq
    <3>2. n >= 1
      BY <3>1
    <3>. QED  BY <1>2, <1>5, <2>2, <3>2 DEF FirstLead
  <2>. QED  BY <2>1, <2>2
<1>7. FirstWithoutLead(c.peers) = c.peers
  <2>1. PICK w \in Seq(PeerRec) : w = FirstWithoutLead(c.peers)
    BY <1>2, <1>5, WithoutLeadType
  <2>2. Len(w) = n
    BY <1>2, <1>5, <2>1, WithoutLeadType
  <2>3. ASSUME NEW k \in 1..n  PROVE w[k] = c.peers[k]
    <3>1. w[k] = IF k = 1 THEN [c.peers[k] EXCEPT !.lead = <<>>] ELSE c.peers[k]
      BY <1>2, <1>5, <2>1, WithoutLeadType
    <3>2. CASE k = 1
      <4>1. c.peers[1].lead = <<>>
        BY <1>2, <1>5, <3>2
      <4>2. PICK peer \in PeerRec : peer = c.peers[1]
        BY <1>2, <1>5, <3>2, ElementOfSeq
      <4>3. [peer EXCEPT !.lead = <<>>] = peer
        BY <4>1, <4>2 DEF PeerRec
      <4>. QED  BY <3>1, <3>2, <4>2, <4>3
    <3>3. CASE k # 1
      BY <3>1, <3>3
    <3>. QED  BY <3>2, <3>3
  <2>. QED  BY <1>2, <1>5, <2>1, <2>2, <2>3, SeqEqual
<1>8. TrimRight(Parse(once).header) = TrimRight(c.header)
  <2>1. PICK H \in Seq(Lines) : H = TrimRight(c.header)
    BY <1>2, TrimNoPeer
  <2>3. PICK one \in Seq(Lines) : one = <<Empty>>
    BY BlankLine
  <2>4. H \o one \in Seq(Lines)
    BY ConcatProperties
  <2>5. (H \o one) \o <<>> = H \o one
    BY <2>4, ConcatEmptySeq
  <2>6. Parse(once).header = TrimRight(c.header) \o <<Empty>>
    BY <1>4, <1>6, <2>1, <2>3, <2>5
  <2>. QED  BY <1>2, <2>6, TrimTwice
<1>9. Serialize(Parse(once)) = Serialize(c)
  BY <1>4, <1>7, <1>8, SerializeIs
<1>. QED  BY <1>1, <1>3, <1>9

-----------------------------------------------------------------------------
(* The interface's key. *)
LEMMA OwnKeysInHeader ==
  ASSUME NEW F \in Seq(Lines)
  PROVE  /\ OwnKeys(F) = At(Parse(F).header, "private")
         /\ \A i \in OwnKeys(F) : Parse(F).header[i] = F[i]
<1>1. PICK g \in Seq(Lines) : g = Parse(F).header
  BY ParseType
<1>2. /\ \A i \in 1..Len(g) : g[i] = F[i] /\ i \in 1..Len(F)
      /\ \A i \in 1..Len(F) : /\ F[i].kind = "private"
                              /\ \A q \in At(F, "peer") : i < q
                              => i \in 1..Len(g)
  BY <1>1, ParseType
<1>3. ASSUME NEW i \in OwnKeys(F)  PROVE i \in At(g, "private") /\ g[i] = F[i]
  <2>1. i \in At(F, "private") /\ \A q \in At(F, "peer") : i < q
    BY DEF OwnKeys
  <2>2. i \in 1..Len(F) /\ F[i].kind = "private"
    BY <2>1, AtRange
  <2>3. i \in 1..Len(g)
    BY <1>2, <2>1, <2>2
  <2>. QED  BY <1>2, <2>2, <2>3, AtRange
<1>4. ASSUME NEW i \in At(g, "private")  PROVE i \in OwnKeys(F)
  <2>1. i \in 1..Len(g) /\ g[i].kind = "private"
    BY AtRange
  <2>2. i \in 1..Len(F) /\ F[i].kind = "private"
    BY <1>2, <2>1
  <2>3. i \in At(F, "private")
    BY <2>2, AtRange
  <2>4. ASSUME NEW q \in At(F, "peer")  PROVE i < q
    <3>1. q \in 1..Len(F) /\ F[q].kind = "peer"
      BY AtRange
    <3>2. q \notin 1..Len(g)
      BY <1>1, <1>2, <3>1, ParseType
    <3>3. Len(g) \in Nat /\ Len(F) \in Nat
      BY LenProperties
    <3>. QED  BY <2>1, <3>1, <3>2, <3>3
  <2>. QED  BY <2>3, <2>4 DEF OwnKeys
<1>. QED  BY <1>1, <1>3, <1>4

LEMMA HeaderKeys ==
  ASSUME NEW h \in Seq(Lines), NEW lead \in Seq(Of({"note"})), NEW g,
         g = TrimRight(h) \o <<Empty>> \o lead
  PROVE  /\ At(g, "private") = At(h, "private")
         /\ \A i \in At(h, "private") : g[i] = h[i]
<1>1. PICK t : TrimmedAt(h, t)
  BY TrimExists
<1>2. PICK H \in Seq(Lines) : H = TrimRight(h)
  BY <1>1 DEF TrimmedAt
<1>3. /\ t \in Nat /\ t <= Len(h) /\ Len(H) = t /\ \A i \in 1..t : H[i] = h[i]
      /\ \A i \in 1..Len(h) : t < i => h[i].kind = "empty"
  BY <1>1, <1>2 DEF TrimmedAt
<1>4. PICK one \in Seq(Lines) : one = <<Empty>> /\ Len(one) = 1 /\ one[1] = Empty
  BY BlankLine
<1>5. PICK u \in Seq(Lines) : u = H \o one
  BY ConcatProperties
<1>6. lead \in Seq(Lines) /\ \A i \in 1..Len(lead) : lead[i].kind = "note"
  <2>1. Of({"note"}) \subseteq Lines
    BY DEF Of
  <2>2. \A i \in 1..Len(lead) : lead[i] \in Of({"note"})
    BY ElementOfSeq
  <2>. QED  BY <2>1, <2>2, SeqMonotonic DEF Of
<1>7. g = u \o lead /\ g \in Seq(Lines)
  BY <1>2, <1>4, <1>5, <1>6, ConcatProperties
<1>8. Joined(u, H, one)
  BY <1>5, Join
<1>9. Joined(g, u, lead)
  BY <1>6, <1>7, Join
<1>10. Len(u) = t + 1 /\ (\A i \in 1..t : u[i] = H[i]) /\ u[t + 1] = Empty
  <2>1. 1 \in 1..1
    BY <1>3
  <2>. QED  BY <1>3, <1>4, <1>8, <2>1 DEF Joined
<1>11. PICK l \in Nat : l = Len(lead)
  BY LenProperties
<1>12. PICK c \in Nat : c = t + 1
  BY <1>3
<1>13. /\ Len(g) = c + l
       /\ \A i \in 1..c : g[i] = u[i]
       /\ \A i \in 1..l : g[c + i] = lead[i]
  BY <1>9, <1>10, <1>11, <1>12 DEF Joined
<1>14. PICK m \in Nat : m = Len(h)
  BY LenProperties
<1>15. ASSUME NEW i \in 1..t  PROVE g[i] = h[i] /\ i \in 1..Len(g) /\ i \in 1..m
  <2>1. i \in 1..c /\ i \in 1..(c + l) /\ i \in 1..m
    BY <1>3, <1>11, <1>12, <1>14
  <2>. QED  BY <1>3, <1>10, <1>13, <2>1
<1>16. ASSUME NEW i \in At(h, "private")  PROVE i \in 1..t
  <2>1. i \in 1..m /\ h[i].kind = "private"
    BY <1>14, AtRange
  <2>2. ~(t < i)
    BY <1>3, <1>14, <2>1
  <2>. QED  BY <1>3, <2>1, <2>2
<1>17. ASSUME NEW i \in At(g, "private")  PROVE i \in 1..t
  <2>1. i \in 1..Len(g) /\ g[i].kind = "private"
    BY <1>7, AtRange
  <2>2. i # c
    <3>1. c \in 1..c
      BY <1>3, <1>12
    <3>2. g[c].kind = "empty"
      BY <1>10, <1>12, <1>13, <3>1, FixedLines
    <3>. QED  BY <2>1, <3>2
  <2>3. ~(i > c)
    <3>1. ASSUME i > c  PROVE FALSE
      <4>1. PICK j : j = i - c
        OBVIOUS
      <4>2. j \in 1..l /\ i = c + j
        <5>1. i \in 1..(c + l)
          BY <1>13, <2>1
        <5>. QED  BY ONLY <1>11, <1>12, <3>1, <4>1, <5>1, SMTT(30)
      <4>3. g[i].kind = "note"
        BY <1>6, <1>11, <1>13, <4>2
      <4>. QED  BY <2>1, <4>3
    <3>. QED  BY <3>1
  <2>4. i \in Nat /\ 1 <= i
    BY <2>1
  <2>. QED  BY <1>3, <1>12, <2>2, <2>3, <2>4
<1>18. ASSUME NEW i \in At(h, "private")  PROVE i \in At(g, "private") /\ g[i] = h[i]
  <2>1. i \in 1..t /\ h[i].kind = "private"
    BY <1>16, AtRange
  <2>2. g[i] = h[i] /\ i \in 1..Len(g)
    BY <1>15, <2>1
  <2>. QED  BY <1>7, <2>1, <2>2, AtRange
<1>19. ASSUME NEW i \in At(g, "private")  PROVE i \in At(h, "private")
  <2>1. i \in 1..t /\ g[i].kind = "private"
    BY <1>7, <1>17, AtRange
  <2>2. g[i] = h[i] /\ i \in 1..m
    BY <1>15, <2>1
  <2>. QED  BY <1>14, <2>1, <2>2, AtRange
<1>. QED  BY <1>18, <1>19

LEMMA FirstLeadType ==
  ASSUME NEW P \in Seq(PeerRec)
  PROVE  FirstLead(P) \in Seq(Of({"note"})) /\ FirstLead(P) \in Seq(Lines)
<1>1. FirstLead(P) \in Seq(Of({"note"}))
  <2>1. CASE P = <<>>
    BY <2>1, EmptySeq DEF FirstLead
  <2>2. CASE P # <<>>
    <3>1. 1 \in 1..Len(P)
      <4>1. Len(P) \in Nat /\ Len(P) # 0
        BY <2>2, EmptySeq, LenProperties
      <4>. QED  BY <4>1
    <3>2. P[1] \in PeerRec
      BY <3>1, ElementOfSeq
    <3>. QED  BY <2>2, <3>2 DEF FirstLead, PeerRec
  <2>. QED  BY <2>1, <2>2
<1>. QED  BY <1>1, SeqMonotonic DEF Of

LEMMA KeyKept ==
  ASSUME NEW F \in Seq(Lines), NEW c, c.header = Parse(F).header, c.peers \in Seq(PeerRec)
  PROVE  InterfacePrivateKey(Parse(Serialize(c)))
           = IF OwnKeys(F) = {} THEN "" ELSE F[Min(OwnKeys(F))].val
<1>1. PICK h \in Seq(Lines) : h = Parse(F).header /\ NoPeer(h)
  BY ParseType, ParseHeader
<1>2. PICK g : g = Parse(Serialize(c)).header
  OBVIOUS
<1>3. g = TrimRight(h) \o <<Empty>> \o FirstLead(c.peers)
  BY <1>1, <1>2, RoundTrip
<1>4. /\ At(g, "private") = At(h, "private")
      /\ \A i \in At(h, "private") : g[i] = h[i]
  BY <1>3, FirstLeadType, HeaderKeys
<1>5. OwnKeys(F) = At(h, "private") /\ \A i \in OwnKeys(F) : h[i] = F[i]
  BY <1>1, OwnKeysInHeader
<1>6. InterfacePrivateKey(Parse(Serialize(c)))
        = IF At(g, "private") = {} THEN "" ELSE g[Min(At(g, "private"))].val
  BY <1>2 DEF InterfacePrivateKey
<1>7. CASE OwnKeys(F) = {}
  BY <1>4, <1>5, <1>6, <1>7, Zenon
<1>8. CASE OwnKeys(F) # {}
  <2>1. OwnKeys(F) \in SUBSET Nat
    BY <1>5, AtRange
  <2>2. Min(OwnKeys(F)) \in OwnKeys(F)
    BY <1>8, <2>1, MinLeast
  <2>3. g[Min(OwnKeys(F))] = F[Min(OwnKeys(F))]
    BY <1>4, <1>5, <2>2
  <2>. QED  BY <1>4, <1>5, <1>6, <1>8, <2>3, Zenon
<1>. QED  BY <1>7, <1>8, Zenon

-----------------------------------------------------------------------------
(* The comments of a block, of all blocks and of a file. *)
RemarksOf(P) == [k \in DOMAIN P |-> Remarks(P[k])]
AllRemarks(P) == FlattenSeq(RemarksOf(P))

LEMMA RemarksType ==
  ASSUME NEW peer \in PeerRec
  PROVE  Remarks(peer) \in Seq(Lines)
<1>1. peer.lead \in Seq(Lines) /\ peer.body \in Seq(Of(Comment))
  BY BlockTypes
<1>2. peer.body \in Seq(Lines)
  BY <1>1, SeqMonotonic DEF Of
<1>3. Comments(peer.body) \in Seq(Lines)
  BY <1>2, OnlyType DEF Comments
<1>. QED  BY <1>1, <1>3, ConcatProperties DEF Remarks

LEMMA RemarksOfType ==
  ASSUME NEW P \in Seq(PeerRec), NEW n \in Nat, n = Len(P)
  PROVE  /\ RemarksOf(P) \in Seq(Seq(Lines)) /\ Len(RemarksOf(P)) = n
         /\ \A k \in 1..n : RemarksOf(P)[k] = Remarks(P[k]) /\ P[k] \in PeerRec
<1>1. DOMAIN P = 1..n
  BY LenProperties
<1>2. RemarksOf(P) = [k \in 1..n |-> Remarks(P[k])]
  BY <1>1 DEF RemarksOf
<1>3. ASSUME NEW k \in 1..n  PROVE P[k] \in PeerRec /\ Remarks(P[k]) \in Seq(Lines)
  BY ElementOfSeq, RemarksType
<1>4. RemarksOf(P) \in [1..n -> Seq(Lines)]
  BY <1>2, <1>3
<1>5. RemarksOf(P) \in Seq(Seq(Lines))
  BY <1>4, IsASeq
<1>6. Len(RemarksOf(P)) = n
  BY <1>4, <1>5, LenProperties
<1>. QED  BY <1>2, <1>3, <1>5, <1>6

LEMMA AllRemarksType ==
  ASSUME NEW P \in Seq(PeerRec)
  PROVE  AllRemarks(P) \in Seq(Lines)
<1>1. PICK n \in Nat : n = Len(P)
  BY LenProperties
<1>2. RemarksOf(P) \in Seq(Seq(Lines))
  BY <1>1, RemarksOfType
<1>. QED  BY <1>2, FlattenType DEF AllRemarks

LEMMA CommentsType ==
  ASSUME NEW s \in Seq(Lines)
  PROVE  Comments(s) \in Seq(Lines)
BY OnlyType DEF Comments

LEMMA CommentsConcat ==
  ASSUME NEW s \in Seq(Lines), NEW t \in Seq(Lines)
  PROVE  Comments(s \o t) = Comments(s) \o Comments(t)
BY OnlyConcat DEF Comments

LEMMA CommentsNone ==
  ASSUME NEW s \in Seq(Lines), \A i \in 1..Len(s) : s[i].kind # "note"
  PROVE  Comments(s) = <<>>
<1>1. \A i \in 1..Len(s) : s[i].kind \notin {"note"}
  OBVIOUS
<1>. QED  BY <1>1, OnlyNone DEF Comments

(* A line that is no comment adds none. *)
LEMMA CommentsSkip ==
  ASSUME NEW s \in Seq(Lines), NEW line \in Lines, line.kind # "note"
  PROVE  /\ s \o <<line>> \in Seq(Lines)
         /\ Comments(s \o <<line>>) = Comments(s)
         /\ <<line>> \in Seq(Lines) /\ Comments(<<line>>) = <<>>
<1>. <<line>> \in Seq(Lines)
  OBVIOUS
<1>1. PICK one \in Seq(Lines) : one = <<line>>
  OBVIOUS
<1>2. Comments(one) = <<>>
  BY <1>1, OnlyOne DEF Comments, Part
<1>3. Comments(s) \o <<>> = Comments(s)
  BY CommentsType, ConcatEmptySeq
<1>4. s \o one \in Seq(Lines)
  BY ConcatProperties
<1>5. Comments(s \o one) = Comments(s) \o Comments(one)
  BY CommentsConcat
<1>. QED  BY <1>1, <1>2, <1>3, <1>4, <1>5

LEMMA BelowComments ==
  ASSUME NEW peer \in PeerRec
  PROVE  Comments(Below(peer)) = Comments(peer.body)
<1>1. PICK b \in Seq(Lines) : b = Below(peer)
  BY BlockTypes
<1>2. PICK u \in Seq(Lines) : u = b \o <<Empty>>
  BY FixedLines, CommentsSkip
<1>3. Comments(u) = Comments(b)
  BY <1>2, FixedLines, CommentsSkip
<1>4. Only(u, Comment) = peer.body
  BY <1>1, <1>2, BelowRead
<1>5. {"note"} \subseteq Comment
  BY DEF Comment
<1>6. Only(Only(u, Comment), {"note"}) = Only(u, {"note"})
  BY <1>5, OnlyTwice
<1>. QED  BY <1>1, <1>3, <1>4, <1>6 DEF Comments

LEMMA AboveComments ==
  ASSUME NEW peer \in PeerRec
  PROVE  Comments(Above(peer)) = peer.lead
<1>1. PICK l \in Seq(Lines) : l = peer.lead
  BY BlockTypes
<1>2. PICK o \in Seq(Lines) : o = Optional("name", peer.name)
  BY BlockTypes
<1>3. Comments(l \o o) = Comments(l) \o Comments(o)
  BY CommentsConcat
<1>4. Comments(l) = l
  BY <1>1, OnlyAll DEF Comments, PeerRec
<1>5. Comments(o) = <<>>
  <2>1. "name" \in Kinds /\ {"name"} \cap {"note"} = {} /\ {"name"} \in SUBSET Kinds
    BY DEF Kinds
  <2>2. o \in Seq(Of({"name"}))
    BY <1>2, <2>1, OptionalType DEF PeerRec
  <2>. QED  BY <2>1, <2>2, OnlyOther DEF Comments
<1>6. l \o <<>> = l
  BY ConcatEmptySeq
<1>. QED  BY <1>1, <1>2, <1>3, <1>4, <1>5, <1>6 DEF Above

LEMMA BlockComments ==
  ASSUME NEW peer \in PeerRec
  PROVE  Comments(Block(peer)) = Remarks(peer)
<1>1. PICK a \in Seq(Lines) : a = Above(peer)
  BY BlockTypes
<1>2. PICK b \in Seq(Lines) : b = Below(peer)
  BY BlockTypes
<1>3. PICK u \in Seq(Lines) : u = <<Empty>> \o a /\ Comments(u) = Comments(a)
  <2>1. PICK one \in Seq(Lines) : one = <<Empty>> /\ Comments(one) = <<>>
    BY FixedLines, CommentsSkip
  <2>2. one \o a \in Seq(Lines) /\ Comments(one \o a) = Comments(one) \o Comments(a)
    BY CommentsConcat, ConcatProperties
  <2>3. <<>> \o Comments(a) = Comments(a)
    BY CommentsType, ConcatEmptySeq
  <2>. QED  BY <2>1, <2>2, <2>3
<1>4. PICK v \in Seq(Lines) : v = u \o <<PeerHeader>> /\ Comments(v) = Comments(u)
  BY FixedLines, CommentsSkip
<1>5. Comments(v \o b) = Comments(v) \o Comments(b)
  BY CommentsConcat
<1>6. Block(peer) = v \o b
  BY <1>1, <1>2, <1>3, <1>4 DEF Block
<1>7. Comments(v) = peer.lead /\ Comments(b) = Comments(peer.body)
  BY <1>1, <1>2, <1>3, <1>4, AboveComments, BelowComments
<1>. QED  BY <1>5, <1>6, <1>7 DEF Remarks

LEMMA BlocksComments ==
  ASSUME NEW P \in Seq(PeerRec)
  PROVE  /\ FlattenSeq(Blocks(P)) \in Seq(Lines)
         /\ Comments(FlattenSeq(Blocks(P))) = AllRemarks(P)
<1>1. PICK n \in Nat : n = Len(P)
  BY LenProperties
<1>2. /\ Blocks(P) \in Seq(Seq(Lines)) /\ Len(Blocks(P)) = n
      /\ \A k \in 1..n : Blocks(P)[k] = Block(P[k]) /\ P[k] \in PeerRec
  BY <1>1, BlocksType
<1>3. PICK B \in Seq(Seq(Lines)) : B = Blocks(P) /\ Len(B) = n
  BY <1>2
<1>4. PICK R \in Seq(Seq(Lines)) : R = RemarksOf(P) /\ Len(R) = n
  BY <1>1, RemarksOfType
<1>5. ASSUME NEW k \in 1..n  PROVE Comments(B[k]) = R[k] /\ B[k] \in Seq(Lines)
  <2>1. B[k] = Block(P[k]) /\ P[k] \in PeerRec
    BY <1>2, <1>3
  <2>2. R[k] = Remarks(P[k])
    BY <1>1, <1>4, RemarksOfType
  <2>3. B[k] \in Seq(Lines)
    BY <1>3, ElementOfSeq
  <2>. QED  BY <2>1, <2>2, <2>3, BlockComments
<1>6. PICK g \in [0..n -> Seq(Lines)] : g[0] = <<>> /\ \A i \in 1..n : g[i] = g[i-1] \o B[i]
  <2>1. \E g \in [0..Len(B) -> Seq(Lines)] :
          g[0] = <<>> /\ \A i \in 1..Len(B) : g[i] = g[i-1] \o B[i]
    BY FlattenFoldExists
  <2>. QED  BY <1>3, <2>1
<1>7. FlattenSeq(B) = g[n]
  BY <1>3, <1>6, FlattenFold
<1> DEFINE h == [i \in 0..n |-> Comments(g[i])]
<1>8. h \in [0..n -> Seq(Lines)]
  BY CommentsType
<1>9. h[0] = <<>>
  BY <1>6, OnlyEmpty DEF Comments
<1>10. ASSUME NEW i \in 1..n  PROVE h[i] = h[i-1] \o R[i]
  <2>1. i \in 0..n /\ i - 1 \in 0..n
    OBVIOUS
  <2>2. PICK x \in Seq(Lines) : x = g[i-1]
    BY <2>1
  <2>3. PICK y \in Seq(Lines) : y = B[i] /\ Comments(y) = R[i]
    BY <1>5
  <2>4. g[i] = x \o y
    BY <1>6, <2>2, <2>3
  <2>5. Comments(x \o y) = Comments(x) \o Comments(y)
    BY CommentsConcat
  <2>6. h[i] = Comments(x \o y) /\ h[i-1] = Comments(x)
    BY <2>1, <2>2, <2>4
  <2>. QED  BY <2>3, <2>5, <2>6
<1>11. h[n] = Comments(g[n]) /\ g[n] \in Seq(Lines)
  BY <1>6
<1> HIDE DEF h
<1>12. FlattenSeq(R) = h[n]
  BY <1>4, <1>8, <1>9, <1>10, FlattenFold
<1>. QED  BY <1>3, <1>4, <1>7, <1>11, <1>12 DEF AllRemarks

LEMMA TrimComments ==
  ASSUME NEW h \in Seq(Lines)
  PROVE  TrimRight(h) \in Seq(Lines) /\ Comments(TrimRight(h)) = Comments(h)
<1>1. PICK t : TrimmedAt(h, t)
  BY TrimExists
<1>2. PICK m \in Nat : m = Len(h)
  BY LenProperties
<1>3. t \in Nat /\ t <= m /\ TrimRight(h) = SubSeq(h, 1, t) /\ TrimRight(h) \in Seq(Lines)
  BY <1>1, <1>2 DEF TrimmedAt
<1>4. \A i \in 1..m : t < i => h[i].kind = "empty"
  BY <1>1, <1>2 DEF TrimmedAt
<1>5. PICK u \in Seq(Lines) : u = SubSeq(h, 1, t)
  BY <1>3
<1>6. PICK a \in Nat : a = t + 1
  BY <1>3
<1>7. 1 <= a /\ a - 1 <= m /\ m <= Len(h)
  BY <1>2, <1>3, <1>6
<1>8. PICK v \in Seq(Lines) : /\ v = SubSeq(h, a, m) /\ Len(v) = m - a + 1
                             /\ \A i \in 1..(m - a + 1) : v[i] = h[a + i - 1]
  <2>1. /\ SubSeq(h, a, m) \in Seq(Lines) /\ Len(SubSeq(h, a, m)) = m - a + 1
        /\ \A i \in 1..(m - a + 1) : SubSeq(h, a, m)[i] = h[a + i - 1]
    <3>1. m \in Int
      OBVIOUS
    <3>. QED  BY <1>7, <3>1, Slice
  <2>. QED  BY <2>1
<1>9. \A i \in 1..Len(v) : v[i].kind # "note"
  <2>1. ASSUME NEW i \in 1..(m - a + 1)  PROVE v[i].kind # "note"
    <3>1. a + i - 1 \in 1..m /\ t < a + i - 1
      BY <1>3, <1>6
    <3>2. h[a + i - 1].kind = "empty"
      BY <1>4, <3>1
    <3>. QED  BY <1>8, <3>2
  <2>. QED  BY <1>8, <2>1
<1>10. Comments(v) = <<>>
  BY <1>9, CommentsNone
<1>11. h = u \o v
  <2>1. 1 \in 1..(Len(h) + 1) /\ t \in (1 - 1)..Len(h) /\ m \in t..Len(h)
    BY <1>2, <1>3
  <2>2. SubSeq(h, 1, t) \o SubSeq(h, t + 1, m) = SubSeq(h, 1, m)
    BY <2>1, ConcatAdjacentSubSeq
  <2>3. SubSeq(h, 1, m) = h
    BY <1>2, SubSeqFull
  <2>. QED  BY <1>5, <1>6, <1>8, <2>2, <2>3
<1>12. Comments(u \o v) = Comments(u) \o Comments(v)
  BY CommentsConcat
<1>13. Comments(u) \o <<>> = Comments(u)
  BY CommentsType, ConcatEmptySeq
<1>. QED  BY <1>3, <1>5, <1>10, <1>11, <1>12, <1>13

LEMMA CommentsWritten ==
  ASSUME NEW c, c.header \in Seq(Lines), c.peers \in Seq(PeerRec)
  PROVE  Comments(Serialize(c)) = Comments(c.header) \o AllRemarks(c.peers)
<1>1. PICK h \in Seq(Lines) : h = TrimRight(c.header) /\ Comments(h) = Comments(c.header)
  BY TrimComments
<1>2. PICK b \in Seq(Lines) : b = FlattenSeq(Blocks(c.peers)) /\ Comments(b) = AllRemarks(c.peers)
  BY BlocksComments
<1>3. PICK u \in Seq(Lines) : u = h \o b
  BY ConcatProperties
<1>4. Comments(u \o <<Empty>>) = Comments(u)
  BY FixedLines, CommentsSkip
<1>5. Comments(u) = Comments(h) \o Comments(b)
  BY <1>3, CommentsConcat
<1>. QED  BY <1>1, <1>2, <1>3, <1>4, <1>5, SerializeIs

LEMMA SlotComments ==
  ASSUME NEW lead \in Seq(Lines), NEW line \in Lines, line.kind # "note",
         NEW body \in Seq(Lines)
  PROVE  Comments((lead \o <<line>>) \o body) = Remarks(PeerOf(lead, body))
<1>1. PICK u \in Seq(Lines) : u = lead \o <<line>> /\ Comments(u) = Comments(lead)
  BY CommentsSkip
<1>2. Comments(u \o body) = Comments(u) \o Comments(body)
  BY CommentsConcat
<1>3. PeerOf(lead, body).lead = Only(lead, {"note"}) /\ PeerOf(lead, body).body = Only(body, Comment)
  BY DEF PeerOf
<1>4. Only(Only(body, Comment), {"note"}) = Only(body, {"note"})
  <2>1. {"note"} \subseteq Comment
    BY DEF Comment
  <2>. QED  BY <2>1, OnlyTwice
<1>5. Remarks(PeerOf(lead, body)) = Only(lead, {"note"}) \o Only(body, {"note"})
  BY <1>3, <1>4 DEF Remarks, Comments
<1>. QED  BY <1>1, <1>2, <1>5 DEF Comments

(* A file is its header and its blocks, in order. *)
LEMMA CommentsParsed ==
  ASSUME NEW F \in Seq(Lines)
  PROVE  Comments(F) = Comments(Parse(F).header) \o AllRemarks(Parse(F).peers)
<1>1. CASE At(F, "peer") = {}
  <2>1. Parse(F).header = F /\ Parse(F).peers = <<>>
    BY <1>1, ParseNoPeer
  <2>2. PICK P \in Seq(PeerRec) : P = <<>> /\ Len(P) = 0
    BY EmptySeq
  <2>3. PICK R \in Seq(Seq(Lines)) : R = RemarksOf(P) /\ Len(R) = 0
    BY <2>2, RemarksOfType
  <2>4. AllRemarks(P) = <<>>
    BY <2>3, EmptySeq, FlattenEmpty DEF AllRemarks
  <2>5. Comments(F) \o <<>> = Comments(F)
    BY CommentsType, ConcatEmptySeq
  <2>. QED  BY <2>1, <2>2, <2>4, <2>5
<1>2. CASE At(F, "peer") # {}
  <2>1. PICK n, s, p : Shape(F, n, s, p)
    BY <1>2, ShapeExists
  <2>2. /\ n \in Nat /\ 1 <= n /\ s \in [1..(n+1) -> Nat] /\ p \in [1..n -> Nat]
        /\ 1 <= s[1] /\ s[n+1] = Len(F) + 1
        /\ \A k \in 1..n : s[k] <= p[k] /\ p[k] < s[k+1]
    BY <2>1 DEF Shape
  <2>3. /\ Parse(F).header = SubSeq(F, 1, s[1] - 1)
        /\ Parse(F).peers = [k \in 1..n |-> PeerOf(SubSeq(F, s[k], p[k] - 1),
                                                   SubSeq(F, p[k] + 1, s[k+1] - 1))]
        /\ Parse(F).peers \in Seq(PeerRec) /\ Len(Parse(F).peers) = n
    BY <2>1, ShapeParse
  <2>4. PICK P \in Seq(PeerRec) : P = Parse(F).peers /\ Len(P) = n
    BY <2>3
  <2>5. PICK R \in Seq(Seq(Lines)) : R = RemarksOf(P) /\ Len(R) = n
    BY <2>2, <2>4, RemarksOfType
  <2>6. PICK m \in Nat : m = Len(F)
    BY LenProperties
  <2>7. ASSUME NEW k \in 1..n
        PROVE  /\ s[k] \in 1..m /\ s[k+1] \in (s[k] + 1)..(m + 1)
               /\ s[k] \in Nat /\ s[k+1] \in Nat
    <3>1. /\ s[k] \in Nat /\ s[k+1] \in Nat /\ p[k] \in Nat
          /\ 1 <= s[k] /\ s[k+1] <= m + 1
      BY <2>1, <2>6, ShapeOrder
    <3>2. s[k] <= p[k] /\ p[k] < s[k+1]
      BY <2>2
    <3>. QED  BY <3>1, <3>2, SMTT(30)
  <2>8. ASSUME NEW k \in 1..n
        PROVE  \E slice \in Seq(Lines) :
                 slice = SubSeq(F, s[k], s[k+1] - 1) /\ Comments(slice) = R[k]
    <3>1. PICK x \in Nat : x = s[k]
      BY <2>7
    <3>2. PICK z \in Nat : z = s[k+1]
      BY <2>7
    <3>3. PICK y \in Nat : y = p[k]
      BY <2>2
    <3>4. 1 <= x /\ x <= y /\ y < z /\ z <= m + 1
      BY <2>2, <2>7, <3>1, <3>2, <3>3
    <3>5. PICK lead \in Seq(Lines) : lead = SubSeq(F, x, y - 1)
      BY <2>1, <3>1, <3>3, ShapeSlices
    <3>6. PICK body \in Seq(Lines) : body = SubSeq(F, y + 1, z - 1)
      BY <2>1, <3>2, <3>3, ShapeSlices
    <3>7. PICK line \in Lines : line = F[y] /\ line.kind # "note"
      <4>1. y \in 1..Len(F) /\ F[y].kind = "peer"
        BY <2>1, <3>3, ShapeSlices
      <4>2. F[y] \in Lines
        BY <4>1, ElementOfSeq
      <4>. QED  BY <4>1, <4>2
    <3>8. PICK u \in Seq(Lines) : u = lead \o <<line>>
      BY <3>7, CommentsSkip
    <3>9. u = SubSeq(F, x, y)
      <4>1. x \in 1..Len(F) /\ y \in x..Len(F)
        BY <2>6, <3>4, SMTT(30)
      <4>2. SubSeq(F, x, y) = SubSeq(F, x, y - 1) \o <<F[y]>>
        BY <4>1, SubSeqRecursiveSecond
      <4>. QED  BY <3>5, <3>7, <3>8, <4>2
    <3>10. u \o body = SubSeq(F, x, z - 1)
      <4>1. x \in 1..(Len(F) + 1) /\ y \in (x - 1)..Len(F) /\ z - 1 \in y..Len(F)
        BY <2>6, <3>4
      <4>2. SubSeq(F, x, y) \o SubSeq(F, y + 1, z - 1) = SubSeq(F, x, z - 1)
        BY <4>1, ConcatAdjacentSubSeq
      <4>. QED  BY <3>6, <3>9, <4>2
    <3>11. u \o body \in Seq(Lines)
      BY ConcatProperties
    <3>12. Comments(u \o body) = Remarks(PeerOf(lead, body))
      BY <3>7, <3>8, SlotComments
    <3>13. R[k] = Remarks(P[k]) /\ P[k] = PeerOf(lead, body)
      <4>1. R[k] = Remarks(P[k])
        BY <2>2, <2>4, <2>5, RemarksOfType
      <4>2. P[k] = PeerOf(SubSeq(F, s[k], p[k] - 1), SubSeq(F, p[k] + 1, s[k+1] - 1))
        BY <2>3, <2>4
      <4>. QED  BY <4>1, <4>2, <3>1, <3>2, <3>3, <3>5, <3>6
    <3>. QED  BY <3>1, <3>2, <3>10, <3>11, <3>12, <3>13
  <2>9. PICK first \in Nat : first = s[1] /\ first \in 1..m
    <3>1. 1 \in 1..n
      BY <2>2
    <3>. QED  BY <2>7, <3>1
  <2>10. \A k \in 0..n : s[k+1] \in first..(m + 1)
    <3>1. s \in [1..(n+1) -> Int]
      BY <2>2
    <3>2. \A k \in 1..((n+1)-1) : s[k] < s[k+1]
      <4>1. (n + 1) - 1 = n
        BY <2>2
      <4>2. ASSUME NEW k \in 1..n  PROVE s[k] < s[k+1]
        <5>1. PICK x \in Nat : x = s[k]
          BY <2>7
        <5>2. s[k+1] \in (x + 1)..(m + 1)
          BY <2>7, <5>1
        <5>. QED  BY <5>1, <5>2, SMTT(30)
      <4>. QED  BY <4>1, <4>2
    <3>3. n + 1 \in Nat
      BY <2>2
    <3>4. \A j, k \in 1..(n+1) : j < k => s[j] < s[k]
      BY <3>1, <3>2, <3>3, Increasing
    <3>5. ASSUME NEW k \in 0..n  PROVE s[k+1] \in first..(m + 1)
      <4>1. k + 1 \in 1..(n+1) /\ 1 \in 1..(n+1) /\ s[k+1] \in Nat
        BY <2>2
      <4>2. CASE k = 0
        BY <2>9, <4>2
      <4>3. CASE k # 0
        <5>1. k \in 1..n /\ 1 < k + 1
          BY <4>3
        <5>2. s[1] < s[k+1]
          BY <3>4, <4>1, <5>1
        <5>3. s[k+1] <= m + 1
          BY <2>7, <4>1, <5>1
        <5>. QED  BY <2>9, <4>1, <5>2, <5>3, SMTT(30)
      <4>. QED  BY <4>2, <4>3
    <3>. QED  BY <3>5
  <2> DEFINE g == [k \in 0..n |-> Comments(SubSeq(F, first, s[k+1] - 1))]
  <2>11. ASSUME NEW k \in 0..n
         PROVE  SubSeq(F, first, s[k+1] - 1) \in Seq(Lines) /\ s[k+1] - 1 \in Int
    <3>1. PICK b \in Int : b = s[k+1] - 1
      BY <2>10, SMTT(30)
    <3>2. 1 <= first /\ first - 1 <= b /\ b <= Len(F)
      BY <2>6, <2>9, <2>10, <3>1, SMTT(30)
    <3>3. SubSeq(F, first, b) \in Seq(Lines)
      BY <3>2, Slice
    <3>. QED  BY <3>1, <3>3
  <2>12. g \in [0..n -> Seq(Lines)]
    BY <2>11, CommentsType
  <2>13. g[0] = <<>>
    <3>1. s[0+1] - 1 = first - 1
      BY <2>9
    <3>2. SubSeq(F, first, first - 1) = <<>>
      BY <2>9, SubSeqEmpty
    <3>3. 0 \in 0..n
      BY <2>2
    <3>. QED  BY <3>1, <3>2, <3>3, OnlyEmpty DEF Comments
  <2>14. ASSUME NEW k \in 1..n  PROVE g[k] = g[k-1] \o R[k]
    <3>1. k \in 0..n /\ k - 1 \in 0..n /\ (k - 1) + 1 = k
      BY ONLY <2>2, <2>14
    <3>2. PICK slice \in Seq(Lines) : slice = SubSeq(F, s[k], s[k+1] - 1) /\ Comments(slice) = R[k]
      BY <2>8
    <3>3. PICK x \in Nat : x = s[k]
      BY <2>7
    <3>4. PICK z \in Nat : z = s[k+1]
      BY <2>7
    <3>5. x \in first..(m+1) /\ z \in (x+1)..(m+1)
      BY <2>7, <2>10, <3>1, <3>3, <3>4
    <3>6. PICK before \in Seq(Lines) : before = SubSeq(F, first, x - 1)
      BY <2>11, <3>1, <3>3
    <3>7. before \o slice = SubSeq(F, first, z - 1)
      <4>1. /\ first \in 1..(Len(F) + 1) /\ x - 1 \in (first - 1)..Len(F)
            /\ z - 1 \in (x - 1)..Len(F) /\ (x - 1) + 1 = x
        BY <2>6, <2>9, <3>5, SMTT(30)
      <4>2. SubSeq(F, first, x - 1) \o SubSeq(F, (x - 1) + 1, z - 1) = SubSeq(F, first, z - 1)
        BY <4>1, ConcatAdjacentSubSeq
      <4>. QED  BY <3>2, <3>3, <3>4, <3>6, <4>1, <4>2
    <3>8. Comments(before \o slice) = Comments(before) \o Comments(slice)
      BY CommentsConcat
    <3>9. g[k] = Comments(SubSeq(F, first, z - 1)) /\ g[k-1] = Comments(before)
      BY <3>1, <3>3, <3>4, <3>6
    <3>. QED  BY <3>2, <3>7, <3>8, <3>9
  <2>15. g[n] = Comments(SubSeq(F, first, m))
    <3>1. n \in 0..n /\ s[n+1] - 1 = m
      BY <2>2, <2>6
    <3>. QED  BY <3>1
  <2> HIDE DEF g
  <2>16. AllRemarks(P) = g[n]
    BY <2>5, <2>12, <2>13, <2>14, FlattenFold DEF AllRemarks
  <2>17. PICK b \in Int : b = first - 1 /\ 0 <= b /\ b <= m
    BY <2>9
  <2>18. PICK h \in Seq(Lines) : h = SubSeq(F, 1, b)
    <3>1. 1 <= 1 /\ 1 - 1 <= b /\ b <= Len(F) /\ 1 \in Nat
      BY <2>6, <2>17
    <3>2. SubSeq(F, 1, b) \in Seq(Lines)
      BY <3>1, Slice
    <3>. QED  BY <3>2
  <2>19. PICK r \in Seq(Lines) : r = SubSeq(F, first, m)
    <3>1. 1 <= first /\ first - 1 <= m /\ m <= Len(F) /\ m \in Int
      BY <2>6, <2>9
    <3>2. SubSeq(F, first, m) \in Seq(Lines)
      BY <3>1, Slice
    <3>. QED  BY <3>2
  <2>20. F = h \o r
    <3>1. 1 \in 1..(Len(F) + 1) /\ b \in (1 - 1)..Len(F) /\ m \in b..Len(F) /\ b + 1 = first
      BY <2>6, <2>9, <2>17, SMTT(30)
    <3>2. SubSeq(F, 1, b) \o SubSeq(F, b + 1, m) = SubSeq(F, 1, m)
      BY <3>1, ConcatAdjacentSubSeq
    <3>3. SubSeq(F, 1, m) = F
      BY <2>6, SubSeqFull
    <3>. QED  BY <2>18, <2>19, <3>1, <3>2, <3>3
  <2>21. Comments(h \o r) = Comments(h) \o Comments(r)
    BY CommentsConcat
  <2>22. Parse(F).header = h
    BY <2>3, <2>9, <2>17, <2>18
  <2>. QED  BY <2>4, <2>15, <2>16, <2>19, <2>20, <2>21, <2>22
<1>. QED  BY <1>1, <1>2

-----------------------------------------------------------------------------
(* Edits. *)
LEMMA PeersType ==
  ASSUME TypeOK
  PROVE  Peers \in Seq(PeerRec)
BY ParseType DEF TypeOK, Peers

LEMMA CalledIn ==
  ASSUME NEW P \in Seq(PeerRec), NEW name, Called(P, name) # {}
  PROVE  Min(Called(P, name)) \in 1..Len(P)
<1>1. DOMAIN P = 1..Len(P) /\ Len(P) \in Nat
  BY LenProperties
<1>2. Called(P, name) \in SUBSET (1..Len(P))
  BY <1>1 DEF Called
<1>3. Called(P, name) \in SUBSET Nat
  BY <1>1, <1>2
<1>. QED  BY <1>2, <1>3, MinLeast

(* Every edit writes a sequence of peers of the right type.                *)
Written(P) ==
  /\ P \in Seq(PeerRec) /\ memory' = P
  /\ file' = Serialize([header |-> Parse(file).header, peers |-> P])

LEMMA AddWrites ==
  ASSUME TypeOK, NEW name \in Labels, NEW new \in NewBlocks, Add(name, new)
  PROVE  \E peer \in PeerRec :
           /\ Written(Append(Peers, peer)) /\ peer.lead = <<>> /\ peer.body = <<>>
<1> DEFINE p == [lead |-> <<>>, name |-> name, key |-> new.key, psk |-> new.psk,
                 ips |-> new.ips, body |-> <<>>]
<1>1. p \in PeerRec
  <2>1. <<>> \in Seq(Of({"note"})) /\ <<>> \in Seq(Of(Comment))
    BY EmptySeq
  <2>2. name \in Text /\ new.key \in Text /\ new.psk \in Text /\ new.ips \in Seq(Text)
    BY RequestsAssumption
  <2>. QED  BY <2>1, <2>2 DEF PeerRec
<1>2. p.lead = <<>> /\ p.body = <<>>
  OBVIOUS
<1>3. Commit(Append(Peers, p))
  BY DEF Add
<1> HIDE DEF p
<1>4. Append(Peers, p) \in Seq(PeerRec)
  BY <1>1, PeersType, AppendProperties
<1>. QED  BY <1>1, <1>2, <1>3, <1>4 DEF Commit, Written

LEMMA KillWrites ==
  ASSUME TypeOK, NEW name \in Labels, Kill(name)
  PROVE  Written(RemoveAt(Peers, Min(Called(Peers, name))))
<1>1. PICK P \in Seq(PeerRec) : P = Peers
  BY PeersType
<1>2. PICK k \in 1..Len(P) : k = Min(Called(P, name))
  BY <1>1, CalledIn DEF Kill
<1>3. PICK before, after : Around(PeerRec, P, k, before, after)
  BY RemoveSplits
<1>4. RemoveAt(P, k) \in Seq(PeerRec)
  BY <1>3, ConcatProperties DEF Around
<1>5. Commit(RemoveAt(P, k))
  BY <1>1, <1>2 DEF Kill
<1>. QED  BY <1>1, <1>2, <1>4, <1>5 DEF Commit, Written

LEMMA RenameWrites ==
  ASSUME TypeOK, NEW name \in Labels, NEW newName \in Labels, Rename(name, newName)
  PROVE  \E P \in Seq(PeerRec) :
           /\ Written(P) /\ Len(P) = Len(Peers)
           /\ \A k \in 1..Len(P) : P[k].lead = Peers[k].lead /\ P[k].body = Peers[k].body
<1>1. PICK Q \in Seq(PeerRec) : Q = Peers
  BY PeersType
<1>2. PICK k \in 1..Len(Q) : k = Min(Called(Q, name))
  BY <1>1, CalledIn DEF Rename
<1>3. PICK P : P = [Q EXCEPT ![k].name = newName]
  OBVIOUS
<1>4. PICK peer \in PeerRec : peer = Q[k]
  BY ElementOfSeq
<1>5. PICK renamed : renamed = [peer EXCEPT !.name = newName]
  OBVIOUS
<1>6. renamed \in PeerRec /\ renamed.lead = peer.lead /\ renamed.body = peer.body
  BY <1>4, <1>5, RequestsAssumption DEF PeerRec
<1>7. P = [Q EXCEPT ![k] = renamed]
  BY <1>3, <1>4, <1>5
<1>8. P \in Seq(PeerRec) /\ Len(P) = Len(Q) /\ P[k] = renamed
      /\ \A j \in 1..Len(Q) : j # k => P[j] = Q[j]
  BY <1>6, <1>7, ExceptSeq
<1>9. \A j \in 1..Len(P) : P[j].lead = Q[j].lead /\ P[j].body = Q[j].body
  BY <1>4, <1>6, <1>8
<1>10. Commit(P)
  BY <1>1, <1>2, <1>3 DEF Rename
<1>. QED  BY <1>1, <1>8, <1>9, <1>10 DEF Commit, Written

LEMMA EditWrites ==
  ASSUME TypeOK, NEW name \in Labels,
         \/ \E new \in NewBlocks : Add(name, new)
         \/ Kill(name)
         \/ \E newName \in Labels : Rename(name, newName)
  PROVE  /\ \E P \in Seq(PeerRec) : Written(P)
         /\ edits' \in 1..MaxEdits
<1>1. edits < MaxEdits /\ edits' = edits + 1
  BY DEF Add, Kill, Rename, Reads
<1>2. edits' \in 1..MaxEdits
  BY <1>1, RequestsAssumption DEF TypeOK
<1>3. \E P : Written(P)
  BY AddWrites, KillWrites, RenameWrites
<1>. QED  BY <1>2, <1>3 DEF Written

LEMMA WrittenReads ==
  ASSUME TypeOK, NEW P, Written(P)
  PROVE  /\ file' \in Seq(Lines) /\ memory' \in Seq(PeerRec)
         /\ Parse(file').peers = FirstWithoutLead(memory')
         /\ InterfacePrivateKey(Parse(file'))
              = IF OwnKeys(file) = {} THEN "" ELSE file[Min(OwnKeys(file))].val
<1>1. P \in Seq(PeerRec) /\ memory' = P
  BY DEF Written
<1>2. file \in Seq(Lines)
  BY DEF TypeOK
<1>3. PICK c : c = [header |-> Parse(file).header, peers |-> P]
  OBVIOUS
<1>4. c.header = Parse(file).header /\ c.peers = P /\ file' = Serialize(c)
  BY <1>3 DEF Written
<1>5. NoPeer(c.header)
  BY <1>2, <1>4, ParseHeader
<1>6. file' \in Seq(Lines)
  BY <1>1, <1>4, <1>5, SerializeType DEF NoPeer
<1>7. Parse(file').peers = FirstWithoutLead(P)
  BY <1>1, <1>4, <1>5, RoundTrip
<1>8. InterfacePrivateKey(Parse(file'))
        = IF OwnKeys(file) = {} THEN "" ELSE file[Min(OwnKeys(file))].val
  BY <1>1, <1>2, <1>4, KeyKept, Zenon
<1>. QED  BY <1>1, <1>6, <1>7, <1>8, Zenon

(* Nothing but an edit changes anything.                                   *)
LEMMA StepCases ==
  ASSUME TypeOK, [Next]_vars
  PROVE  \/ UNCHANGED vars
         \/ /\ \E P \in Seq(PeerRec) : Written(P)
            /\ edits' \in 1..MaxEdits
<1>1. CASE UNCHANGED vars
  BY <1>1
<1>2. CASE Stop
  BY <1>2 DEF Stop
<1>3. ASSUME NEW name \in Labels,
             \/ \E new \in NewBlocks : Add(name, new)
             \/ Kill(name)
             \/ \E newName \in Labels : Rename(name, newName)
      PROVE  (\E P \in Seq(PeerRec) : Written(P)) /\ edits' \in 1..MaxEdits
  BY <1>3, EditWrites
<1>. QED  BY <1>1, <1>2, <1>3 DEF Next

(* The inductive invariant: WrittenIsRead speaks of the file and of the    *)
(* memory of the edit before, and needs of them only their types.          *)
LEMMA Inductive == Spec => [](TypeOK /\ WrittenIsRead)
<1>1. Init => TypeOK /\ WrittenIsRead
  <2> SUFFICES ASSUME Init  PROVE TypeOK /\ WrittenIsRead
    OBVIOUS
  <2>1. file \in Seq(Lines) /\ memory = <<>> /\ edits = 0
    BY FilesAssumption DEF Init
  <2>2. memory \in Seq(PeerRec)
    BY <2>1, EmptySeq
  <2>3. 0 \in 0..MaxEdits /\ ~(0 > 0)
    BY RequestsAssumption
  <2>. QED  BY <2>1, <2>2, <2>3 DEF TypeOK, WrittenIsRead
<1>2. TypeOK /\ WrittenIsRead /\ [Next]_vars => (TypeOK /\ WrittenIsRead)'
  <2> SUFFICES ASSUME TypeOK, WrittenIsRead, [Next]_vars  PROVE TypeOK' /\ WrittenIsRead'
    OBVIOUS
  <2>1. CASE UNCHANGED vars
    <3>1. TypeOK'
      BY <2>1 DEF vars, TypeOK
    <3>2. WrittenIsRead'
      BY <2>1 DEF vars, WrittenIsRead
    <3>. QED  BY <3>1, <3>2
  <2>2. ASSUME NEW P, Written(P), edits' \in 1..MaxEdits  PROVE TypeOK' /\ WrittenIsRead'
    <3>1. /\ file' \in Seq(Lines) /\ memory' \in Seq(PeerRec)
          /\ Parse(file').peers = FirstWithoutLead(memory')
      BY <2>2, WrittenReads, Zenon
    <3>2. edits' \in 0..MaxEdits
      BY <2>2
    <3>3. TypeOK'
      BY <3>1, <3>2 DEF TypeOK
    <3>4. WrittenIsRead'
      BY <3>1 DEF WrittenIsRead
    <3>. QED  BY <3>3, <3>4
  <2>. QED  BY <2>1, <2>2, StepCases
<1>. QED  BY <1>1, <1>2, PTL DEF Spec

(* The file is always a sequence of lines and what a process holds of it   *)
(* always well-formed blocks: reading sorts the lines of a block by kind    *)
(* (wgconf.go:81-121), and nothing an edit writes escapes that.            *)
THEOREM TypeCorrect == Spec => []TypeOK
BY Inductive, PTL

(* What one process writes is what the next one reads, whatever the file   *)
(* the first one found, whatever labels, keys, addresses and comments      *)
(* stand in it, after any number of edits (wgconf.go:81-183).              *)
THEOREM WrittenIsReadHolds == Spec => []WrittenIsRead
BY Inductive, PTL

(* A file that was read and written once does not change when it is read   *)
(* and written again (wgconf.go:141-183).                                  *)
THEOREM RewriteSettlesHolds == Spec => []RewriteSettles
<1>1. TypeOK => RewriteSettles
  <2> SUFFICES ASSUME TypeOK  PROVE RewriteSettles
    OBVIOUS
  <2>1. file \in Seq(Lines)
    BY DEF TypeOK
  <2>2. Serialize(Parse(Serialize(Parse(file)))) = Serialize(Parse(file))
    BY <2>1, Settles
  <2>. QED  BY <2>2 DEF RewriteSettles
<1>. QED  BY <1>1, TypeCorrect, PTL

(* Every edit leaves the server's key what it was: no line of a block, of  *)
(* a comment or of another section is ever taken for it, and none of the   *)
(* interface's is lost to a block (wgconf.go:81-139, 186-197).             *)
THEOREM ServerKeyKeptHolds == Spec => ServerKeyKept
<1> DEFINE Kept == InterfacePrivateKey(Parse(file')) =
                     IF OwnKeys(file) = {} THEN "" ELSE file[Min(OwnKeys(file))].val
<1>1. TypeOK /\ [Next]_vars => [Kept]_vars
  <2> SUFFICES ASSUME TypeOK, [Next]_vars, ~UNCHANGED vars  PROVE Kept
    BY Zenon
  <2>1. PICK P \in Seq(PeerRec) : Written(P)
    BY StepCases
  <2>. QED  BY <2>1, WrittenReads, Zenon
<1>. QED  BY <1>1, TypeCorrect, PTL DEF Spec, ServerKeyKept

-----------------------------------------------------------------------------
(* What an edit does to the comments. *)
LEMMA AllRemarksConcat ==
  ASSUME NEW P \in Seq(PeerRec), NEW Q \in Seq(PeerRec)
  PROVE  AllRemarks(P \o Q) = AllRemarks(P) \o AllRemarks(Q)
<1>1. PICK m \in Nat : m = Len(P)
  BY LenProperties
<1>2. PICK n \in Nat : n = Len(Q)
  BY LenProperties
<1>3. PICK both \in Seq(PeerRec) : /\ both = P \o Q /\ Len(both) = m + n
                                 /\ \A i \in 1..(m + n) : both[i] = IF i <= m THEN P[i] ELSE Q[i - m]
  <2>1. /\ P \o Q \in Seq(PeerRec) /\ Len(P \o Q) = m + n
        /\ \A i \in 1..(m + n) : (P \o Q)[i] = IF i <= m THEN P[i] ELSE Q[i - m]
    BY <1>1, <1>2, ConcatProperties
  <2>. QED  BY <2>1
<1>4. PICK V : V = Seq(Lines)
  OBVIOUS
<1>5. PICK s \in Seq(V) : s = RemarksOf(P) /\ Len(s) = m /\ \A i \in 1..m : s[i] = Remarks(P[i])
  BY <1>1, <1>4, RemarksOfType
<1>6. PICK t \in Seq(V) : t = RemarksOf(Q) /\ Len(t) = n /\ \A i \in 1..n : t[i] = Remarks(Q[i])
  BY <1>2, <1>4, RemarksOfType
<1>7. PICK u \in Seq(V) : /\ u = RemarksOf(both) /\ Len(u) = m + n
                         /\ \A i \in 1..(m + n) : u[i] = Remarks(both[i])
  <2>1. m + n \in Nat
    OBVIOUS
  <2>. QED  BY <1>3, <1>4, <2>1, RemarksOfType
<1>8. PICK w \in Seq(V) : w = s \o t /\ Joined(w, s, t)
  BY JoinAll
<1>9. \A i \in 1..(m + n) : u[i] = w[i]
  <2>1. ASSUME NEW i \in 1..m  PROVE u[i] = w[i]
    <3>1. both[i] = P[i] /\ i \in 1..(m + n)
      BY <1>3, SMTT(30)
    <3>2. w[i] = s[i]
      BY <1>5, <1>8 DEF Joined
    <3>. QED  BY <1>5, <1>7, <3>1, <3>2
  <2>2. ASSUME NEW i \in 1..n  PROVE u[m + i] = w[m + i]
    <3>1. m + i \in 1..(m + n) /\ ~(m + i <= m) /\ (m + i) - m = i
      OBVIOUS
    <3>2. both[m + i] = Q[i]
      BY <1>3, <3>1
    <3>3. w[m + i] = t[i]
      BY <1>5, <1>6, <1>8 DEF Joined
    <3>. QED  BY <1>6, <1>7, <3>1, <3>2, <3>3
  <2>3. ASSUME NEW i \in 1..(m + n)  PROVE i \in 1..m \/ (i - m \in 1..n /\ i = m + (i - m))
    OBVIOUS
  <2>. QED  BY <2>1, <2>2, <2>3
<1>10. u = w
  <2>1. Len(w) = m + n
    BY <1>5, <1>6, <1>8 DEF Joined
  <2>. QED  BY <1>7, <1>9, <2>1, SeqEqual
<1>11. FlattenSeq(s \o t) = FlattenSeq(s) \o FlattenSeq(t)
  BY <1>4, FlattenConcat
<1>. QED  BY <1>3, <1>5, <1>6, <1>7, <1>8, <1>10, <1>11 DEF AllRemarks

LEMMA AllRemarksOne ==
  ASSUME NEW peer \in PeerRec
  PROVE  <<peer>> \in Seq(PeerRec) /\ AllRemarks(<<peer>>) = Remarks(peer)
<1>1. <<peer>> \in Seq(PeerRec) /\ Len(<<peer>>) = 1 /\ <<peer>>[1] = peer /\ DOMAIN <<peer>> = 1..1
  OBVIOUS
<1>2. PICK r \in Seq(Lines) : r = Remarks(peer)
  BY RemarksType
<1>3. RemarksOf(<<peer>>) = [k \in 1..1 |-> r]
  BY <1>1, <1>2 DEF RemarksOf
<1>4. [k \in 1..1 |-> r] = <<r>>
  OBVIOUS
<1>5. FlattenSeq(<<r>>) = r
  BY FlattenOne
<1>. QED  BY <1>1, <1>2, <1>3, <1>4, <1>5 DEF AllRemarks

LEMMA SameRemarks ==
  ASSUME NEW P \in Seq(PeerRec), NEW Q \in Seq(PeerRec), Len(P) = Len(Q),
         \A k \in 1..Len(P) : P[k].lead = Q[k].lead /\ P[k].body = Q[k].body
  PROVE  AllRemarks(P) = AllRemarks(Q)
<1>1. PICK n \in Nat : n = Len(P)
  BY LenProperties
<1>2. DOMAIN P = 1..n /\ DOMAIN Q = 1..n
  BY <1>1, LenProperties
<1>3. \A k \in 1..n : Remarks(P[k]) = Remarks(Q[k])
  BY <1>1 DEF Remarks
<1>. QED  BY <1>2, <1>3 DEF AllRemarks, RemarksOf

LEMMA EditComments ==
  ASSUME TypeOK, NEW P, Written(P)
  PROVE  /\ Comments(file) = Comments(Parse(file).header) \o AllRemarks(Peers)
         /\ Comments(file') = Comments(Parse(file).header) \o AllRemarks(P)
         /\ Comments(Parse(file).header) \in Seq(Lines)
<1>1. file \in Seq(Lines) /\ P \in Seq(PeerRec)
  BY DEF TypeOK, Written
<1>2. PICK h \in Seq(Lines) : h = Parse(file).header
  BY <1>1, ParseType
<1>3. PICK c : c = [header |-> h, peers |-> P]
  OBVIOUS
<1>4. c.header = h /\ c.peers = P /\ file' = Serialize(c)
  BY <1>2, <1>3 DEF Written
<1>5. Comments(file') = Comments(h) \o AllRemarks(P)
  BY <1>1, <1>4, CommentsWritten
<1>6. Comments(file) = Comments(h) \o AllRemarks(Peers)
  BY <1>1, <1>2, CommentsParsed DEF Peers
<1>. QED  BY <1>2, <1>5, <1>6, CommentsType

LEMMA AddKeeps ==
  ASSUME TypeOK, NEW name \in Labels, NEW new \in NewBlocks, Add(name, new)
  PROVE  Comments(file') = Comments(file)
<1>1. PICK P \in Seq(PeerRec) : P = Peers
  BY PeersType
<1>2. PICK peer \in PeerRec : Written(Append(P, peer)) /\ peer.lead = <<>> /\ peer.body = <<>>
  BY <1>1, AddWrites
<1>3. Remarks(peer) = <<>>
  <2>1. Comments(<<>>) = <<>>
    BY OnlyEmpty DEF Comments
  <2>2. <<>> \o <<>> = <<>>
    OBVIOUS
  <2>. QED  BY <1>2, <2>1, <2>2 DEF Remarks
<1>4. AllRemarks(Append(P, peer)) = AllRemarks(P)
  <2>1. Append(P, peer) = P \o <<peer>>
    BY AppendIsConcat
  <2>2. AllRemarks(P \o <<peer>>) = AllRemarks(P) \o Remarks(peer)
    BY AllRemarksOne, AllRemarksConcat
  <2>3. AllRemarks(P) \o <<>> = AllRemarks(P)
    BY AllRemarksType, ConcatEmptySeq
  <2>. QED  BY <1>3, <2>1, <2>2, <2>3
<1>5. Comments(file) = Comments(Parse(file).header) \o AllRemarks(P)
  BY <1>1, <1>2, EditComments
<1>6. Comments(file') = Comments(Parse(file).header) \o AllRemarks(Append(P, peer))
  BY <1>2, EditComments
<1>. QED  BY <1>4, <1>5, <1>6

LEMMA RenameKeeps ==
  ASSUME TypeOK, NEW name \in Labels, NEW newName \in Labels, Rename(name, newName)
  PROVE  Comments(file') = Comments(file)
<1>1. PICK Q \in Seq(PeerRec) : Q = Peers
  BY PeersType
<1>2. PICK P \in Seq(PeerRec) :
        /\ Written(P) /\ Len(P) = Len(Q)
        /\ \A k \in 1..Len(P) : P[k].lead = Q[k].lead /\ P[k].body = Q[k].body
  BY <1>1, RenameWrites
<1>3. AllRemarks(P) = AllRemarks(Q)
  BY <1>2, SameRemarks
<1>4. Comments(file) = Comments(Parse(file).header) \o AllRemarks(Q)
  BY <1>1, <1>2, EditComments
<1>5. Comments(file') = Comments(Parse(file).header) \o AllRemarks(P)
  BY <1>2, EditComments
<1>. QED  BY <1>3, <1>4, <1>5

(* What lies around the part that is cut out of the middle. *)
Cut(whole, left, middle) ==
  \E kept \in 0..Len(left) :
    whole = SubSeq(left, 1, kept) \o middle \o SubSeq(left, kept + 1, Len(left))

LEMMA LinesAssociate == \A s, t, u \in Seq(Lines) : (s \o t) \o u = s \o (t \o u)
BY JoinAll

LEMMA CutMiddle ==
  ASSUME NEW h \in Seq(Lines), NEW a \in Seq(Lines), NEW r \in Seq(Lines), NEW b \in Seq(Lines)
  PROVE  Cut(h \o ((a \o r) \o b), h \o (a \o b), r)
<1>12. (h \o a) \o b = h \o (a \o b)
  BY LinesAssociate, ZenonT(30)
<1>0. h \o ((a \o r) \o b) = ((h \o a) \o r) \o b
  <2>1. a \o r \in Seq(Lines)
    BY ConcatProperties
  <2>2. h \o ((a \o r) \o b) = (h \o (a \o r)) \o b
    BY <2>1, LinesAssociate, ZenonT(30)
  <2>3. h \o (a \o r) = (h \o a) \o r
    BY LinesAssociate, ZenonT(30)
  <2>. QED  BY <2>2, <2>3
<1>1. PICK u \in Seq(Lines) : u = h \o a
  BY ConcatProperties
<1>2. PICK left \in Seq(Lines) : left = u \o b
  BY ConcatProperties
<1>3. h \o (a \o b) = left
  BY ONLY <1>1, <1>2, <1>12
<1>4. h \o ((a \o r) \o b) = (u \o r) \o b
  BY ONLY <1>1, <1>0
<1>5. PICK kept \in Nat : kept = Len(u)
  BY LenProperties
<1>6. PICK n \in Nat : n = Len(b)
  BY LenProperties
<1>7. /\ Len(left) = kept + n
      /\ \A i \in 1..kept : left[i] = u[i]
      /\ \A i \in 1..n : left[kept + i] = b[i]
  BY <1>2, <1>5, <1>6, Join DEF Joined
<1>8. SubSeq(left, 1, kept) = u
  <2>1. \A j \in 1..kept : left[1 - 1 + j] = u[j]
    BY <1>7
  <2>2. kept = 1 - 1 + Len(u) /\ kept <= Len(left) /\ 1 \in Nat /\ 1 <= 1 /\ kept \in Int
    BY <1>5, <1>6, <1>7
  <2>. QED  BY <1>5, <2>1, <2>2, SliceIs
<1>9. SubSeq(left, kept + 1, Len(left)) = b
  <2>1. PICK x \in Nat : x = kept + 1
    BY <1>5
  <2>2. PICK y \in Int : y = Len(left)
    BY <1>7
  <2>3. 1 <= x /\ y = x - 1 + Len(b) /\ y <= Len(left)
    BY <1>6, <1>7, <2>1, <2>2
  <2>4. \A j \in 1..Len(b) : left[x - 1 + j] = b[j]
    <3>1. x - 1 = kept
      BY <2>1
    <3>. QED  BY <1>6, <1>7, <3>1
  <2>5. SubSeq(left, x, y) = b
    BY <2>3, <2>4, SliceIs
  <2>. QED  BY <2>1, <2>2, <2>5
<1>10. kept \in 0..Len(left)
  BY <1>6, <1>7
<1>. QED  BY <1>3, <1>4, <1>8, <1>9, <1>10 DEF Cut

LEMMA KillCuts ==
  ASSUME TypeOK, NEW name \in Labels, Kill(name)
  PROVE  Cut(Comments(file), Comments(file'), Remarks(Peers[Min(Called(Peers, name))]))
<1>1. PICK P \in Seq(PeerRec) : P = Peers
  BY PeersType
<1>2. PICK k \in 1..Len(P) : k = Min(Called(P, name))
  BY <1>1, CalledIn DEF Kill
<1>3. PICK before, after : Around(PeerRec, P, k, before, after)
  BY RemoveSplits
<1>4. PICK peer \in PeerRec : peer = P[k]
  BY <1>3 DEF Around
<1>5. /\ before \in Seq(PeerRec) /\ after \in Seq(PeerRec)
      /\ P = (before \o <<peer>>) \o after
      /\ RemoveAt(P, k) = before \o after
  BY <1>3, <1>4 DEF Around
<1>6. PICK a \in Seq(Lines) : a = AllRemarks(before)
  BY <1>5, AllRemarksType
<1>7. PICK b \in Seq(Lines) : b = AllRemarks(after)
  BY <1>5, AllRemarksType
<1>8. PICK r \in Seq(Lines) : r = Remarks(peer)
  BY RemarksType
<1>9. AllRemarks(P) = (a \o r) \o b
  <2>1. PICK u \in Seq(PeerRec) : u = before \o <<peer>> /\ AllRemarks(u) = a \o r
    <3>1. <<peer>> \in Seq(PeerRec) /\ AllRemarks(<<peer>>) = r
      BY <1>8, AllRemarksOne
    <3>. QED  BY <1>5, <1>6, <3>1, AllRemarksConcat, ConcatProperties
  <2>. QED  BY <1>5, <1>7, <2>1, AllRemarksConcat
<1>10. AllRemarks(RemoveAt(P, k)) = a \o b
  BY <1>5, <1>6, <1>7, AllRemarksConcat
<1>11. Written(RemoveAt(P, k))
  BY <1>1, <1>2, KillWrites
<1>12. PICK h \in Seq(Lines) : /\ Comments(file) = h \o ((a \o r) \o b)
                               /\ Comments(file') = h \o (a \o b)
  BY <1>1, <1>9, <1>10, <1>11, EditComments
<1>13. Cut(h \o ((a \o r) \o b), h \o (a \o b), r)
  BY CutMiddle
<1>. QED  BY <1>1, <1>2, <1>4, <1>8, <1>12, <1>13

(* No comment of the file is ever lost, repeated or moved past another,    *)
(* but for those of the block that is removed, whoever wrote them and      *)
(* wherever they stand (wgconf.go:11-15, 69-121, 144-183).                 *)
THEOREM CommentsKeptHolds == Spec => CommentsKept
<1> DEFINE Kept == Comments(file') = Comments(file)
           Taken == \E name \in Labels, kept \in 0..Len(Comments(file')) :
                      /\ Kill(name)
                      /\ Comments(file) = SubSeq(Comments(file'), 1, kept)
                                \o Remarks(Peers[Min(Called(Peers, name))])
                                \o SubSeq(Comments(file'), kept + 1, Len(Comments(file')))
<1>1. ASSUME TypeOK, NEW name \in Labels, Kill(name)  PROVE Taken
  BY <1>1, KillCuts DEF Cut
<1>2. ASSUME TypeOK, Stop  PROVE UNCHANGED vars
  BY <1>2 DEF Stop
<1>3. TypeOK /\ [Next]_vars => [Kept \/ Taken]_vars
  <2> SUFFICES ASSUME TypeOK, [Next]_vars, ~UNCHANGED vars  PROVE Kept \/ Taken
    OBVIOUS
  <2>1. CASE \E name \in Labels, new \in NewBlocks : Add(name, new)
    BY <2>1, AddKeeps
  <2>2. CASE \E name \in Labels : Kill(name)
    <3> HIDE DEF Taken
    <3>. QED  BY <2>2, <1>1
  <2>3. CASE \E name, newName \in Labels : Rename(name, newName)
    BY <2>3, RenameKeeps
  <2>. QED  BY <1>2, <2>1, <2>2, <2>3 DEF Next
<1>. QED  BY <1>3, TypeCorrect, PTL DEF Spec, CommentsKept

-----------------------------------------------------------------------------
(* The list as PeerServer keeps it: what Parse keeps of the blocks.         *)
Entries(P) == [k \in DOMAIN P |-> Entry(P[k], FALSE)]
EntrySet == {Entry(peer, FALSE) : peer \in PeerRec}

LEMMA EntryFields ==
  ASSUME NEW peer, NEW x
  PROVE  /\ [Entry(peer, x) EXCEPT !.extra = FALSE] = Entry(peer, FALSE)
         /\ Entry(peer, x).name = peer.name
<1>1. PICK name, key, ips : /\ name = peer.name /\ key = <<peer.key, peer.psk>>
                           /\ ips = {Host(ip) : ip \in ToSet(peer.ips)}
  OBVIOUS
<1>2. Entry(peer, x) = [name |-> name, key |-> key, ips |-> ips, extra |-> x]
  BY <1>1 DEF Entry
<1>3. Entry(peer, FALSE) = [name |-> name, key |-> key, ips |-> ips, extra |-> FALSE]
  BY <1>1 DEF Entry
<1>4. [Entry(peer, x) EXCEPT !.extra = FALSE] = Entry(peer, FALSE)
  <2>1. PICK e : e = [name |-> name, key |-> key, ips |-> ips, extra |-> x]
    OBVIOUS
  <2>2. PICK no : no = FALSE
    BY Zenon
  <2>3. [e EXCEPT !.extra = no] = [name |-> name, key |-> key, ips |-> ips, extra |-> no]
    BY <2>1, SMT
  <2>. QED  BY <1>2, <1>3, <2>1, <2>2, <2>3
<1>5. Entry(peer, x).name = peer.name
  BY <1>1, <1>2
<1>. QED  BY <1>4, <1>5

(* L has an entry for each of the n elements of P.                         *)
Mirrors(P, n, L) ==
  /\ L \in Seq(EntrySet) /\ Len(L) = n /\ DOMAIN L = 1..n
  /\ L = [k \in 1..n |-> Entry(P[k], FALSE)]
  /\ \A k \in 1..n : L[k] = Entry(P[k], FALSE)

LEMMA EntriesType ==
  ASSUME NEW P \in Seq(PeerRec), NEW n \in Nat, n = Len(P)
  PROVE  Mirrors(P, n, Entries(P))
<1>1. DOMAIN P = 1..n /\ \A k \in 1..n : P[k] \in PeerRec
  BY LenProperties, ElementOfSeq
<1>2. Entries(P) = [k \in 1..n |-> Entry(P[k], FALSE)]
  BY <1>1 DEF Entries
<1>3. PICK f \in [1..n -> EntrySet] : f = [k \in 1..n |-> Entry(P[k], FALSE)]
  BY <1>1 DEF EntrySet
<1>4. f \in Seq(EntrySet) /\ Len(f) = n /\ DOMAIN f = 1..n
  OBVIOUS
<1>5. \A k \in 1..n : f[k] = Entry(P[k], FALSE)
  BY <1>3
<1>. QED  BY <1>2, <1>3, <1>4, <1>5 DEF Mirrors

(* Two sequences with one length and the same elements are the same.       *)
LEMMA SameEntries ==
  ASSUME NEW P \in Seq(PeerRec), NEW n \in Nat, n = Len(P), NEW L \in Seq(EntrySet), Len(L) = n,
         \A k \in 1..n : L[k] = Entry(P[k], FALSE)
  PROVE  L = Entries(P)
<1>1. L \in [1..n -> EntrySet]
  BY LenProperties
<1>2. Entries(P) = [k \in 1..n |-> Entry(P[k], FALSE)]
  <2>1. Mirrors(P, n, Entries(P))
    BY EntriesType
  <2>. QED  BY <2>1 DEF Mirrors
<1>. QED  BY <1>1, <1>2

LEMMA EntriesAppend ==
  ASSUME NEW P \in Seq(PeerRec), NEW peer \in PeerRec
  PROVE  Entries(Append(P, peer)) = Append(Entries(P), Entry(peer, FALSE))
<1>1. PICK n \in Nat : n = Len(P)
  BY LenProperties
<1>2. /\ Append(P, peer) \in Seq(PeerRec) /\ Len(Append(P, peer)) = n + 1
      /\ Append(P, peer)[n + 1] = peer /\ \A k \in 1..n : Append(P, peer)[k] = P[k]
  BY <1>1, AppendProperties
<1>3. PICK L \in Seq(EntrySet) : L = Entries(P) /\ Len(L) = n /\ \A k \in 1..n : L[k] = Entry(P[k], FALSE)
  <2>1. Mirrors(P, n, Entries(P))
    BY <1>1, EntriesType
  <2>. QED  BY <2>1 DEF Mirrors
<1>4. PICK x \in EntrySet : x = Entry(peer, FALSE)
  BY DEF EntrySet
<1>5. PICK M \in Seq(EntrySet) : /\ M = Append(L, x) /\ Len(M) = n + 1
                                 /\ M[n + 1] = x /\ \A k \in 1..n : M[k] = L[k]
  <2>1. L \in Seq(EntrySet) /\ x \in EntrySet /\ n = Len(L)
    BY <1>3
  <2>2. /\ Append(L, x) \in Seq(EntrySet) /\ Len(Append(L, x)) = Len(L) + 1
        /\ Append(L, x)[Len(L) + 1] = x /\ \A k \in 1..Len(L) : Append(L, x)[k] = L[k]
    BY <2>1, AppendProperties
  <2>. QED  BY <2>1, <2>2
<1>6. PICK Q \in Seq(PeerRec) : /\ Q = Append(P, peer) /\ Len(Q) = n + 1
                                /\ Q[n + 1] = peer /\ \A k \in 1..n : Q[k] = P[k]
  BY <1>2
<1>7. ASSUME NEW k \in 1..(n + 1)  PROVE M[k] = Entry(Q[k], FALSE)
  <2>1. CASE k = n + 1
    <3>1. M[k] = x /\ Q[k] = peer
      BY <1>5, <1>6, <2>1
    <3>. QED  BY <1>4, <3>1
  <2>2. CASE k # n + 1
    <3>1. k \in 1..n
      BY <2>2
    <3>. QED  BY <1>3, <1>5, <1>6, <3>1
  <2>. QED  BY <2>1, <2>2
<1>8. n + 1 \in Nat
  OBVIOUS
<1>9. M = Entries(Q)
  BY <1>5, <1>6, <1>7, <1>8, SameEntries
<1>. QED  BY <1>3, <1>4, <1>5, <1>6, <1>9

(* r is s, of length n, without its element i.                             *)
Without(S, s, n, i, r) ==
  /\ r \in Seq(S) /\ Len(r) = n - 1
  /\ \A k \in 1..(n - 1) : r[k] = IF k < i THEN s[k] ELSE s[k + 1]

LEMMA RemoveAtIs ==
  ASSUME NEW S, NEW s \in Seq(S), NEW n \in Nat, n = Len(s), NEW i \in 1..n
  PROVE  Without(S, s, n, i, RemoveAt(s, i))
<1>1. PICK a \in Seq(S) : /\ a = SubSeq(s, 1, i - 1) /\ Len(a) = i - 1
                          /\ \A k \in 1..(i - 1) : a[k] = s[k]
  <2>1. PICK j \in Int : j = i - 1 /\ 1 - 1 <= j /\ j <= n
    OBVIOUS
  <2>2. /\ SubSeq(s, 1, j) \in Seq(S) /\ Len(SubSeq(s, 1, j)) = j - 1 + 1
        /\ \A k \in 1..(j - 1 + 1) : SubSeq(s, 1, j)[k] = s[1 + k - 1]
    BY <2>1, Slice
  <2>3. j - 1 + 1 = i - 1 /\ \A k \in 1..(i - 1) : 1 + k - 1 = k
    BY <2>1
  <2>. QED  BY <2>1, <2>2, <2>3
<1>2. PICK b \in Seq(S) : /\ b = SubSeq(s, i + 1, n) /\ Len(b) = n - i
                          /\ \A k \in 1..(n - i) : b[k] = s[i + k]
  <2>1. PICK j \in Nat : j = i + 1 /\ 1 <= j /\ j - 1 <= n
    OBVIOUS
  <2>2. /\ SubSeq(s, j, n) \in Seq(S) /\ Len(SubSeq(s, j, n)) = n - j + 1
        /\ \A k \in 1..(n - j + 1) : SubSeq(s, j, n)[k] = s[j + k - 1]
    BY <2>1, Slice
  <2>3. n - j + 1 = n - i /\ \A k \in 1..(n - i) : j + k - 1 = i + k
    BY <2>1
  <2>4. PICK b \in Seq(S) : b = SubSeq(s, j, n)
    BY <2>2
  <2>5. Len(b) = n - i
    BY <2>2, <2>3, <2>4
  <2>6. \A k \in 1..(n - i) : b[k] = s[i + k]
    BY <2>2, <2>3, <2>4
  <2>. QED  BY <2>1, <2>4, <2>5, <2>6
<1>3. PICK r \in Seq(S) : r = a \o b /\ r = RemoveAt(s, i) /\ Joined(r, a, b)
  <2>1. RemoveAt(s, i) = a \o b
    BY <1>1, <1>2 DEF RemoveAt
  <2>. QED  BY <2>1, JoinAll
<1>4. Len(r) = n - 1
  <2>1. Len(r) = Len(a) + Len(b)
    BY <1>3 DEF Joined
  <2>2. (i - 1) + (n - i) = n - 1
    OBVIOUS
  <2>. QED  BY <1>1, <1>2, <2>1, <2>2
<1>5. ASSUME NEW k \in 1..(n - 1)  PROVE r[k] = IF k < i THEN s[k] ELSE s[k + 1]
  <2>1. CASE k < i
    <3>1. k \in 1..(i - 1)
      BY <2>1
    <3>. QED  BY <1>1, <1>3, <2>1, <3>1 DEF Joined
  <2>2. CASE ~(k < i)
    <3>1. PICK j \in 1..(n - i) : j = k - (i - 1)
      BY <2>2
    <3>2. (i - 1) + j = k /\ i + j = k + 1
      BY <3>1
    <3>3. r[(i - 1) + j] = b[j]
      BY <1>1, <1>2, <1>3 DEF Joined
    <3>. QED  BY <1>2, <2>2, <3>2, <3>3
  <2>. QED  BY <2>1, <2>2
<1>. QED  BY <1>3, <1>4, <1>5 DEF Without

LEMMA EntriesRemove ==
  ASSUME NEW P \in Seq(PeerRec), NEW i \in 1..Len(P)
  PROVE  Entries(RemoveAt(P, i)) = RemoveAt(Entries(P), i)
<1>1. PICK n \in Nat : n = Len(P) /\ i \in 1..n /\ n - 1 \in Nat
  BY LenProperties
<1>2. PICK L \in Seq(EntrySet) : L = Entries(P) /\ Len(L) = n /\ \A k \in 1..n : L[k] = Entry(P[k], FALSE)
  <2>1. Mirrors(P, n, Entries(P))
    BY <1>1, EntriesType
  <2>. QED  BY <2>1 DEF Mirrors
<1>3. PICK Q : Q = RemoveAt(P, i) /\ Without(PeerRec, P, n, i, Q)
  BY <1>1, RemoveAtIs
<1>4. PICK M : M = RemoveAt(L, i) /\ Without(EntrySet, L, n, i, M)
  <2>1. n = Len(L)
    BY <1>2
  <2>. QED  BY <1>1, <2>1, RemoveAtIs
<1>5. ASSUME NEW k \in 1..(n - 1)  PROVE M[k] = Entry(Q[k], FALSE)
  <2>1. k \in 1..n /\ k + 1 \in 1..n
    BY <1>1
  <2>2. M[k] = IF k < i THEN L[k] ELSE L[k + 1]
    BY <1>4 DEF Without
  <2>3. Q[k] = IF k < i THEN P[k] ELSE P[k + 1]
    BY <1>3 DEF Without
  <2>. QED  BY <1>2, <2>1, <2>2, <2>3
<1>6. M = Entries(Q)
  <2>1. /\ Q \in Seq(PeerRec) /\ Len(Q) = n - 1
        /\ M \in Seq(EntrySet) /\ Len(M) = n - 1
    BY <1>3, <1>4 DEF Without
  <2>. QED  BY <1>1, <1>5, <2>1, SameEntries
<1>. QED  BY <1>2, <1>3, <1>4, <1>6

Renamed(P, i, name) == [P EXCEPT ![i].name = name]

LEMMA EntriesRename ==
  ASSUME NEW P \in Seq(PeerRec), NEW i \in 1..Len(P), NEW name \in Text
  PROVE  Entries(Renamed(P, i, name)) = Renamed(Entries(P), i, name)
<1>1. PICK n \in Nat : n = Len(P) /\ i \in 1..n /\ DOMAIN P = 1..n
  BY LenProperties
<1>2. PICK peer \in PeerRec : peer = P[i]
  BY ElementOfSeq
<1>3. PICK Q : Q = [P EXCEPT ![i].name = name]
  OBVIOUS
<1>4. DOMAIN Q = 1..n /\ Q[i] = [peer EXCEPT !.name = name] /\ \A k \in 1..n : k # i => Q[k] = P[k]
  BY <1>1, <1>2, <1>3
<1>5. Entry([peer EXCEPT !.name = name], FALSE) = [Entry(peer, FALSE) EXCEPT !.name = name]
  <2>1. PICK renamed : renamed = [peer EXCEPT !.name = name]
    OBVIOUS
  <2>2. renamed.name = name /\ renamed.key = peer.key /\ renamed.psk = peer.psk /\ renamed.ips = peer.ips
    BY <2>1 DEF PeerRec
  <2>3. PICK key, ips : key = <<peer.key, peer.psk>> /\ ips = {Host(ip) : ip \in ToSet(peer.ips)}
    OBVIOUS
  <2>4. Entry(peer, FALSE) = [name |-> peer.name, key |-> key, ips |-> ips, extra |-> FALSE]
    BY <2>3 DEF Entry
  <2>5. Entry(renamed, FALSE) = [name |-> name, key |-> key, ips |-> ips, extra |-> FALSE]
    BY <2>2, <2>3 DEF Entry
  <2>6. PICK old, no : old = peer.name /\ no = FALSE
    OBVIOUS
  <2>7. PICK e : e = [name |-> old, key |-> key, ips |-> ips, extra |-> no]
    OBVIOUS
  <2>8. [e EXCEPT !.name = name] = [name |-> name, key |-> key, ips |-> ips, extra |-> no]
    BY <2>7, SMT
  <2>. QED  BY <2>1, <2>4, <2>5, <2>6, <2>7, <2>8
<1>6. PICK L : L = Entries(P) /\ DOMAIN L = 1..n /\ L[i] = Entry(peer, FALSE)
               /\ L = [k \in 1..n |-> Entry(P[k], FALSE)]
  <2>1. Mirrors(P, n, Entries(P))
    BY <1>1, EntriesType
  <2>. QED  BY <1>1, <1>2, <2>1 DEF Mirrors
<1>7. [L EXCEPT ![i].name = name] = [k \in 1..n |-> IF k = i THEN [L[k] EXCEPT !.name = name] ELSE L[k]]
  BY <1>6
<1>8. Entries(Q) = [k \in 1..n |-> Entry(Q[k], FALSE)]
  BY <1>4 DEF Entries
<1>9. \A k \in 1..n : Entry(Q[k], FALSE) = IF k = i THEN [L[k] EXCEPT !.name = name] ELSE L[k]
  <2> TAKE k \in 1..n
  <2>1. CASE k = i
    BY <1>4, <1>5, <1>6, <2>1
  <2>2. CASE k # i
    BY <1>4, <1>6, <2>2
  <2>. QED  BY <2>1, <2>2
<1>10. Entries(Q) = [L EXCEPT ![i].name = name]
  BY <1>7, <1>8, <1>9
<1>. QED  BY <1>3, <1>6, <1>10 DEF Renamed

(* The same block is found under a label.                                  *)
LEMMA EntriesFind ==
  ASSUME NEW P \in Seq(PeerRec), NEW name
  PROVE  List!FindByName(Entries(P), name)
           = IF Called(P, name) = {} THEN 0 ELSE Min(Called(P, name))
<1>1. PICK n \in Nat : n = Len(P) /\ DOMAIN P = 1..n
  BY LenProperties
<1>2. DOMAIN Entries(P) = 1..n /\ \A k \in 1..n : Entries(P)[k].name = P[k].name
  <2>1. DOMAIN Entries(P) = 1..n /\ \A k \in 1..n : Entries(P)[k] = Entry(P[k], FALSE)
    <3>1. Mirrors(P, n, Entries(P))
      BY <1>1, EntriesType
    <3>. QED  BY <3>1 DEF Mirrors
  <2>2. \A k \in 1..n : Entry(P[k], FALSE).name = P[k].name
    BY EntryFields
  <2>. QED  BY <2>1, <2>2
<1>3. List!Named(Entries(P), name) = Called(P, name)
  BY <1>1, <1>2 DEF List!Named, Called
<1>4. \A S : List!Least(S) = Min(S)
  BY DEF List!Least, Min
<1>. QED  BY <1>3, <1>4 DEF List!FindByName

LEMMA EntriesExist ==
  ASSUME NEW P \in Seq(PeerRec), NEW name \in Labels
  PROVE  /\ List!NameExists(Entries(P), name) <=> Called(P, name) # {}
         /\ Called(P, name) # {} => List!FindByName(Entries(P), name) = Min(Called(P, name))
<1>1. name # ""
  BY LabelsAssumption, Zenon
<1>2. Called(P, name) # {} => Min(Called(P, name)) \in 1..Len(P) /\ Len(P) \in Nat
  BY CalledIn, LenProperties
<1>3. Called(P, name) # {} => Min(Called(P, name)) # 0
  BY <1>2
<1>. QED  BY <1>1, <1>3, EntriesFind, Zenon DEF List!NameExists

(* A file whose blocks lie as in Shape lists them in that order.           *)
ListedAt(F, n, p) == [k \in 1..n |-> Entry(Parse(F).peers[k], DropsKeys(F, p[k]))]

LEMMA ListedIs ==
  ASSUME NEW F \in Seq(Lines), NEW n, NEW s, NEW p, Shape(F, n, s, p)
  PROVE  Len(Parse(F).peers) = n /\ Listed(F) = ListedAt(F, n, p)
<1>1. /\ n \in Nat /\ At(F, "peer") = {p[k] : k \in 1..n} /\ p \in [1..n -> Nat]
  BY DEF Shape
<1>2. PICK m \in Nat : m = Len(F) /\ DOMAIN F = 1..m
  BY LenProperties
<1>3. PICK P : P = Parse(F).peers
  OBVIOUS
<1>4. /\ Len(P) = n
      /\ P = [k \in 1..n |-> PeerOf(SubSeq(F, s[k], p[k] - 1), SubSeq(F, p[k] + 1, s[k+1] - 1))]
  BY <1>3, ShapeParse
<1>5. ASSUME NEW k \in 1..n  PROVE P[k] = ParsePeer(F, p[k]) /\ p[k] \in 1..m
  <2>1. Lead(F, p[k]) = SubSeq(F, s[k], p[k] - 1)
    BY ShapeLead
  <2>2. Body(F, p[k]) = SubSeq(F, p[k] + 1, s[k+1] - 1)
    BY ShapeBody
  <2>3. ParsePeer(F, p[k]) = PeerOf(Lead(F, p[k]), Body(F, p[k]))
    BY ParsePeerIsPeerOf
  <2>4. p[k] \in 1..m
    BY <1>2, ShapeSlices
  <2>. QED  BY <1>4, <2>1, <2>2, <2>3, <2>4
<1> DEFINE at(i) == Entry(ParsePeer(F, i), DropsKeys(F, i))
           S == {at(i) : i \in 1..m}
           v == [k \in 1..n |-> at(p[k])]
           ss == [i \in 1..m |-> IF i \in At(F, "peer") THEN <<at(i)>> ELSE <<>>]
<1>6. Listed(F) = FlattenSeq(ss)
  BY <1>2 DEF Listed
<1>7. v = [k \in 1..n |-> Entry(P[k], DropsKeys(F, p[k]))]
  BY <1>5
<1>8. v \in [1..n -> S]
  BY <1>5
<1>9. ss \in [1..m -> Seq(S)]
  <2>1. ASSUME NEW i \in 1..m  PROVE ss[i] \in Seq(S)
    <3>1. at(i) \in S
      OBVIOUS
    <3> HIDE DEF S, at
    <3>2. <<at(i)>> \in Seq(S) /\ <<>> \in Seq(S)
      BY <3>1, EmptySeq
    <3>. QED  BY <3>2
  <2>. QED  BY <2>1
<1>10. \A k \in 1..n : ss[p[k]] = << v[k] >>
  BY <1>1, <1>5
<1>11. \A i \in 1..m : (\A k \in 1..n : p[k] # i) => ss[i] = <<>>
  BY <1>1
<1>12. \A j, k \in 1..n : j < k => p[j] < p[k]
  BY ShapeOrder
<1> HIDE DEF ss, v, S, at
<1>13. PICK xs \in Seq(Seq(S)) : xs = ss /\ Len(xs) = m
  BY <1>9
<1>14. p \in [1..n -> 1..Len(xs)]
  BY <1>1, <1>5, <1>13
<1>15. Chosen(S, xs, n, p, v)
  BY <1>1, <1>8, <1>10, <1>11, <1>12, <1>13, <1>14 DEF Chosen
<1>16. FlattenSeq(xs) = v
  BY <1>15, FlattenChosen
<1>17. ListedAt(F, n, p) = v
  BY <1>3, <1>7 DEF ListedAt
<1>. QED  BY <1>3, <1>4, <1>6, <1>13, <1>16, <1>17

LEMMA ListedNoPeer ==
  ASSUME NEW F \in Seq(Lines), At(F, "peer") = {}
  PROVE  Listed(F) = <<>>
<1>1. PICK m \in Nat : m = Len(F) /\ DOMAIN F = 1..m
  BY LenProperties
<1> DEFINE ss == [i \in 1..m |-> <<>>]
<1>2. Listed(F) = FlattenSeq(ss)
  BY <1>1 DEF Listed
<1>3. \A i \in 1..m : ss[i] = <<>>
  OBVIOUS
<1>4. ss \in [1..m -> Seq({})]
  BY EmptySeq
<1> HIDE DEF ss
<1>5. PICK xs \in Seq(Seq({})) : xs = ss /\ Len(xs) = m
  BY <1>4
<1>6. PICK v : v \in [1..0 -> {}] /\ v \in Seq({}) /\ Len(v) = 0
  BY EmptySeq
<1>7. PICK p : p \in [1..0 -> 1..Len(xs)]
  <2>1. [k \in 1..0 |-> 1] \in [1..0 -> 1..Len(xs)]
    OBVIOUS
  <2>. QED  BY <2>1
<1>8. Chosen({}, xs, 0, p, v)
  BY <1>3, <1>5, <1>6, <1>7 DEF Chosen
<1>9. FlattenSeq(xs) = v
  BY <1>8, FlattenChosen
<1>. QED  BY <1>2, <1>5, <1>6, <1>9, EmptySeq

(* What a process reads of a file is the list of the blocks Parse found.   *)
LEMMA ReadEntries ==
  ASSUME NEW F \in Seq(Lines)
  PROVE  List!Parse(Listed(F)) = Entries(Parse(F).peers)
<1>1. CASE At(F, "peer") = {}
  <2>1. Listed(F) = <<>> /\ Parse(F).peers = <<>>
    BY <1>1, ListedNoPeer, ParseNoPeer
  <2>2. List!Parse(<<>>) = <<>>
    BY DEF List!Parse
  <2>3. Entries(<<>>) = <<>>
    BY DEF Entries
  <2>. QED  BY <2>1, <2>2, <2>3
<1>2. CASE At(F, "peer") # {}
  <2>1. PICK n, s, p : Shape(F, n, s, p)
    BY <1>2, ShapeExists
  <2>2. PICK P \in Seq(PeerRec) : P = Parse(F).peers
    BY ParseType
  <2>3. /\ n \in Nat /\ Len(P) = n
        /\ Listed(F) = [k \in 1..n |-> Entry(P[k], DropsKeys(F, p[k]))]
    <3>1. n \in Nat
      BY <2>1 DEF Shape
    <3>2. Len(P) = n /\ Listed(F) = ListedAt(F, n, p)
      BY <2>1, <2>2, ListedIs
    <3>. QED  BY <2>2, <3>1, <3>2 DEF ListedAt
  <2>4. Entries(P) = [k \in 1..n |-> Entry(P[k], FALSE)]
    <3>1. Mirrors(P, n, Entries(P))
      BY <2>3, EntriesType
    <3>. QED  BY <3>1 DEF Mirrors
  <2>5. List!Parse(Listed(F)) = [k \in 1..n |-> [Entry(P[k], DropsKeys(F, p[k])) EXCEPT !.extra = FALSE]]
    BY <2>3 DEF List!Parse
  <2>6. \A k \in 1..n : [Entry(P[k], DropsKeys(F, p[k])) EXCEPT !.extra = FALSE] = Entry(P[k], FALSE)
    BY EntryFields
  <2>. QED  BY <2>2, <2>4, <2>5, <2>6
<1>. QED  BY <1>1, <1>2

LEMMA EntryWithoutLead ==
  ASSUME NEW peer \in PeerRec, NEW x
  PROVE  Entry([peer EXCEPT !.lead = <<>>], x) = Entry(peer, x)
<1>1. PICK other : other = [peer EXCEPT !.lead = <<>>]
  OBVIOUS
<1>2. /\ other.name = peer.name /\ other.key = peer.key
      /\ other.psk = peer.psk /\ other.ips = peer.ips
  BY <1>1 DEF PeerRec
<1>. QED  BY <1>1, <1>2 DEF Entry

(* A written block has no key that the next reader drops.                  *)
LEMMA NothingDropped ==
  ASSUME NEW F, NEW H, NEW P, NEW a, NEW d, NEW e, Layout(F, H, P, a, d, e),
         \A i \in 1..Len(H) : H[i].kind # "peer", P # <<>>, NEW k \in 1..Len(P)
  PROVE  DropsKeys(F, Heads(P, a, e)[k]) = FALSE
<1>1. F \in Seq(Lines) /\ P \in Seq(PeerRec)
  BY DEF Layout
<1>2. PICK s, p : s = Starts(P, e) /\ p = Heads(P, a, e) /\ Shape(F, Len(P), s, p)
  BY LayoutShape
<1>3. Body(F, p[k]) = SubSeq(F, p[k] + 1, s[k+1] - 1)
  BY <1>1, <1>2, ShapeBody
<1>4. SubSeq(F, p[k] + 1, s[k+1] - 1) = Below(P[k]) \o <<Empty>>
  <2>1. BelowAt(F, P, a, e, k)
    BY LayoutBelow
  <2>. QED  BY <1>2, <2>1 DEF BelowAt
<1>5. PICK peer \in PeerRec : peer = P[k]
  BY <1>1, ElementOfSeq
<1>6. PICK dk \in Nat : dk = Len(Below(peer))
  BY BlockTypes, LenProperties
<1>7. PICK b \in Seq(Lines) : b = Below(peer) \o <<Empty>>
  BY <1>6, BelowEmpty
<1>8. Len(b) = dk + 1 /\ (\A j \in 1..dk : b[j] = Below(peer)[j]) /\ b[dk + 1] = Empty
  BY <1>6, <1>7, BelowEmpty
<1>9. ASSUME NEW j \in 1..(dk + 1)  PROVE b[j].kind # "other"
  <2>1. CASE j = dk + 1
    BY <1>8, <2>1, FixedLines
  <2>2. CASE j # dk + 1
    <3>1. j \in 1..dk
      BY <2>2
    <3>2. Below(peer)[j].kind # "other"
      BY <1>6, <3>1, BelowKinds
    <3>. QED  BY <1>8, <3>1, <3>2
  <2>. QED  BY <2>1, <2>2
<1>10. DOMAIN b = 1..(dk + 1)
  BY <1>8, LenProperties
<1>11. At(b, "other") = {}
  BY <1>9, <1>10 DEF At
<1>12. Body(F, p[k]) = b
  BY <1>3, <1>4, <1>5, <1>7
<1>. QED  BY <1>2, <1>11, <1>12 DEF DropsKeys

(* The next process reads the list this one wrote.                         *)
LEMMA ListedWritten ==
  ASSUME NEW c, NoPeer(c.header), c.peers \in Seq(PeerRec), NEW F, F = Serialize(c)
  PROVE  Listed(F) = Entries(c.peers)
<1>1. PICK H \in Seq(Lines) : H = TrimRight(c.header) /\ NoPeer(H)
  BY TrimNoPeer
<1>2. PICK P \in Seq(PeerRec) : P = c.peers
  OBVIOUS
<1>3. F = H \o FlattenSeq(Blocks(P)) \o <<Empty>>
  BY <1>1, <1>2, SerializeIs
<1>4. PICK a, d, e : Layout(F, H, P, a, d, e)
  BY <1>3, LayoutExists
<1>5. PICK n \in Nat : n = Len(P)
  BY LenProperties
<1>6. F \in Seq(Lines)
  BY <1>4 DEF Layout
<1>7. CASE P # <<>>
  <2>1. \A i \in 1..Len(H) : H[i].kind # "peer"
    BY <1>1 DEF NoPeer
  <2>2. PICK s, p : p = Heads(P, a, e) /\ Shape(F, n, s, p)
    BY <1>4, <1>5, <1>7, <2>1, LayoutShape
  <2>3. Listed(F) = [k \in 1..n |-> Entry(Parse(F).peers[k], DropsKeys(F, p[k]))]
    <3>1. Listed(F) = ListedAt(F, n, p)
      BY <1>6, <2>2, ListedIs
    <3>. QED  BY <3>1 DEF ListedAt
  <2>4. Parse(F).peers = FirstWithoutLead(P)
    BY <1>1, <1>2, RoundTrip, <1>4, <1>7, <2>1, LayoutParse
  <2>5. ASSUME NEW k \in 1..n
        PROVE  Entry(Parse(F).peers[k], DropsKeys(F, p[k])) = Entry(P[k], FALSE)
    <3>1. DropsKeys(F, p[k]) = FALSE
      BY <1>4, <1>5, <1>7, <2>1, <2>2, NothingDropped
    <3>2. PICK peer \in PeerRec : peer = P[k]
      BY <1>5, ElementOfSeq
    <3>3. Parse(F).peers[k] = IF k = 1 THEN [peer EXCEPT !.lead = <<>>] ELSE peer
      BY <1>5, <2>4, <3>2, WithoutLeadType
    <3>4. Entry(Parse(F).peers[k], FALSE) = Entry(peer, FALSE)
      BY <3>3, EntryWithoutLead
    <3>. QED  BY <3>1, <3>2, <3>4
  <2>6. Entries(P) = [k \in 1..n |-> Entry(P[k], FALSE)]
    <3>1. Mirrors(P, n, Entries(P))
      BY <1>5, EntriesType
    <3>. QED  BY <3>1 DEF Mirrors
  <2>. QED  BY <1>2, <2>3, <2>5, <2>6
<1>8. CASE P = <<>>
  <2>1. n = 0
    BY <1>5, <1>8, EmptySeq
  <2>2. At(F, "peer") = {Heads(P, a, e)[k] : k \in 1..n}
    BY <1>1, <1>4, <1>5, LayoutPeers DEF NoPeer
  <2>3. At(F, "peer") = {}
    BY <2>1, <2>2
  <2>4. Listed(F) = <<>>
    BY <1>6, <2>3, ListedNoPeer
  <2>5. Entries(<<>>) = <<>>
    BY DEF Entries
  <2>. QED  BY <1>2, <1>8, <2>4, <2>5
<1>. QED  BY <1>7, <1>8

LEMMA WrittenListed ==
  ASSUME TypeOK, NEW P, Written(P)
  PROVE  Listed(file') = Entries(P)
<1>1. P \in Seq(PeerRec) /\ file \in Seq(Lines)
  BY DEF Written, TypeOK
<1>2. PICK c : c = [header |-> Parse(file).header, peers |-> P]
  OBVIOUS
<1>3. c.header = Parse(file).header /\ c.peers = P /\ file' = Serialize(c)
  BY <1>2 DEF Written
<1>4. NoPeer(c.header)
  BY <1>1, <1>3, ParseHeader
<1>. QED  BY <1>1, <1>3, <1>4, ListedWritten

(* The list an operation reads.                                            *)
Read == List!Parse(Listed(file))

LEMMA ReadIs ==
  ASSUME TypeOK
  PROVE  Read = Entries(Peers)
BY ReadEntries DEF TypeOK, Read, Peers

ListAdd(name, new) ==
  /\ ~List!NameExists(Read, name)
  /\ Listed(file') = List!AddPeer(Read,
       Entry([name |-> name, key |-> new.key, psk |-> new.psk, ips |-> new.ips], FALSE))
ListKill(name) ==
  /\ List!NameExists(Read, name)
  /\ Listed(file') = List!RemoveByName(Read, name)
ListRename(name, newName) ==
  /\ List!NameExists(Read, name)
  /\ \/ ~List!NameExists(Read, newName)
     \/ List!FindByName(Read, newName) = List!FindByName(Read, name)
  /\ Listed(file') = List!Relabel(Read, name, newName)

LEMMA AddIsListAdd ==
  ASSUME TypeOK, NEW name \in Labels, NEW new \in NewBlocks, Add(name, new)
  PROVE  ListAdd(name, new)
<1>1. PICK P \in Seq(PeerRec) : P = Peers /\ Read = Entries(P)
  BY PeersType, ReadIs
<1>2. PICK peer : peer = [lead |-> <<>>, name |-> name, key |-> new.key, psk |-> new.psk,
                          ips |-> new.ips, body |-> <<>>]
  OBVIOUS
<1>3. peer \in PeerRec
  <2>1. <<>> \in Seq(Of({"note"})) /\ <<>> \in Seq(Of(Comment))
    BY EmptySeq
  <2>2. name \in Text /\ new.key \in Text /\ new.psk \in Text /\ new.ips \in Seq(Text)
    BY RequestsAssumption
  <2>. QED  BY <1>2, <2>1, <2>2 DEF PeerRec
<1>4. PICK given : given = [name |-> name, key |-> new.key, psk |-> new.psk, ips |-> new.ips]
  OBVIOUS
<1>5. Entry(given, FALSE) = Entry(peer, FALSE)
  <2>1. /\ given.name = peer.name /\ given.key = peer.key
        /\ given.psk = peer.psk /\ given.ips = peer.ips
    BY <1>2, <1>4
  <2>. QED  BY <2>1 DEF Entry
<1>6. Written(Append(P, peer))
  <2>1. Append(P, peer) \in Seq(PeerRec)
    BY <1>3, AppendProperties
  <2>2. Commit(Append(P, peer))
    BY <1>1, <1>2 DEF Add
  <2>. QED  BY <2>1, <2>2 DEF Commit, Written
<1>7. Listed(file') = Append(Entries(P), Entry(peer, FALSE))
  BY <1>3, <1>6, WrittenListed, EntriesAppend
<1>8. ~List!NameExists(Entries(P), name)
  BY <1>1, EntriesExist DEF Add
<1>. QED  BY <1>1, <1>4, <1>5, <1>7, <1>8 DEF ListAdd, List!AddPeer

LEMMA KillIsListKill ==
  ASSUME TypeOK, NEW name \in Labels, Kill(name)
  PROVE  ListKill(name)
<1>1. PICK P \in Seq(PeerRec) : P = Peers /\ Read = Entries(P)
  BY PeersType, ReadIs
<1>2. Called(P, name) # {}
  BY <1>1 DEF Kill
<1>3. PICK k \in 1..Len(P) : k = Min(Called(P, name))
  BY <1>2, CalledIn
<1>4. List!NameExists(Entries(P), name) /\ List!FindByName(Entries(P), name) = k
  BY <1>2, <1>3, EntriesExist
<1>5. Written(RemoveAt(P, k))
  BY <1>1, <1>3, KillWrites
<1>6. Listed(file') = RemoveAt(Entries(P), k)
  BY <1>5, WrittenListed, EntriesRemove
<1>7. List!RemoveAt(Entries(P), k) = RemoveAt(Entries(P), k)
  BY DEF List!RemoveAt, RemoveAt
<1>8. List!RemoveByName(Entries(P), name) = RemoveAt(Entries(P), k)
  BY <1>4, <1>7 DEF List!RemoveByName
<1>. QED  BY <1>1, <1>4, <1>6, <1>8 DEF ListKill

LEMMA RenameIsListRename ==
  ASSUME TypeOK, NEW name \in Labels, NEW newName \in Labels, Rename(name, newName)
  PROVE  ListRename(name, newName)
<1>1. PICK P \in Seq(PeerRec) : P = Peers /\ Read = Entries(P)
  BY PeersType, ReadIs
<1>2. Called(P, name) # {} /\ Called(P, newName) \subseteq {Min(Called(P, name))}
  BY <1>1 DEF Rename
<1>3. PICK k \in 1..Len(P) : k = Min(Called(P, name))
  BY <1>2, CalledIn
<1>4. List!NameExists(Entries(P), name) /\ List!FindByName(Entries(P), name) = k
  BY <1>2, <1>3, EntriesExist
<1>5. \/ ~List!NameExists(Entries(P), newName)
      \/ List!FindByName(Entries(P), newName) = k
  <2>1. CASE Called(P, newName) = {}
    BY <2>1, EntriesExist
  <2>2. CASE Called(P, newName) # {}
    <3>1. Called(P, newName) = {k}
      BY <1>2, <1>3, <2>2
    <3>2. Min({k}) = k
      <4>1. k \in Nat
        BY <1>3, LenProperties
      <4>. QED  BY <4>1, MinIs
    <3>3. List!FindByName(Entries(P), newName) = Min(Called(P, newName))
      BY <2>2, EntriesExist
    <3>. QED  BY <3>1, <3>2, <3>3
  <2>. QED  BY <2>1, <2>2
<1>6. PICK Q : Q = [P EXCEPT ![k].name = newName]
  OBVIOUS
<1>7. Commit(Q)
  BY <1>1, <1>3, <1>6 DEF Rename
<1>8. Q \in Seq(PeerRec)
  <2>1. PICK R \in Seq(PeerRec) : Written(R)
    BY RenameWrites
  <2>2. R = memory' /\ Q = memory'
    BY <1>7, <2>1 DEF Written, Commit
  <2>. QED  BY <2>1, <2>2
<1>9. Written(Q)
  BY <1>7, <1>8 DEF Written, Commit
<1>10. newName \in Text
  BY RequestsAssumption
<1>11. Listed(file') = [Entries(P) EXCEPT ![k].name = newName]
  <2>1. Listed(file') = Entries(Q)
    BY <1>9, WrittenListed
  <2>2. Entries(Renamed(P, k, newName)) = Renamed(Entries(P), k, newName)
    BY <1>10, EntriesRename
  <2>3. Q = Renamed(P, k, newName)
    BY <1>6 DEF Renamed
  <2>. QED  BY <2>1, <2>2, <2>3 DEF Renamed
<1>. QED  BY <1>1, <1>4, <1>5, <1>11 DEF ListRename, List!Relabel

(* Parsing, editing and rewriting the text of a .conf is the edit of the    *)
(* peer list that the server's model makes in one step: the same labels are *)
(* found, and the next process reads what the list operations say, keys,    *)
(* PSKs and addresses included, whatever a human wrote in the file          *)
(* (wgconf.go Parse, Serialize, FindByName, AddPeer, RemoveByName).         *)
THEOREM EditsAreListEditsHolds == Spec => EditsAreListEdits
<1> DEFINE Edit == \E name \in Labels :
                     \/ \E new \in NewBlocks : ListAdd(name, new)
                     \/ ListKill(name)
                     \/ \E newName \in Labels : ListRename(name, newName)
<1>1. TypeOK /\ [Next]_vars => [Edit]_vars
  <2> SUFFICES ASSUME TypeOK, [Next]_vars, ~UNCHANGED vars  PROVE Edit
    OBVIOUS
  <2>1. ~Stop
    BY DEF Stop
  <2>2. ASSUME NEW name \in Labels, NEW new \in NewBlocks, Add(name, new)  PROVE Edit
    BY <2>2, AddIsListAdd
  <2>3. ASSUME NEW name \in Labels, Kill(name)  PROVE Edit
    BY <2>3, KillIsListKill
  <2>4. ASSUME NEW name \in Labels, NEW newName \in Labels, Rename(name, newName)  PROVE Edit
    BY <2>4, RenameIsListRename
  <2> HIDE DEF Edit
  <2>. QED  BY <2>1, <2>2, <2>3, <2>4 DEF Next
<1>2. [Edit]_vars => [LET read    == List!Parse(Listed(file))
                          written == Listed(file')
                      IN \E name \in Labels :
                           \/ /\ ~List!NameExists(read, name)
                              /\ \E new \in NewBlocks :
                                   LET peer == [name |-> name, key |-> new.key, psk |-> new.psk,
                                                ips |-> new.ips]
                                   IN written = List!AddPeer(read, Entry(peer, FALSE))
                           \/ /\ List!NameExists(read, name)
                              /\ \/ written = List!RemoveByName(read, name)
                                 \/ \E newName \in Labels :
                                      /\ \/ ~List!NameExists(read, newName)
                                         \/ List!FindByName(read, newName)
                                              = List!FindByName(read, name)
                                      /\ written = List!Relabel(read, name, newName)]_vars
  BY DEF ListAdd, ListKill, ListRename, Read
<1>. QED  BY <1>1, <1>2, TypeCorrect, PTL DEF Spec, EditsAreListEdits
=============================================================================
