---------------------------- MODULE WgConfLayout ----------------------------
(***************************************************************************)
(* Where the blocks of a .conf lie, in any file (Shape) and in a written   *)
(* one (Layout), and that Parse finds the blocks Serialize laid out.       *)
(***************************************************************************)
EXTENDS WgConf, Induction

LEMMA LineTypes ==
  ASSUME NEW kind \in Kinds, NEW val \in Text
  PROVE  /\ Line(kind, val) \in Lines
         /\ Line(kind, val).kind = kind /\ Line(kind, val).val = val
         /\ Line(kind, val).ips = <<>>
<1>1. <<>> \in Seq(Text)
  BY EmptySeq
<1>. QED  BY <1>1 DEF Line, Lines

LEMMA FixedLines ==
  /\ Empty \in Lines /\ Empty.kind = "empty"
  /\ PeerHeader \in Lines /\ PeerHeader.kind = "peer"
  /\ \A ips \in Seq(Text) :
       IpsLine(ips) \in Lines /\ IpsLine(ips).kind = "ips" /\ IpsLine(ips).ips = ips
<1>1. "empty" \in Kinds /\ "peer" \in Kinds /\ "ips" \in Kinds /\ "" \in Text
  BY TextAssumption, Zenon DEF Kinds
<1>. QED  BY <1>1, LineTypes, Zenon DEF Empty, PeerHeader, IpsLine, Lines

LEMMA BlankLine ==
  <<Empty>> \in Seq(Lines) /\ Len(<<Empty>>) = 1 /\ <<Empty>>[1] = Empty
<1>1. PICK line \in Lines : line = Empty
  BY FixedLines
<1>2. <<line>> \in Seq(Lines)
  OBVIOUS
<1>3. Len(<<line>>) = 1 /\ <<line>>[1] = line
  OBVIOUS
<1>. QED  BY <1>1, <1>2, <1>3

-----------------------------------------------------------------------------
(* Only, the lines of some kinds, in their order.                          *)
Part(line, kinds) == IF line.kind \in kinds THEN <<line>> ELSE <<>>
Parts(lines, kinds) == [i \in DOMAIN lines |-> Part(lines[i], kinds)]

LEMMA OnlyIsFlat ==
  ASSUME NEW lines, NEW kinds
  PROVE  Only(lines, kinds) = FlattenSeq(Parts(lines, kinds))
BY DEF Only, Parts, Part

LEMMA PartType ==
  ASSUME NEW line \in Lines, NEW kinds
  PROVE  Part(line, kinds) \in Seq(Of(kinds))
<1>1. CASE line.kind \in kinds
  <2>1. line \in Of(kinds)
    BY <1>1 DEF Of
  <2>2. <<line>> \in Seq(Of(kinds))
    BY <2>1
  <2>. QED  BY <1>1, <2>2 DEF Part
<1>2. CASE line.kind \notin kinds
  BY <1>2, EmptySeq DEF Part
<1>. QED  BY <1>1, <1>2

LEMMA PartsType ==
  ASSUME NEW lines \in Seq(Lines), NEW kinds
  PROVE  /\ Parts(lines, kinds) \in Seq(Seq(Of(kinds)))
         /\ Len(Parts(lines, kinds)) = Len(lines)
         /\ \A i \in 1..Len(lines) : Parts(lines, kinds)[i] = Part(lines[i], kinds)
<1>1. PICK n \in Nat : n = Len(lines) /\ DOMAIN lines = 1..n
  BY LenProperties
<1>2. \A i \in 1..n : lines[i] \in Lines
  BY <1>1, ElementOfSeq
<1>3. \A i \in 1..n : Part(lines[i], kinds) \in Seq(Of(kinds))
  BY <1>2, PartType
<1>4. Parts(lines, kinds) = [i \in 1..n |-> Part(lines[i], kinds)]
  BY <1>1 DEF Parts
<1>. QED  BY <1>1, <1>3, <1>4

LEMMA OnlyType ==
  ASSUME NEW lines \in Seq(Lines), NEW kinds
  PROVE  Only(lines, kinds) \in Seq(Of(kinds)) /\ Only(lines, kinds) \in Seq(Lines)
<1>1. Only(lines, kinds) \in Seq(Of(kinds))
  BY PartsType, OnlyIsFlat, FlattenType
<1>2. Of(kinds) \subseteq Lines
  BY DEF Of
<1>. QED  BY <1>1, <1>2, SeqMonotonic

LEMMA OnlyEmpty ==
  ASSUME NEW kinds
  PROVE  Only(<<>>, kinds) = <<>>
<1>1. Parts(<<>>, kinds) \in Seq(Seq(Of(kinds))) /\ Len(Parts(<<>>, kinds)) = 0
  BY PartsType, EmptySeq
<1>2. Parts(<<>>, kinds) = <<>>
  BY <1>1, EmptySeq
<1>. QED  BY <1>2, OnlyIsFlat, FlattenEmpty

LEMMA OnlyConcat ==
  ASSUME NEW s \in Seq(Lines), NEW t \in Seq(Lines), NEW kinds
  PROVE  Only(s \o t, kinds) = Only(s, kinds) \o Only(t, kinds)
<1>1. PICK m \in Nat : m = Len(s)
  BY LenProperties
<1>2. PICK n \in Nat : n = Len(t)
  BY LenProperties
<1>3. /\ s \o t \in Seq(Lines) /\ Len(s \o t) = m + n
      /\ \A i \in 1..(m + n) : (s \o t)[i] = IF i <= m THEN s[i] ELSE t[i - m]
  BY <1>1, <1>2, ConcatProperties
<1> DEFINE P == Parts(s, kinds)
           Q == Parts(t, kinds)
           R == Parts(s \o t, kinds)
<1>4. /\ P \in Seq(Seq(Of(kinds))) /\ Len(P) = m
      /\ \A i \in 1..m : P[i] = Part(s[i], kinds)
  BY <1>1, PartsType
<1>5. /\ Q \in Seq(Seq(Of(kinds))) /\ Len(Q) = n
      /\ \A i \in 1..n : Q[i] = Part(t[i], kinds)
  BY <1>2, PartsType
<1>6. /\ R \in Seq(Seq(Of(kinds))) /\ Len(R) = m + n
      /\ \A i \in 1..(m + n) : R[i] = Part((s \o t)[i], kinds)
  BY <1>3, PartsType
<1> HIDE DEF P, Q, R
<1>7. /\ P \o Q \in Seq(Seq(Of(kinds))) /\ Len(P \o Q) = m + n
      /\ \A i \in 1..(m + n) : (P \o Q)[i] = IF i <= m THEN P[i] ELSE Q[i - m]
  <2>1. P \in Seq(Seq(Of(kinds))) /\ Q \in Seq(Seq(Of(kinds)))
    BY <1>4, <1>5
  <2>2. /\ P \o Q \in Seq(Seq(Of(kinds))) /\ Len(P \o Q) = Len(P) + Len(Q)
        /\ \A i \in 1..(Len(P) + Len(Q)) :
             (P \o Q)[i] = IF i <= Len(P) THEN P[i] ELSE Q[i - Len(P)]
    BY ONLY <2>1, ConcatProperties
  <2>. QED  BY <1>4, <1>5, <2>2
<1>8. ASSUME NEW i \in 1..(m + n)  PROVE R[i] = (P \o Q)[i]
  <2>1. CASE i <= m
    <3>1. i \in 1..m
      BY <2>1
    <3>2. (P \o Q)[i] = P[i] /\ (s \o t)[i] = s[i]
      BY <1>3, <1>7, <2>1
    <3>. QED  BY <1>4, <1>6, <3>1, <3>2
  <2>2. CASE ~(i <= m)
    <3>1. i - m \in 1..n
      BY <2>2
    <3>2. (P \o Q)[i] = Q[i - m] /\ (s \o t)[i] = t[i - m]
      BY <1>3, <1>7, <2>2
    <3>. QED  BY <1>5, <1>6, <3>1, <3>2
  <2>. QED  BY <2>1, <2>2
<1>9. R = P \o Q
  BY <1>6, <1>7, <1>8, SeqEqual
<1>. QED  BY <1>4, <1>5, <1>9, FlattenConcat, OnlyIsFlat DEF P, Q, R

LEMMA OnlyOne ==
  ASSUME NEW line \in Lines, NEW kinds
  PROVE  Only(<<line>>, kinds) = Part(line, kinds)
<1> DEFINE P == Parts(<<line>>, kinds)
<1>1. PICK s \in Seq(Lines) : s = <<line>>
  <2>1. <<line>> \in Seq(Lines)
    OBVIOUS
  <2>. QED  BY <2>1
<1>2. Len(s) = 1 /\ s[1] = line
  <2>1. Len(<<line>>) = 1 /\ <<line>>[1] = line
    OBVIOUS
  <2>. QED  BY <1>1, <2>1
<1>21. P \in Seq(Seq(Of(kinds))) /\ Len(P) = 1 /\ P[1] = Part(line, kinds)
  <2>1. Parts(s, kinds) \in Seq(Seq(Of(kinds))) /\ Len(Parts(s, kinds)) = 1
    BY <1>2, PartsType
  <2>2. 1 \in 1..Len(s)
    BY <1>2
  <2>3. Parts(s, kinds)[1] = Part(s[1], kinds)
    BY <2>2, PartsType
  <2>. QED  BY <1>1, <1>2, <2>1, <2>3
<1> HIDE DEF P
<1>3. Part(line, kinds) \in Seq(Of(kinds))
  BY PartType
<1>4. P = << Part(line, kinds) >>
  BY <1>21
<1>. QED  BY <1>3, <1>4, FlattenOne, OnlyIsFlat DEF P

LEMMA OnlyAppend ==
  ASSUME NEW s \in Seq(Lines), NEW line \in Lines, NEW kinds
  PROVE  Only(Append(s, line), kinds) = Only(s, kinds) \o Part(line, kinds)
<1>1. Append(s, line) = s \o <<line>> /\ <<line>> \in Seq(Lines)
  BY AppendIsConcat
<1>2. Only(s \o <<line>>, kinds) = Only(s, kinds) \o Only(<<line>>, kinds)
  BY <1>1, OnlyConcat
<1>. QED  BY <1>1, <1>2, OnlyOne

LEMMA OnlyAll ==
  ASSUME NEW kinds, NEW s \in Seq(Of(kinds))
  PROVE  Only(s, kinds) = s
<1> DEFINE S == Of(kinds)
           T == {r \in Seq(S) : Only(r, kinds) = r}
<1>1. <<>> \in T
  BY OnlyEmpty, EmptySeq
<1>2. ASSUME NEW r \in Seq(S), NEW e \in S, r \in T  PROVE Append(r, e) \in T
  <2>1. r \in Seq(Lines) /\ e \in Lines /\ e.kind \in kinds
    BY SeqMonotonic DEF Of
  <2>2. Only(Append(r, e), kinds) = r \o <<e>>
    BY <1>2, <2>1, OnlyAppend DEF Part
  <2>3. Append(r, e) \in Seq(S) /\ Append(r, e) = r \o <<e>>
    BY AppendIsConcat, AppendProperties
  <2>. QED  BY <2>2, <2>3
<1>3. \A r \in Seq(S) : r \in T
  <2> HIDE DEF S, T
  <2>. QED  BY <1>1, <1>2, SeqInduct
<1>. QED  BY <1>3

LEMMA OnlyNone ==
  ASSUME NEW kinds, NEW s \in Seq(Lines), \A i \in 1..Len(s) : s[i].kind \notin kinds
  PROVE  Only(s, kinds) = <<>>
<1> DEFINE S == {l \in Lines : l.kind \notin kinds}
           T == {r \in Seq(S) : Only(r, kinds) = <<>>}
<1>1. <<>> \in T
  BY OnlyEmpty, EmptySeq
<1>2. ASSUME NEW r \in Seq(S), NEW e \in S, r \in T  PROVE Append(r, e) \in T
  <2>1. r \in Seq(Lines) /\ e \in Lines /\ e.kind \notin kinds
    BY SeqMonotonic
  <2>2. Only(Append(r, e), kinds) = <<>> \o <<>>
    <3>1. Only(Append(r, e), kinds) = Only(r, kinds) \o Part(e, kinds)
      BY <2>1, OnlyAppend
    <3>. QED  BY <1>2, <2>1, <3>1 DEF Part
  <2>3. Append(r, e) \in Seq(S)
    BY AppendProperties
  <2>. QED  BY <2>2, <2>3
<1>3. \A r \in Seq(S) : r \in T
  <2> HIDE DEF S, T
  <2>. QED  BY <1>1, <1>2, SeqInduct
<1>4. s \in Seq(S)
  <2>1. PICK n \in Nat : n = Len(s) /\ s \in [1..n -> Lines]
    BY LenProperties
  <2>2. s \in [1..n -> S]
    BY <2>1
  <2>. QED  BY <2>2
<1>. QED  BY <1>3, <1>4

LEMMA OnlyTwice ==
  ASSUME NEW outer, NEW inner, inner \subseteq outer, NEW s \in Seq(Lines)
  PROVE  Only(Only(s, outer), inner) = Only(s, inner)
<1>0. \A a, b \in Seq(Lines) : Only(a \o b, inner) = Only(a, inner) \o Only(b, inner)
  BY OnlyConcat
<1> DEFINE T == {r \in Seq(Lines) : Only(Only(r, outer), inner) = Only(r, inner)}
<1>1. <<>> \in T
  BY OnlyEmpty, EmptySeq
<1>2. ASSUME NEW r \in Seq(Lines), NEW e \in Lines, r \in T  PROVE Append(r, e) \in T
  <2>1. Only(r, outer) \in Seq(Lines) /\ Only(r, inner) \in Seq(Lines)
    BY OnlyType
  <2>2. Only(Append(r, e), outer) = Only(r, outer) \o Part(e, outer)
    BY OnlyAppend
  <2>3. Part(e, outer) \in Seq(Lines) /\ Only(Part(e, outer), inner) = Part(e, inner)
    BY OnlyEmpty, OnlyOne DEF Part
  <2>4. Only(Only(r, outer) \o Part(e, outer), inner) = Only(r, inner) \o Part(e, inner)
    <3>1. PICK a \in Seq(Lines) : a = Only(r, outer)
      BY <2>1
    <3>2. PICK b \in Seq(Lines) : b = Part(e, outer)
      BY <2>3
    <3>3. Only(a \o b, inner) = Only(a, inner) \o Only(b, inner)
      BY <1>0
    <3>. QED  BY <1>2, <2>3, <3>1, <3>2, <3>3
  <2>5. Append(r, e) \in Seq(Lines)
    BY AppendProperties
  <2>. QED  BY <2>2, <2>4, <2>5, OnlyAppend
<1>3. \A r \in Seq(Lines) : r \in T
  <2> HIDE DEF T
  <2>. QED  BY <1>1, <1>2, SeqInduct
<1>. QED  BY <1>3

LEMMA OnlyOther ==
  ASSUME NEW own \in SUBSET Kinds, NEW kinds, own \cap kinds = {}, NEW s \in Seq(Of(own))
  PROVE  Only(s, kinds) = <<>>
<1>1. s \in Seq(Lines)
  BY SeqMonotonic DEF Of
<1>2. \A i \in 1..Len(s) : s[i] \in Of(own)
  BY ElementOfSeq
<1>3. \A i \in 1..Len(s) : s[i].kind \notin kinds
  BY <1>2 DEF Of
<1>. QED  BY <1>1, <1>3, OnlyNone

-----------------------------------------------------------------------------
(* What a block says, and what is read from it.                            *)
PeerOf(lead, body) ==
  [lead |-> Only(lead, {"note"}),
   name |-> LastValue(lead, "name"),
   key  |-> LastValue(body, "key"),
   psk  |-> LastValue(body, "psk"),
   ips  |-> AllIps(Only(body, {"ips"})),
   body |-> Only(body, Comment)]

LEMMA ParsePeerIsPeerOf ==
  ASSUME NEW lines, NEW p
  PROVE  ParsePeer(lines, p) = PeerOf(Lead(lines, p), Body(lines, p))
BY DEF ParsePeer, PeerOf

LEMMA OptionalType ==
  ASSUME NEW kind \in Kinds, NEW val \in Text
  PROVE  Optional(kind, val) \in Seq(Of({kind})) /\ Optional(kind, val) \in Seq(Lines)
<1>1. Optional(kind, val) \in Seq(Of({kind}))
  <2>1. CASE val = ""
    BY <2>1, EmptySeq, Zenon DEF Optional
  <2>2. CASE val # ""
    <3>1. Line(kind, val) \in Of({kind})
      BY LineTypes DEF Of
    <3>2. <<Line(kind, val)>> \in Seq(Of({kind}))
      BY <3>1
    <3>. QED  BY <2>2, <3>2, Zenon DEF Optional
  <2>. QED  BY <2>1, <2>2, Zenon
<1>. QED  BY <1>1, SeqMonotonic DEF Of

LEMMA LastValueOptional ==
  ASSUME NEW lines, NEW kind \in Kinds, NEW val \in Text,
         Only(lines, {kind}) = Optional(kind, val)
  PROVE  LastValue(lines, kind) = val
<1>1. CASE val = ""
  BY <1>1, Zenon DEF LastValue, Optional
<1>2. CASE val # ""
  <2>1. PICK line : line = Line(kind, val) /\ line.val = val
    BY LineTypes
  <2>2. Only(lines, {kind}) = <<line>>
    BY <1>2, <2>1, Zenon DEF Optional
  <2>3. Len(<<line>>) = 1 /\ <<line>>[1] = line /\ <<line>> # <<>>
    OBVIOUS
  <2>. QED  BY <2>1, <2>2, <2>3, Zenon DEF LastValue
<1>. QED  BY <1>1, <1>2, Zenon

LEMMA LastValueType ==
  ASSUME NEW lines \in Seq(Lines), NEW kind
  PROVE  LastValue(lines, kind) \in Text
<1>1. PICK found \in Seq(Lines) : found = Only(lines, {kind})
  BY OnlyType
<1>2. CASE found = <<>>
  BY <1>1, <1>2, TextAssumption, Zenon DEF LastValue
<1>3. CASE found # <<>>
  <2>1. Len(found) \in 1..Len(found)
    BY <1>3, EmptySeq, LenProperties
  <2>2. found[Len(found)] \in Lines
    BY <2>1, ElementOfSeq
  <2>. QED  BY <1>1, <1>3, <2>2 DEF LastValue, Lines
<1>. QED  BY <1>2, <1>3

LEMMA AllIpsType ==
  ASSUME NEW lines \in Seq(Lines)
  PROVE  AllIps(lines) \in Seq(Text)
<1>1. PICK n \in Nat : n = Len(lines) /\ DOMAIN lines = 1..n
  BY LenProperties
<1>2. \A i \in 1..n : lines[i].ips \in Seq(Text)
  <2>1. \A i \in 1..n : lines[i] \in Lines
    BY <1>1, ElementOfSeq
  <2>. QED  BY <2>1 DEF Lines
<1>3. [i \in DOMAIN lines |-> lines[i].ips] \in Seq(Seq(Text))
  BY <1>1, <1>2
<1>. QED  BY <1>3, FlattenType DEF AllIps

LEMMA AllIpsOne ==
  ASSUME NEW ips \in Seq(Text)
  PROVE  AllIps(<<IpsLine(ips)>>) = ips
<1>1. PICK line : line = IpsLine(ips) /\ line.ips = ips
  BY FixedLines
<1>2. DOMAIN <<line>> = {1} /\ <<line>>[1] = line
  OBVIOUS
<1>3. [i \in DOMAIN <<line>> |-> <<line>>[i].ips] = <<ips>>
  BY <1>1, <1>2
<1>. QED  BY <1>1, <1>3, FlattenOne DEF AllIps

LEMMA PeerOfType ==
  ASSUME NEW lead \in Seq(Lines), NEW body \in Seq(Lines)
  PROVE  PeerOf(lead, body) \in PeerRec
<1>1. Only(lead, {"note"}) \in Seq(Of({"note"})) /\ Only(body, Comment) \in Seq(Of(Comment))
  BY OnlyType
<1>2. AllIps(Only(body, {"ips"})) \in Seq(Text)
  BY OnlyType, AllIpsType
<1>. QED  BY <1>1, <1>2, LastValueType DEF PeerOf, PeerRec

LEMMA BlockTypes ==
  ASSUME NEW peer \in PeerRec
  PROVE  /\ peer.lead \in Seq(Lines) /\ Optional("name", peer.name) \in Seq(Lines)
         /\ Above(peer) \in Seq(Of(Comment)) /\ Above(peer) \in Seq(Lines)
         /\ <<Line("key", peer.key)>> \in Seq(Of({"key"}))
         /\ Optional("psk", peer.psk) \in Seq(Of({"psk"}))
         /\ <<IpsLine(peer.ips)>> \in Seq(Of({"ips"}))
         /\ peer.body \in Seq(Of(Comment))
         /\ Below(peer) \in Seq(Lines)
<1>1. /\ Of({"note"}) \subseteq Lines /\ Of({"note"}) \subseteq Of(Comment)
      /\ Of({"name"}) \subseteq Of(Comment) /\ Of(Comment) \subseteq Lines
      /\ Of({"key"}) \subseteq Lines /\ Of({"psk"}) \subseteq Lines /\ Of({"ips"}) \subseteq Lines
  BY DEF Of, Comment
<1>2. {"name", "psk", "key", "ips"} \subseteq Kinds
  BY DEF Kinds
<1>3. /\ peer.lead \in Seq(Of({"note"})) /\ peer.name \in Text /\ peer.key \in Text
      /\ peer.psk \in Text /\ peer.ips \in Seq(Text) /\ peer.body \in Seq(Of(Comment))
  BY DEF PeerRec
<1>4. Optional("name", peer.name) \in Seq(Of({"name"}))
  BY <1>2, <1>3, OptionalType
<1>5. Optional("psk", peer.psk) \in Seq(Of({"psk"}))
  BY <1>2, <1>3, OptionalType
<1>6. Line("key", peer.key) \in Of({"key"})
  BY <1>2, <1>3, LineTypes DEF Of
<1>7. IpsLine(peer.ips) \in Of({"ips"})
  BY <1>3, FixedLines DEF Of
<1>8. <<Line("key", peer.key)>> \in Seq(Of({"key"})) /\ <<IpsLine(peer.ips)>> \in Seq(Of({"ips"}))
  BY <1>6, <1>7
<1>9. peer.lead \in Seq(Of(Comment)) /\ Optional("name", peer.name) \in Seq(Of(Comment))
  BY <1>1, <1>3, <1>4, SeqMonotonic
<1>10. Above(peer) \in Seq(Of(Comment))
  BY <1>9, ConcatProperties DEF Above
<1>11. /\ peer.lead \in Seq(Lines) /\ Optional("name", peer.name) \in Seq(Lines)
       /\ Above(peer) \in Seq(Lines)
  BY <1>1, <1>9, <1>10, SeqMonotonic
<1>12. /\ <<Line("key", peer.key)>> \in Seq(Lines) /\ Optional("psk", peer.psk) \in Seq(Lines)
       /\ <<IpsLine(peer.ips)>> \in Seq(Lines) /\ peer.body \in Seq(Lines)
  BY <1>1, <1>3, <1>5, <1>8, SeqMonotonic
<1>13. Below(peer) \in Seq(Lines)
  BY <1>12, ConcatProperties DEF Below
<1>. QED  BY <1>3, <1>5, <1>8, <1>10, <1>11, <1>13

LEMMA OnlyConcatAll ==
  \A ks : \A s, t \in Seq(Lines) : /\ s \o t \in Seq(Lines)
                                   /\ Only(s \o t, ks) = Only(s, ks) \o Only(t, ks)
<1>1. ASSUME NEW ks, NEW s \in Seq(Lines), NEW t \in Seq(Lines)
      PROVE  /\ s \o t \in Seq(Lines)
             /\ Only(s \o t, ks) = Only(s, ks) \o Only(t, ks)
  <2>1. Only(s \o t, ks) = Only(s, ks) \o Only(t, ks)
    BY OnlyConcat
  <2>. QED  BY <2>1, ConcatProperties
<1>. QED  BY <1>1

(* Each of the reader's questions about a written block finds the line it  *)
(* is about and no other.                                                  *)
LEMMA BelowRead ==
  ASSUME NEW peer \in PeerRec
  PROVE  /\ Only(Below(peer) \o <<Empty>>, {"key"}) = <<Line("key", peer.key)>>
         /\ Only(Below(peer) \o <<Empty>>, {"psk"}) = Optional("psk", peer.psk)
         /\ Only(Below(peer) \o <<Empty>>, {"ips"}) = <<IpsLine(peer.ips)>>
         /\ Only(Below(peer) \o <<Empty>>, Comment) = peer.body
<1>1. PICK a : a = <<Line("key", peer.key)>>
  OBVIOUS
<1>2. PICK b : b = Optional("psk", peer.psk)
  OBVIOUS
<1>3. PICK c : c = <<IpsLine(peer.ips)>>
  OBVIOUS
<1>4. PICK d : d = peer.body
  OBVIOUS
<1>5. PICK e : e = <<Empty>>
  OBVIOUS
<1>6. /\ a \in Seq(Of({"key"})) /\ b \in Seq(Of({"psk"})) /\ c \in Seq(Of({"ips"}))
      /\ d \in Seq(Of(Comment))
  BY <1>1, <1>2, <1>3, <1>4, BlockTypes
<1>7. e \in Seq(Of({"empty"}))
  <2>1. Empty \in Of({"empty"})
    BY FixedLines DEF Of
  <2>. QED  BY <1>5, <2>1
<1>8. \A ks : Of(ks) \subseteq Lines
  BY DEF Of
<1>9. /\ a \in Seq(Lines) /\ b \in Seq(Lines) /\ c \in Seq(Lines) /\ d \in Seq(Lines)
      /\ e \in Seq(Lines)
  BY <1>6, <1>7, <1>8, SeqMonotonic
<1>10. Below(peer) \o <<Empty>> = a \o b \o c \o d \o e
  BY <1>1, <1>2, <1>3, <1>4, <1>5 DEF Below
<1>11. ASSUME NEW ks
       PROVE  Only(Below(peer) \o <<Empty>>, ks)
                = Only(a, ks) \o Only(b, ks) \o Only(c, ks) \o Only(d, ks) \o Only(e, ks)
  <2>1. \A s, t \in Seq(Lines) : /\ s \o t \in Seq(Lines)
                                 /\ Only(s \o t, ks) = Only(s, ks) \o Only(t, ks)
    BY OnlyConcatAll
  <2>2. PICK ab \in Seq(Lines) : ab = a \o b
    BY <1>9, <2>1
  <2>3. PICK abc \in Seq(Lines) : abc = ab \o c
    BY <1>9, <2>1
  <2>4. PICK abcd \in Seq(Lines) : abcd = abc \o d
    BY <1>9, <2>1
  <2>5. Only(ab, ks) = Only(a, ks) \o Only(b, ks)
    BY <1>9, <2>1, <2>2
  <2>6. Only(abc, ks) = Only(ab, ks) \o Only(c, ks)
    BY <1>9, <2>1, <2>3
  <2>7. Only(abcd, ks) = Only(abc, ks) \o Only(d, ks)
    BY <1>9, <2>1, <2>4
  <2>8. Only(abcd \o e, ks) = Only(abcd, ks) \o Only(e, ks)
    BY <1>9, <2>1
  <2>. QED  BY <1>10, <2>2, <2>3, <2>4, <2>5, <2>6, <2>7, <2>8
<1>12. {"key", "psk", "ips", "empty", "name", "note"} \subseteq Kinds /\ Comment = {"name", "note"}
  BY DEF Kinds, Comment
<1>13. ASSUME NEW ks
       PROVE  /\ ks \cap {"key"} = {} => Only(a, ks) = <<>>
              /\ ks \cap {"psk"} = {} => Only(b, ks) = <<>>
              /\ ks \cap {"ips"} = {} => Only(c, ks) = <<>>
              /\ ks \cap Comment = {} => Only(d, ks) = <<>>
              /\ ks \cap {"empty"} = {} => Only(e, ks) = <<>>
  BY <1>6, <1>7, <1>12, OnlyOther
<1>14. /\ Only(a, {"key"}) = a /\ Only(b, {"psk"}) = b /\ Only(c, {"ips"}) = c
       /\ Only(d, Comment) = d
  BY <1>6, OnlyAll
<1>15. /\ a \o <<>> \o <<>> \o <<>> \o <<>> = a
       /\ <<>> \o b \o <<>> \o <<>> \o <<>> = b
       /\ <<>> \o <<>> \o c \o <<>> \o <<>> = c
       /\ <<>> \o <<>> \o <<>> \o d \o <<>> = d
  <2>1. ASSUME NEW s \in Seq(Lines)  PROVE s \o <<>> = s /\ <<>> \o s = s
    BY ConcatEmptySeq
  <2>2. <<>> \o <<>> = <<>>
    OBVIOUS
  <2>3. a \o <<>> = a /\ b \o <<>> = b /\ c \o <<>> = c /\ d \o <<>> = d
    BY <1>9, <2>1
  <2>4. <<>> \o b = b /\ <<>> \o c = c /\ <<>> \o d = d
    BY <1>9, <2>1
  <2>. QED  BY <2>2, <2>3, <2>4
<1>16. Only(Below(peer) \o <<Empty>>, {"key"}) = a
  <2>1. /\ Only(b, {"key"}) = <<>> /\ Only(c, {"key"}) = <<>> /\ Only(d, {"key"}) = <<>>
        /\ Only(e, {"key"}) = <<>>
    BY <1>12, <1>13
  <2>. QED  BY <1>11, <1>14, <1>15, <2>1
<1>17. Only(Below(peer) \o <<Empty>>, {"psk"}) = b
  <2>1. /\ Only(a, {"psk"}) = <<>> /\ Only(c, {"psk"}) = <<>> /\ Only(d, {"psk"}) = <<>>
        /\ Only(e, {"psk"}) = <<>>
    BY <1>12, <1>13
  <2>. QED  BY <1>11, <1>14, <1>15, <2>1
<1>18. Only(Below(peer) \o <<Empty>>, {"ips"}) = c
  <2>1. /\ Only(a, {"ips"}) = <<>> /\ Only(b, {"ips"}) = <<>> /\ Only(d, {"ips"}) = <<>>
        /\ Only(e, {"ips"}) = <<>>
    BY <1>12, <1>13
  <2>. QED  BY <1>11, <1>14, <1>15, <2>1
<1>19. Only(Below(peer) \o <<Empty>>, Comment) = d
  <2>1. /\ Only(a, Comment) = <<>> /\ Only(b, Comment) = <<>> /\ Only(c, Comment) = <<>>
        /\ Only(e, Comment) = <<>>
    BY <1>12, <1>13
  <2>. QED  BY <1>11, <1>14, <1>15, <2>1
<1>. QED  BY <1>1, <1>2, <1>3, <1>4, <1>16, <1>17, <1>18, <1>19

LEMMA LeadRead ==
  ASSUME NEW lead \in Seq(Of({"note"})), NEW name \in Text
  PROVE  /\ Only(lead \o Optional("name", name), {"note"}) = lead
         /\ Only(lead \o Optional("name", name), {"name"}) = Optional("name", name)
<1>1. {"name", "note"} \subseteq Kinds /\ \A ks : Of(ks) \subseteq Lines
  BY DEF Kinds, Of
<1>2. PICK b : b = Optional("name", name)
  OBVIOUS
<1>3. lead \in Seq(Lines) /\ b \in Seq(Lines) /\ b \in Seq(Of({"name"}))
  BY <1>1, <1>2, OptionalType, SeqMonotonic
<1>4. \A ks : Only(lead \o b, ks) = Only(lead, ks) \o Only(b, ks)
  BY <1>3, OnlyConcat
<1>5. Only(lead, {"note"}) = lead /\ Only(b, {"name"}) = b
  BY <1>3, OnlyAll
<1>6. Only(b, {"note"}) = <<>>
  BY <1>1, <1>3, OnlyOther
<1>7. Only(lead, {"name"}) = <<>>
  BY <1>1, <1>3, OnlyOther
<1>8. lead \o <<>> = lead /\ <<>> \o b = b
  BY <1>3, ConcatEmptySeq
<1>. QED  BY <1>2, <1>4, <1>5, <1>6, <1>7, <1>8

(* A written block reads as what was written, whole or without its lead.   *)
LEMMA ParsedBack ==
  ASSUME NEW peer \in PeerRec
  PROVE  /\ PeerOf(Above(peer), Below(peer) \o <<Empty>>) = peer
         /\ PeerOf(Optional("name", peer.name), Below(peer) \o <<Empty>>)
              = [peer EXCEPT !.lead = <<>>]
<1>1. /\ peer.lead \in Seq(Of({"note"})) /\ peer.name \in Text /\ peer.key \in Text
      /\ peer.psk \in Text /\ peer.ips \in Seq(Text)
      /\ peer = [lead |-> peer.lead, name |-> peer.name, key |-> peer.key,
                 psk |-> peer.psk, ips |-> peer.ips, body |-> peer.body]
  BY DEF PeerRec
<1>2. {"name", "key", "psk"} \subseteq Kinds
  BY DEF Kinds
<1>3. PICK below : below = Below(peer) \o <<Empty>>
  OBVIOUS
<1>4. /\ Only(below, {"key"}) = <<Line("key", peer.key)>>
      /\ Only(below, {"psk"}) = Optional("psk", peer.psk)
      /\ AllIps(Only(below, {"ips"})) = peer.ips /\ Only(below, Comment) = peer.body
  BY <1>1, <1>3, BelowRead, AllIpsOne
<1>5. LastValue(below, "key") = peer.key
  <2>1. Line("key", peer.key).val = peer.key
    BY <1>1, <1>2, LineTypes
  <2>2. PICK line : line = Line("key", peer.key)
    OBVIOUS
  <2>3. Len(<<line>>) = 1 /\ <<line>>[1] = line /\ <<line>> # <<>>
    OBVIOUS
  <2>. QED  BY <1>4, <2>1, <2>2, <2>3, Zenon DEF LastValue
<1>6. LastValue(below, "psk") = peer.psk
  BY <1>1, <1>2, <1>4, LastValueOptional
<1>7. /\ Only(Above(peer), {"note"}) = peer.lead
      /\ LastValue(Above(peer), "name") = peer.name
  BY <1>1, <1>2, LeadRead, LastValueOptional DEF Above
<1>8. /\ Only(Optional("name", peer.name), {"note"}) = <<>>
      /\ LastValue(Optional("name", peer.name), "name") = peer.name
  <2>1. PICK b : b = Optional("name", peer.name)
    OBVIOUS
  <2>2. <<>> \in Seq(Of({"note"})) /\ <<>> \o b = b
    BY <1>1, <1>2, <2>1, EmptySeq, ConcatEmptySeq, OptionalType
  <2>3. /\ Only(<<>> \o b, {"note"}) = <<>>
        /\ Only(<<>> \o b, {"name"}) = b
    BY <1>1, <2>1, <2>2, LeadRead
  <2>. QED  BY <1>1, <1>2, <2>1, <2>2, <2>3, LastValueOptional
<1>9. PeerOf(Above(peer), below) = peer
  BY <1>1, <1>4, <1>5, <1>6, <1>7 DEF PeerOf
<1>10. PeerOf(Optional("name", peer.name), below) = [peer EXCEPT !.lead = <<>>]
  <2>1. [peer EXCEPT !.lead = <<>>]
          = [lead |-> <<>>, name |-> peer.name, key |-> peer.key,
             psk |-> peer.psk, ips |-> peer.ips, body |-> peer.body]
    BY <1>1
  <2>. QED  BY <1>4, <1>5, <1>6, <1>8, <2>1 DEF PeerOf
<1>. QED  BY <1>3, <1>9, <1>10

-----------------------------------------------------------------------------
(* Where the blocks of a file lie: block k takes the lines s[k] to s[k+1]-1 *)
(* and its [Peer] line is p[k].                                            *)
Shape(F, n, s, p) ==
  /\ n \in Nat /\ 1 <= n
  /\ s \in [1..(n+1) -> Nat] /\ p \in [1..n -> Nat]
  /\ 1 <= s[1] /\ s[n+1] = Len(F) + 1
  /\ \A k \in 1..n : s[k] <= p[k] /\ p[k] < s[k+1]
  /\ At(F, "peer") = {p[k] : k \in 1..n}
  /\ s[1] = HeaderEnd(F)
  /\ \A k \in 2..n : s[k] = LeadStart(F, p[k], p[k-1] + 1)

LEMMA LeadStartIs ==
  ASSUME NEW F, NEW peer \in Nat, NEW lower \in Nat, NEW start \in lower..peer,
         \A i \in start..(peer - 1) : F[i].kind \in Comment,
         start = lower \/ F[start - 1].kind \notin Comment
  PROVE  LeadStart(F, peer, lower) = start
<1> DEFINE T == {s \in lower..peer : \A i \in s..(peer - 1) : F[i].kind \in Comment}
<1>1. T \in SUBSET Nat /\ start \in T
  OBVIOUS
<1>2. ASSUME NEW s \in T  PROVE start <= s
  <2>1. CASE start = lower
    BY <2>1
  <2>2. CASE F[start - 1].kind \notin Comment
    <3>1. s <= start - 1 => start - 1 \in s..(peer - 1)
      OBVIOUS
    <3>. QED  BY <2>2, <3>1
  <2>. QED  BY <2>1, <2>2
<1>3. LeadStart(F, peer, lower) = Min(T)
  BY DEF LeadStart
<1> HIDE DEF T
<1>. QED  BY <1>1, <1>2, <1>3, MinIs

LEMMA LeadStartRange ==
  ASSUME NEW F, NEW peer \in Nat, NEW lower \in Nat, lower <= peer
  PROVE  /\ LeadStart(F, peer, lower) \in lower..peer
         /\ \A i \in LeadStart(F, peer, lower)..(peer - 1) : F[i].kind \in Comment
<1> DEFINE T == {s \in lower..peer : \A i \in s..(peer - 1) : F[i].kind \in Comment}
<1>1. T \in SUBSET Nat /\ peer \in T
  OBVIOUS
<1>2. LeadStart(F, peer, lower) = Min(T)
  BY DEF LeadStart
<1>3. Min(T) \in T
  <2> HIDE DEF T
  <2>. QED  BY <1>1, MinLeast
<1>. QED  BY <1>2, <1>3

LEMMA AtRange ==
  ASSUME NEW F \in Seq(Lines), NEW kind
  PROVE  /\ At(F, kind) \in SUBSET (1..Len(F)) /\ At(F, kind) \in SUBSET Nat
         /\ \A i \in 1..Len(F) : i \in At(F, kind) <=> F[i].kind = kind
<1>1. PICK m \in Nat : m = Len(F) /\ DOMAIN F = 1..m
  BY LenProperties
<1>2. At(F, kind) = {i \in 1..m : F[i].kind = kind}
  BY <1>1 DEF At
<1>. QED  BY <1>1, <1>2

LEMMA ShapeOrder ==
  ASSUME NEW F, NEW n, NEW s, NEW p, Shape(F, n, s, p)
  PROVE  /\ \A j, k \in 1..n : j < k => p[j] < p[k] /\ p[j] < s[k]
         /\ \A k \in 1..n : s[k] \in Nat /\ s[k+1] \in Nat /\ p[k] \in Nat
         /\ \A k \in 1..n : 1 <= s[k] /\ s[k+1] <= Len(F) + 1
<1>1. /\ n \in Nat /\ 1 <= n /\ s \in [1..(n+1) -> Nat] /\ p \in [1..n -> Nat]
      /\ 1 <= s[1] /\ s[n+1] = Len(F) + 1
      /\ \A k \in 1..n : s[k] <= p[k] /\ p[k] < s[k+1]
  BY DEF Shape
<1>2. \A k \in 1..n : k \in 1..(n+1) /\ k + 1 \in 1..(n+1)
  BY <1>1
<1>3. \A k \in 1..n : s[k] \in Nat /\ s[k+1] \in Nat /\ p[k] \in Nat
  BY <1>1, <1>2
<1>4. s \in [1..(n+1) -> Int] /\ n + 1 \in Nat
  BY <1>1
<1>5. \A k \in 1..((n+1) - 1) : s[k] < s[k+1]
  <2>1. ASSUME NEW k \in 1..n  PROVE s[k] < s[k+1]
    <3>1. s[k] <= p[k] /\ p[k] < s[k+1]
      BY <1>1
    <3>. QED  BY <1>3, <3>1
  <2>. QED  BY <1>1, <2>1
<1>6. \A j, k \in 1..(n+1) : j < k => s[j] < s[k]
  BY <1>4, <1>5, Increasing
<1>7. ASSUME NEW j \in 1..n, NEW k \in 1..n, j < k  PROVE p[j] < p[k] /\ p[j] < s[k]
  <2>1. p[j] < s[j+1] /\ s[k] <= p[k]
    BY <1>1
  <2>2. s[j+1] <= s[k]
    <3>1. CASE j + 1 = k
      BY <1>3, <3>1
    <3>2. CASE j + 1 < k
      <4>1. s[j+1] < s[k]
        BY <1>2, <1>6, <3>2
      <4>. QED  BY <1>3, <4>1
    <3>. QED  BY <1>1, <1>7, <3>1, <3>2
  <2>. QED  BY <1>3, <2>1, <2>2
<1>8. ASSUME NEW k \in 1..n  PROVE 1 <= s[k] /\ s[k+1] <= s[n+1]
  <2>1. 1 \in 1..(n+1) /\ n + 1 \in 1..(n+1) /\ k \in 1..(n+1) /\ k + 1 \in 1..(n+1)
    BY <1>1
  <2>2. k = 1 \/ s[1] < s[k]
    BY <1>6, <2>1
  <2>3. k + 1 = n + 1 \/ s[k+1] < s[n+1]
    BY <1>6, <2>1, <1>1
  <2>4. s[1] \in Nat /\ s[n+1] \in Nat /\ 1 <= s[1]
    BY <1>1, <2>1
  <2>5. s[k] \in Nat /\ s[k+1] \in Nat
    BY <1>3
  <2>6. 1 <= s[k]
    BY ONLY <2>2, <2>4, <2>5
  <2>7. s[k+1] <= s[n+1]
    BY ONLY <2>3, <2>4, <2>5
  <2>. QED  BY <2>6, <2>7
<1>. QED  BY <1>1, <1>3, <1>7, <1>8

LEMMA ShapeLead ==
  ASSUME NEW F \in Seq(Lines), NEW n, NEW s, NEW p, Shape(F, n, s, p), NEW k \in 1..n
  PROVE  Lead(F, p[k]) = SubSeq(F, s[k], p[k] - 1)
<1>1. /\ n \in Nat /\ At(F, "peer") = {p[j] : j \in 1..n}
      /\ s[1] = HeaderEnd(F) /\ \A j \in 2..n : s[j] = LeadStart(F, p[j], p[j-1] + 1)
  BY DEF Shape
<1>2. /\ \A i, j \in 1..n : i < j => p[i] < p[j]
      /\ \A j \in 1..n : p[j] \in Nat
  BY ShapeOrder
<1> DEFINE earlier == {q \in At(F, "peer") : q < p[k]}
<1>3. CASE k = 1
  <2>1. earlier = {}
    <3>1. ASSUME NEW j \in 1..n  PROVE ~(p[j] < p[k])
      <4>1. j = k \/ k < j
        BY <1>1, <1>3
      <4>. QED  BY <1>2, <4>1
    <3>. QED  BY <1>1, <3>1
  <2>. QED  BY <1>1, <1>3, <2>1 DEF Lead
<1>4. CASE k # 1
  <2>1. k \in 2..n /\ k - 1 \in 1..n /\ k - 1 < k
    BY <1>1, <1>4
  <2>2. earlier \in SUBSET Nat /\ p[k-1] \in earlier
    <3>1. p[k-1] < p[k] /\ p[k-1] \in At(F, "peer")
      BY <1>1, <1>2, <2>1
    <3>. QED  BY <1>1, <1>2, <3>1
  <2>3. ASSUME NEW q \in earlier  PROVE q <= p[k-1]
    <3>1. PICK j \in 1..n : q = p[j]
      BY <1>1
    <3>2. ~(k < j) /\ j # k
      BY <1>2, <3>1
    <3>3. j = k - 1 \/ j < k - 1
      BY <1>1, <3>2
    <3>. QED  BY <1>2, <2>1, <3>1, <3>3
  <2>4. Max(earlier) = p[k-1]
    <3> HIDE DEF earlier
    <3>. QED  BY <2>2, <2>3, MaxIs
  <2>5. earlier # {}
    BY <2>2
  <2>. QED  BY <1>1, <2>1, <2>4, <2>5 DEF Lead
<1>. QED  BY <1>3, <1>4

LEMMA ShapeBody ==
  ASSUME NEW F \in Seq(Lines), NEW n, NEW s, NEW p, Shape(F, n, s, p), NEW k \in 1..n
  PROVE  Body(F, p[k]) = SubSeq(F, p[k] + 1, s[k+1] - 1)
<1>1. /\ n \in Nat /\ At(F, "peer") = {p[j] : j \in 1..n} /\ s[n+1] = Len(F) + 1
      /\ \A j \in 2..n : s[j] = LeadStart(F, p[j], p[j-1] + 1)
  BY DEF Shape
<1>2. /\ \A i, j \in 1..n : i < j => p[i] < p[j]
      /\ \A j \in 1..n : p[j] \in Nat
  BY ShapeOrder
<1> DEFINE later == {q \in At(F, "peer") : q > p[k]}
<1>3. CASE k = n
  <2>1. later = {}
    <3>1. ASSUME NEW j \in 1..n  PROVE ~(p[j] > p[k])
      <4>1. j = k \/ j < k
        BY <1>1, <1>3
      <4>. QED  BY <1>2, <4>1
    <3>. QED  BY <1>1, <3>1
  <2>2. s[k+1] - 1 = Len(F)
    <3>1. Len(F) \in Nat
      BY LenProperties
    <3>. QED  BY <1>1, <1>3, <3>1
  <2>. QED  BY <2>1, <2>2 DEF Body
<1>4. CASE k # n
  <2>1. k + 1 \in 2..n /\ k + 1 \in 1..n /\ k < k + 1 /\ (k + 1) - 1 = k
    BY <1>1, <1>4
  <2>2. later \in SUBSET Nat /\ p[k+1] \in later
    <3>1. p[k] < p[k+1] /\ p[k+1] \in At(F, "peer")
      BY <1>1, <1>2, <2>1
    <3>. QED  BY <1>1, <1>2, <2>1, <3>1
  <2>3. ASSUME NEW q \in later  PROVE p[k+1] <= q
    <3>1. PICK j \in 1..n : q = p[j]
      BY <1>1
    <3>2. ~(j < k) /\ j # k
      BY <1>2, <3>1
    <3>3. j = k + 1 \/ k + 1 < j
      BY <1>1, <3>2
    <3>. QED  BY <1>2, <2>1, <3>1, <3>3
  <2>4. Min(later) = p[k+1]
    <3> HIDE DEF later
    <3>. QED  BY <2>2, <2>3, MinIs
  <2>5. later # {}
    BY <2>2
  <2>6. s[k+1] = LeadStart(F, p[k+1], p[k] + 1)
    BY <1>1, <2>1
  <2>. QED  BY <2>4, <2>5, <2>6 DEF Body
<1>. QED  BY <1>3, <1>4

LEMMA ShapeSlices ==
  ASSUME NEW F \in Seq(Lines), NEW n, NEW s, NEW p, Shape(F, n, s, p), NEW k \in 1..n
  PROVE  /\ SubSeq(F, s[k], p[k] - 1) \in Seq(Lines)
         /\ Len(SubSeq(F, s[k], p[k] - 1)) = p[k] - s[k]
         /\ \A i \in 1..(p[k] - s[k]) : SubSeq(F, s[k], p[k] - 1)[i] = F[s[k] + i - 1]
         /\ SubSeq(F, p[k] + 1, s[k+1] - 1) \in Seq(Lines)
         /\ p[k] \in 1..Len(F) /\ F[p[k]].kind = "peer"
<1>1. /\ s[k] \in Nat /\ s[k+1] \in Nat /\ p[k] \in Nat
      /\ 1 <= s[k] /\ s[k+1] <= Len(F) + 1
  BY ShapeOrder
<1>2. /\ s[k] <= p[k] /\ p[k] < s[k+1] /\ p[k] \in At(F, "peer")
  BY DEF Shape
<1>3. Len(F) \in Nat
  BY LenProperties
<1>7. PICK x \in Nat : x = s[k]
  BY <1>1
<1>8. PICK y \in Nat : y = p[k]
  BY <1>1
<1>9. PICK z \in Nat : z = s[k+1]
  BY <1>1
<1>10. 1 <= x /\ x <= y /\ y < z /\ z <= Len(F) + 1
  BY <1>1, <1>2, <1>7, <1>8, <1>9
<1>4. /\ SubSeq(F, x, y - 1) \in Seq(Lines)
      /\ Len(SubSeq(F, x, y - 1)) = y - x
      /\ \A i \in 1..(y - x) : SubSeq(F, x, y - 1)[i] = F[x + i - 1]
  <2>1. PICK b \in Int : b = y - 1
    OBVIOUS
  <2>2. x - 1 <= b /\ b <= Len(F) /\ b - x + 1 = y - x
    BY <1>3, <1>10, <2>1
  <2>3. /\ SubSeq(F, x, b) \in Seq(Lines)
        /\ Len(SubSeq(F, x, b)) = b - x + 1
        /\ \A i \in 1..(b - x + 1) : SubSeq(F, x, b)[i] = F[x + i - 1]
    BY <1>10, <2>2, Slice
  <2>. QED  BY <2>1, <2>2, <2>3
<1>5. SubSeq(F, y + 1, z - 1) \in Seq(Lines)
  <2>1. PICK a \in Nat : a = y + 1
    OBVIOUS
  <2>2. PICK b \in Int : b = z - 1
    OBVIOUS
  <2>3. 1 <= a /\ a - 1 <= b /\ b <= Len(F)
    BY <1>3, <1>10, <2>1, <2>2
  <2>4. SubSeq(F, a, b) \in Seq(Lines)
    BY <2>3, Slice
  <2>. QED  BY <2>1, <2>2, <2>4
<1>6. p[k] \in 1..Len(F) /\ F[p[k]].kind = "peer"
  BY <1>2, AtRange
<1>. QED  BY <1>4, <1>5, <1>6, <1>7, <1>8, <1>9

LEMMA ShapeParse ==
  ASSUME NEW F \in Seq(Lines), NEW n, NEW s, NEW p, Shape(F, n, s, p)
  PROVE  /\ Parse(F).header = SubSeq(F, 1, s[1] - 1)
         /\ Parse(F).peers = [k \in 1..n |-> PeerOf(SubSeq(F, s[k], p[k] - 1),
                                                    SubSeq(F, p[k] + 1, s[k+1] - 1))]
         /\ Parse(F).peers \in Seq(PeerRec) /\ Len(Parse(F).peers) = n
<1>1. /\ n \in Nat /\ 1 <= n /\ At(F, "peer") = {p[k] : k \in 1..n} /\ s[1] = HeaderEnd(F)
  BY DEF Shape
<1>2. At(F, "peer") # {}
  <2>1. 1 \in 1..n
    BY <1>1
  <2>2. p[1] \in At(F, "peer")
    BY <1>1, <2>1
  <2>. QED  BY <2>2
<1>3. PICK m \in Nat : m = Len(F) /\ DOMAIN F = 1..m
  BY LenProperties
<1> DEFINE v == [k \in 1..n |-> PeerOf(SubSeq(F, s[k], p[k] - 1),
                                       SubSeq(F, p[k] + 1, s[k+1] - 1))]
           ss == [i \in 1..m |-> IF i \in At(F, "peer") THEN <<ParsePeer(F, i)>> ELSE <<>>]
<1>4. Parse(F).header = SubSeq(F, 1, s[1] - 1) /\ Parse(F).peers = FlattenSeq(ss)
  <2>1. /\ Parse(F).header = SubSeq(F, 1, HeaderEnd(F) - 1)
        /\ Parse(F).peers = FlattenSeq([i \in DOMAIN F |->
             IF i \in At(F, "peer") THEN <<ParsePeer(F, i)>> ELSE <<>>])
    BY <1>2 DEF Parse
  <2>. QED  BY <1>1, <1>3, <2>1
<1>5. ASSUME NEW k \in 1..n
      PROVE  v[k] = ParsePeer(F, p[k]) /\ v[k] \in PeerRec /\ p[k] \in 1..m
  <2>1. v[k] = ParsePeer(F, p[k])
    <3>1. Lead(F, p[k]) = SubSeq(F, s[k], p[k] - 1)
      BY ShapeLead
    <3>2. Body(F, p[k]) = SubSeq(F, p[k] + 1, s[k+1] - 1)
      BY ShapeBody
    <3>3. ParsePeer(F, p[k]) = PeerOf(Lead(F, p[k]), Body(F, p[k]))
      BY ParsePeerIsPeerOf
    <3>. QED  BY <3>1, <3>2, <3>3
  <2>2. v[k] \in PeerRec
    BY ShapeSlices, PeerOfType
  <2>3. p[k] \in 1..m
    BY <1>3, ShapeSlices
  <2>. QED  BY <2>1, <2>2, <2>3
<1>6. v \in [1..n -> PeerRec]
  BY <1>5
<1>7. ss \in Seq(Seq(PeerRec)) /\ Len(ss) = m
  <2>1. ASSUME NEW i \in 1..m  PROVE ss[i] \in Seq(PeerRec)
    <3>1. CASE i \in At(F, "peer")
      <4>1. PICK k \in 1..n : i = p[k]
        BY <1>1, <3>1
      <4>2. ParsePeer(F, i) \in PeerRec
        BY <1>5, <4>1
      <4>3. <<ParsePeer(F, i)>> \in Seq(PeerRec)
        BY <4>2
      <4>. QED  BY <3>1, <4>3
    <3>2. CASE i \notin At(F, "peer")
      BY <3>2, EmptySeq
    <3>. QED  BY <3>1, <3>2
  <2>2. ss \in [1..m -> Seq(PeerRec)]
    BY <2>1
  <2>. QED  BY <2>2
<1>8. \A k \in 1..n : ss[p[k]] = << v[k] >>
  BY <1>1, <1>5
<1>9. \A i \in 1..m : (\A k \in 1..n : p[k] # i) => ss[i] = <<>>
  BY <1>1
<1>10. \A j, k \in 1..n : j < k => p[j] < p[k]
  BY ShapeOrder
<1>11. p \in [1..n -> 1..m]
  <2>1. p \in [1..n -> Nat]
    BY DEF Shape
  <2>. QED  BY <1>5, <2>1
<1> HIDE DEF ss, v
<1>12. FlattenSeq(ss) = v
  <2>1. PICK xs \in Seq(Seq(PeerRec)) : xs = ss
    BY <1>7
  <2>2. Len(xs) = m /\ n \in Nat
    BY <1>1, <1>7, <2>1
  <2>3. p \in [1..n -> 1..Len(xs)]
    BY <1>11, <2>2
  <2>4. /\ \A k \in 1..n : xs[p[k]] = << v[k] >>
        /\ \A i \in 1..Len(xs) : (\A k \in 1..n : p[k] # i) => xs[i] = <<>>
    BY <1>8, <1>9, <2>1, <2>2
  <2>5. Chosen(PeerRec, xs, n, p, v)
    BY <1>6, <1>10, <2>2, <2>3, <2>4 DEF Chosen
  <2>6. FlattenSeq(xs) = v
    BY <2>5, FlattenChosen
  <2>. QED  BY <2>1, <2>6
<1>13. v \in Seq(PeerRec) /\ Len(v) = n
  BY <1>1, <1>6
<1>14. Parse(F).header = SubSeq(F, 1, s[1] - 1) /\ Parse(F).peers = v
  BY <1>4, <1>12
<1>15. Parse(F).peers \in Seq(PeerRec) /\ Len(Parse(F).peers) = n
  BY <1>13, <1>14
<1>. QED  BY <1>14, <1>15 DEF v

LEMMA HeaderEndIs ==
  ASSUME NEW F \in Seq(Lines), NEW first \in At(F, "peer"), \A q \in At(F, "peer") : first <= q
  PROVE  HeaderEnd(F) = IF first > 1 /\ F[first - 1].kind = "name" THEN first - 1 ELSE first
<1>1. Min(At(F, "peer")) = first
  BY AtRange, MinIs
<1>. QED  BY <1>1 DEF HeaderEnd

LEMMA ShapeExists ==
  ASSUME NEW F \in Seq(Lines), At(F, "peer") # {}
  PROVE  \E n, s, p : Shape(F, n, s, p)
<1>1. PICK m \in Nat : m = Len(F)
  BY LenProperties
<1>2. PICK T \in SUBSET (1..m) : T = At(F, "peer")
  BY <1>1, AtRange
<1>3. PICK n, p : Lists(T, m, n, p)
  BY Enumerates
<1>4. /\ n \in Nat /\ p \in [1..n -> 1..m]
      /\ \A j, k \in 1..n : j < k => p[j] < p[k]
      /\ \A k \in 1..n : p[k] \in T
      /\ \A i \in T : \E k \in 1..n : p[k] = i
  BY <1>3 DEF Lists
<1>5. 1 <= n /\ 1 \in 1..n /\ n \in 1..n
  BY <1>2, <1>4
<1>6. T = {p[k] : k \in 1..n}
  BY <1>4
<1>7. \A k \in 1..n : p[k] \in Nat /\ 1 <= p[k] /\ p[k] <= m
  BY <1>4
<1>8. ASSUME NEW q \in At(F, "peer")  PROVE p[1] <= q
  <2>1. PICK k \in 1..n : q = p[k]
    BY <1>2, <1>4
  <2>2. k = 1 \/ 1 < k
    OBVIOUS
  <2>. QED  BY <1>4, <1>5, <1>7, <2>1, <2>2
<1>9. HeaderEnd(F) \in Nat /\ 1 <= HeaderEnd(F) /\ HeaderEnd(F) <= p[1]
  <2>1. p[1] \in At(F, "peer")
    BY <1>2, <1>4, <1>5
  <2>2. HeaderEnd(F) = IF p[1] > 1 /\ F[p[1] - 1].kind = "name" THEN p[1] - 1 ELSE p[1]
    BY <1>8, <2>1, HeaderEndIs
  <2>. QED  BY <1>5, <1>7, <2>2
<1>10. ASSUME NEW k \in 2..n
       PROVE  /\ LeadStart(F, p[k], p[k-1] + 1) \in Nat
              /\ p[k-1] < LeadStart(F, p[k], p[k-1] + 1)
              /\ LeadStart(F, p[k], p[k-1] + 1) <= p[k]
  <2>1. k \in 1..n /\ k - 1 \in 1..n /\ k - 1 < k
    BY <1>4
  <2>2. p[k-1] < p[k] /\ p[k] \in Nat /\ p[k-1] \in Nat
    BY <1>4, <1>7, <2>1
  <2>3. p[k-1] + 1 \in Nat /\ p[k-1] + 1 <= p[k]
    BY <2>2
  <2>4. LeadStart(F, p[k], p[k-1] + 1) \in (p[k-1] + 1)..p[k]
    BY <2>2, <2>3, LeadStartRange
  <2>. QED  BY <2>2, <2>4
<1> DEFINE s == [k \in 1..(n+1) |-> IF k = 1 THEN HeaderEnd(F)
                                     ELSE IF k = n + 1 THEN m + 1
                                     ELSE LeadStart(F, p[k], p[k-1] + 1)]
<1>11. /\ s[1] = HeaderEnd(F) /\ s[n+1] = m + 1
       /\ \A k \in 2..n : s[k] = LeadStart(F, p[k], p[k-1] + 1)
  BY <1>5
<1>12. s \in [1..(n+1) -> Nat]
  <2>1. ASSUME NEW k \in 1..(n+1)  PROVE s[k] \in Nat
    <3>1. k = 1 \/ k = n + 1 \/ k \in 2..n
      BY <1>4
    <3>. QED  BY <1>9, <1>10, <1>11, <3>1
  <2>. QED  BY <2>1
<1> HIDE DEF s
<1>13. ASSUME NEW k \in 1..n  PROVE s[k] <= p[k] /\ p[k] < s[k+1]
  <2>1. s[k] <= p[k]
    <3>1. k = 1 \/ k \in 2..n
      OBVIOUS
    <3>. QED  BY <1>9, <1>10, <1>11, <3>1
  <2>2. p[k] < s[k+1]
    <3>1. CASE k = n
      BY <1>7, <1>11, <3>1
    <3>2. CASE k # n
      <4>1. k + 1 \in 2..n /\ (k + 1) - 1 = k
        BY <1>4, <3>2
      <4>2. s[k+1] = LeadStart(F, p[k+1], p[k] + 1)
        BY <1>11, <4>1
      <4>3. p[k] < LeadStart(F, p[k+1], p[k] + 1)
        BY <1>10, <4>1
      <4>. QED  BY <4>2, <4>3
    <3>. QED  BY <3>1, <3>2
  <2>. QED  BY <2>1, <2>2
<1>14. Shape(F, n, s, p)
  <2>1. p \in [1..n -> Nat]
    BY <1>4
  <2>2. At(F, "peer") = {p[k] : k \in 1..n}
    BY <1>2, <1>6
  <2>. QED  BY <1>1, <1>5, <1>9, <1>11, <1>12, <1>13, <2>1, <2>2 DEF Shape
<1>. QED  BY <1>14

LEMMA ShapeFirst ==
  ASSUME NEW F \in Seq(Lines), NEW n, NEW s, NEW p, Shape(F, n, s, p)
  PROVE  /\ 1 \in 1..n /\ p[1] \in At(F, "peer") /\ \A q \in At(F, "peer") : p[1] <= q
         /\ s[1] = IF p[1] > 1 /\ F[p[1] - 1].kind = "name" THEN p[1] - 1 ELSE p[1]
<1>1. /\ n \in Nat /\ 1 <= n /\ At(F, "peer") = {p[k] : k \in 1..n} /\ s[1] = HeaderEnd(F)
  BY DEF Shape
<1>2. 1 \in 1..n
  BY <1>1
<1>3. p[1] \in At(F, "peer")
  BY <1>1, <1>2
<1>4. ASSUME NEW q \in At(F, "peer")  PROVE p[1] <= q
  <2>1. PICK k \in 1..n : q = p[k]
    BY <1>1
  <2>2. k = 1 \/ 1 < k
    BY <1>1
  <2>. QED  BY <1>2, <2>1, <2>2, ShapeOrder
<1>. QED  BY <1>1, <1>2, <1>3, <1>4, HeaderEndIs

LEMMA ParseNoPeer ==
  ASSUME NEW F, At(F, "peer") = {}
  PROVE  Parse(F).header = F /\ Parse(F).peers = <<>>
BY DEF Parse

(* The header holds no [Peer] line, the blocks are records, and the first  *)
(* block keeps no comment of its own: what stands above it is the header's.*)
LEMMA ParseType ==
  ASSUME NEW F \in Seq(Lines)
  PROVE  /\ Parse(F).header \in Seq(Lines)
         /\ \A i \in 1..Len(Parse(F).header) : /\ Parse(F).header[i] = F[i]
                                               /\ i \in 1..Len(F)
                                               /\ Parse(F).header[i].kind # "peer"
         /\ Parse(F).peers \in Seq(PeerRec)
         /\ Len(Parse(F).peers) >= 1 => Parse(F).peers[1].lead = <<>>
         /\ \A i \in 1..Len(F) : /\ F[i].kind = "private"
                                 /\ \A q \in At(F, "peer") : i < q
                                 => i \in 1..Len(Parse(F).header)
<1>1. CASE At(F, "peer") = {}
  <2>1. Parse(F).header = F /\ Parse(F).peers = <<>>
    BY <1>1, ParseNoPeer
  <2>2. \A i \in 1..Len(F) : F[i].kind # "peer"
    BY <1>1, AtRange
  <2>3. Parse(F).peers \in Seq(PeerRec) /\ Len(Parse(F).peers) = 0
    BY <2>1, EmptySeq
  <2>. QED  BY <2>1, <2>2, <2>3
<1>2. CASE At(F, "peer") # {}
  <2>1. PICK n, s, p : Shape(F, n, s, p)
    BY <1>2, ShapeExists
  <2>2. /\ 1 \in 1..n /\ p[1] \in At(F, "peer") /\ \A q \in At(F, "peer") : p[1] <= q
        /\ s[1] = IF p[1] > 1 /\ F[p[1] - 1].kind = "name" THEN p[1] - 1 ELSE p[1]
    BY <2>1, ShapeFirst
  <2>3. /\ Parse(F).header = SubSeq(F, 1, s[1] - 1)
        /\ Parse(F).peers = [k \in 1..n |-> PeerOf(SubSeq(F, s[k], p[k] - 1),
                                                   SubSeq(F, p[k] + 1, s[k+1] - 1))]
        /\ Parse(F).peers \in Seq(PeerRec) /\ Len(Parse(F).peers) = n
    BY <2>1, ShapeParse
  <2>4. s[1] \in Nat /\ p[1] \in Nat /\ 1 <= s[1] /\ s[1] <= p[1] /\ p[1] <= Len(F)
    <3>1. s[1] \in Nat /\ p[1] \in Nat /\ 1 <= s[1]
      BY <2>1, <2>2, ShapeOrder
    <3>2. s[1] <= p[1]
      BY <2>1, <2>2 DEF Shape
    <3>3. p[1] \in 1..Len(F)
      BY <2>1, <2>2, ShapeSlices
    <3>. QED  BY <3>1, <3>2, <3>3
  <2>5. Len(F) \in Nat
    BY LenProperties
  <2>6. /\ SubSeq(F, 1, s[1] - 1) \in Seq(Lines) /\ Len(SubSeq(F, 1, s[1] - 1)) = s[1] - 1
        /\ \A i \in 1..(s[1] - 1) : SubSeq(F, 1, s[1] - 1)[i] = F[i]
    <3>1. /\ SubSeq(F, 1, s[1] - 1) \in Seq(Lines)
          /\ Len(SubSeq(F, 1, s[1] - 1)) = (s[1] - 1) - 1 + 1
          /\ \A i \in 1..((s[1] - 1) - 1 + 1) : SubSeq(F, 1, s[1] - 1)[i] = F[1 + i - 1]
      <4>1. 1 \in Nat /\ s[1] - 1 \in Int /\ 1 - 1 <= s[1] - 1 /\ s[1] - 1 <= Len(F)
        BY <2>4, <2>5
      <4>. QED  BY <4>1, Slice
    <3>2. (s[1] - 1) - 1 + 1 = s[1] - 1 /\ \A i \in 1..(s[1] - 1) : 1 + i - 1 = i
      BY <2>4
    <3>. QED  BY <3>1, <3>2
  <2>7. ASSUME NEW i \in 1..(s[1] - 1)  PROVE i \in 1..Len(F) /\ F[i].kind # "peer"
    <3>1. i \in 1..Len(F) /\ i < p[1]
      BY <2>4, <2>5
    <3>2. i \notin At(F, "peer")
      BY <2>2, <2>4, <3>1
    <3>. QED  BY <3>1, <3>2, AtRange
  <2>8. Parse(F).peers[1].lead = <<>>
    <3> DEFINE lead == SubSeq(F, s[1], p[1] - 1)
    <3>1. Parse(F).peers[1].lead = Only(lead, {"note"})
      BY <2>2, <2>3 DEF PeerOf
    <3>2. /\ lead \in Seq(Lines) /\ Len(lead) = p[1] - s[1]
          /\ \A i \in 1..(p[1] - s[1]) : lead[i] = F[s[1] + i - 1]
      <4>1. PICK k \in 1..n : k = 1
        BY <2>2
      <4>2. /\ SubSeq(F, s[k], p[k] - 1) \in Seq(Lines)
            /\ Len(SubSeq(F, s[k], p[k] - 1)) = p[k] - s[k]
            /\ \A i \in 1..(p[k] - s[k]) : SubSeq(F, s[k], p[k] - 1)[i] = F[s[k] + i - 1]
        <5>1. Shape(F, n, s, p) /\ k \in 1..n
          BY <2>1
        <5>2. SubSeq(F, s[k], p[k] - 1) \in Seq(Lines)
          BY <5>1, ShapeSlices
        <5>3. Len(SubSeq(F, s[k], p[k] - 1)) = p[k] - s[k]
          BY <5>1, ShapeSlices
        <5>4. \A i \in 1..(p[k] - s[k]) : SubSeq(F, s[k], p[k] - 1)[i] = F[s[k] + i - 1]
          BY <5>1, ShapeSlices
        <5>. QED  BY <5>2, <5>3, <5>4
      <4>. QED  BY <4>1, <4>2
    <3>3. ASSUME NEW i \in 1..Len(lead)  PROVE lead[i].kind \notin {"note"}
      <4>1. p[1] - s[1] >= 1 /\ i \in 1..(p[1] - s[1])
        BY <2>4, <3>2
      <4>2. s[1] = p[1] - 1 /\ F[p[1] - 1].kind = "name"
        BY <2>2, <2>4, <4>1
      <4>3. i = 1
        BY <2>4, <4>1, <4>2, SMTT(30)
      <4>4. s[1] + i - 1 = p[1] - 1
        BY <2>4, <4>2, <4>3
      <4>. QED  BY <3>2, <4>1, <4>2, <4>4
    <3> HIDE DEF lead
    <3>. QED  BY <3>1, <3>2, <3>3, OnlyNone
  <2>9. ASSUME NEW i \in 1..Len(F), F[i].kind = "private", \A q \in At(F, "peer") : i < q
        PROVE  i \in 1..(s[1] - 1)
    <3>1. i < p[1]
      BY <2>2, <2>9
    <3>2. ~(s[1] = p[1] - 1 /\ F[p[1] - 1].kind = "name" /\ i = p[1] - 1)
      BY <2>9
    <3>. QED  BY <2>2, <2>4, <3>1, <3>2
  <2>10. Len(Parse(F).header) = s[1] - 1
    BY <2>3, <2>6
  <2>. QED  BY <2>3, <2>6, <2>7, <2>8, <2>9, <2>10
<1>. QED  BY <1>1, <1>2

-----------------------------------------------------------------------------
(* What is written. *)
LEMMA BelowKinds ==
  ASSUME NEW peer \in PeerRec
  PROVE  \A j \in 1..Len(Below(peer)) :
           Below(peer)[j].kind # "peer" /\ Below(peer)[j].kind # "other"
<1> DEFINE S == Of({"key", "psk", "ips", "name", "note"})
<1>1. /\ Of({"key"}) \subseteq S /\ Of({"psk"}) \subseteq S /\ Of({"ips"}) \subseteq S
      /\ Of(Comment) \subseteq S
  BY DEF Of, Comment
<1>2. /\ <<Line("key", peer.key)>> \in Seq(S) /\ Optional("psk", peer.psk) \in Seq(S)
      /\ <<IpsLine(peer.ips)>> \in Seq(S) /\ peer.body \in Seq(S)
  <2> HIDE DEF S
  <2>. QED  BY <1>1, BlockTypes, SeqMonotonic
<1>3. Below(peer) \in Seq(S)
  <2> HIDE DEF S
  <2>. QED  BY <1>2, ConcatProperties DEF Below
<1>4. \A j \in 1..Len(Below(peer)) : Below(peer)[j] \in S
  <2> HIDE DEF S
  <2>. QED  BY <1>3, ElementOfSeq
<1>. QED  BY <1>4 DEF Of

LEMMA AboveKinds ==
  ASSUME NEW peer \in PeerRec
  PROVE  \A j \in 1..Len(Above(peer)) : Above(peer)[j].kind \in Comment
<1>1. \A j \in 1..Len(Above(peer)) : Above(peer)[j] \in Of(Comment)
  BY BlockTypes, ElementOfSeq
<1>. QED  BY <1>1 DEF Of

BlockAt(peer, a, d) ==
  /\ Block(peer) \in Seq(Lines) /\ Len(Block(peer)) = a + d + 2
  /\ Block(peer)[1] = Empty
  /\ \A j \in 1..a : Block(peer)[1 + j] = Above(peer)[j]
  /\ Block(peer)[a + 2] = PeerHeader
  /\ \A j \in 1..d : Block(peer)[a + 2 + j] = Below(peer)[j]

LEMMA BlockLines ==
  ASSUME NEW peer \in PeerRec, NEW a \in Nat, a = Len(Above(peer)),
         NEW d \in Nat, d = Len(Below(peer))
  PROVE  BlockAt(peer, a, d)
<1>1. PICK A \in Seq(Lines) : A = Above(peer)
  BY BlockTypes
<1>2. PICK D \in Seq(Lines) : D = Below(peer)
  BY BlockTypes
<1>3. PICK one \in Seq(Lines) : one = <<Empty>> /\ Len(one) = 1 /\ one[1] = Empty
  BY BlankLine
<1>4. PICK two \in Seq(Lines) : two = <<PeerHeader>> /\ Len(two) = 1 /\ two[1] = PeerHeader
  <2>1. PICK line \in Lines : line = PeerHeader
    BY FixedLines
  <2>2. <<line>> \in Seq(Lines)
    OBVIOUS
  <2>3. Len(<<line>>) = 1 /\ <<line>>[1] = line
    OBVIOUS
  <2>. QED  BY <2>1, <2>2, <2>3
<1>5. PICK u \in Seq(Lines) : u = one \o A
  BY ConcatProperties
<1>6. Len(u) = 1 + a /\ u[1] = Empty /\ \A j \in 1..a : u[1 + j] = A[j]
  <2>1. Len(one) = 1 /\ Len(A) = a /\ 1 \in 1..1
    BY <1>1, <1>3
  <2>2. Joined(u, one, A)
    BY <1>5, Join
  <2>. QED  BY <1>3, <2>1, <2>2 DEF Joined
<1>7. PICK w \in Seq(Lines) : w = u \o two
  BY ConcatProperties
<1>8. PICK b \in Nat : b = 1 + a
  OBVIOUS
<1>9. Len(w) = b + 1 /\ w[b + 1] = PeerHeader /\ \A j \in 1..b : w[j] = u[j]
  <2>1. Len(u) = b /\ Len(two) = 1 /\ 1 \in 1..1
    BY <1>4, <1>6, <1>8
  <2>2. Joined(w, u, two)
    BY <1>7, Join
  <2>. QED  BY <1>4, <2>1, <2>2 DEF Joined
<1>10. PICK c \in Nat : c = b + 1
  OBVIOUS
<1>11. PICK x \in Seq(Lines) : x = w \o D
  BY ConcatProperties
<1>12. /\ Len(x) = c + d
       /\ \A j \in 1..c : x[j] = w[j]
       /\ \A j \in 1..d : x[c + j] = D[j]
  <2>1. Len(w) = c /\ Len(D) = d
    BY <1>2, <1>9, <1>10
  <2>2. Joined(x, w, D)
    BY <1>11, Join
  <2>. QED  BY <2>1, <2>2 DEF Joined
<1>13. Block(peer) = x
  BY <1>1, <1>2, <1>3, <1>4, <1>5, <1>7, <1>11 DEF Block
<1>14. x[1] = Empty
  <2>1. 1 \in 1..b /\ 1 \in 1..c
    BY <1>8, <1>10, SMTT(30)
  <2>. QED  BY <1>6, <1>9, <1>12, <2>1
<1>15. ASSUME NEW j \in 1..a  PROVE x[1 + j] = A[j]
  <2>1. 1 + j \in 1..b /\ 1 + j \in 1..c
    BY <1>8, <1>10
  <2>. QED  BY <1>6, <1>9, <1>12, <2>1
<1>16. x[a + 2] = PeerHeader
  <2>1. a + 2 = b + 1 /\ b + 1 \in 1..c
    BY <1>8, <1>10
  <2>. QED  BY <1>9, <1>12, <2>1
<1>17. ASSUME NEW j \in 1..d  PROVE x[a + 2 + j] = D[j]
  <2>1. a + 2 + j = c + j
    BY <1>8, <1>10
  <2>. QED  BY <1>12, <2>1
<1>18. c + d = a + d + 2
  BY <1>8, <1>10
<1>19. /\ Block(peer) \in Seq(Lines) /\ Len(Block(peer)) = a + d + 2
       /\ Block(peer)[1] = Empty /\ Block(peer)[a + 2] = PeerHeader
  BY <1>12, <1>13, <1>14, <1>16, <1>18
<1>. QED  BY <1>1, <1>2, <1>13, <1>15, <1>17, <1>19 DEF BlockAt

Blocks(P) == [k \in DOMAIN P |-> Block(P[k])]

LEMMA BlocksType ==
  ASSUME NEW P \in Seq(PeerRec), NEW n \in Nat, n = Len(P)
  PROVE  /\ Blocks(P) \in Seq(Seq(Lines)) /\ Len(Blocks(P)) = n
         /\ \A k \in 1..n : Blocks(P)[k] = Block(P[k]) /\ P[k] \in PeerRec
<1>1. \A k \in 1..n : P[k] \in PeerRec
  BY ElementOfSeq
<1>2. DOMAIN P = 1..n
  BY LenProperties
<1>3. ASSUME NEW k \in 1..n  PROVE Block(P[k]) \in Seq(Lines)
  <2>1. PICK peer \in PeerRec : peer = P[k]
    BY <1>1
  <2>2. PICK a \in Nat : a = Len(Above(peer))
    BY BlockTypes, LenProperties
  <2>3. PICK d \in Nat : d = Len(Below(peer))
    BY BlockTypes, LenProperties
  <2>4. BlockAt(peer, a, d)
    BY <2>2, <2>3, BlockLines
  <2>. QED  BY <2>1, <2>4 DEF BlockAt
<1>4. Blocks(P) = [k \in 1..n |-> Block(P[k])]
  BY <1>2 DEF Blocks
<1>. QED  BY <1>1, <1>3, <1>4

(* Header H, then the blocks of P: block k ends at line e[k], and takes    *)
(* a[k] lines above its [Peer] line and d[k] below it.                     *)
Layout(F, H, P, a, d, e) ==
  /\ F \in Seq(Lines) /\ H \in Seq(Lines) /\ P \in Seq(PeerRec)
  /\ a \in [1..Len(P) -> Nat] /\ d \in [1..Len(P) -> Nat] /\ e \in [0..Len(P) -> Nat]
  /\ e[0] = Len(H) /\ Len(F) = e[Len(P)] + 1
  /\ \A i \in 1..Len(H) : F[i] = H[i]
  /\ \A k \in 0..Len(P) : Len(H) <= e[k] /\ e[k] <= e[Len(P)] /\ F[e[k] + 1] = Empty
  /\ \A k \in 1..Len(P) :
       /\ a[k] = Len(Above(P[k])) /\ d[k] = Len(Below(P[k]))
       /\ e[k] = e[k-1] + a[k] + d[k] + 2
       /\ \A j \in 1..a[k] : F[e[k-1] + 1 + j] = Above(P[k])[j]
       /\ F[e[k-1] + a[k] + 2] = PeerHeader
       /\ \A j \in 1..d[k] : F[e[k-1] + a[k] + 2 + j] = Below(P[k])[j]
  /\ \A i \in 1..Len(F) : \/ i <= Len(H) \/ i = Len(F)
                          \/ \E k \in 1..Len(P) : e[k-1] < i /\ i <= e[k]

LEMMA LayoutExists ==
  ASSUME NEW H \in Seq(Lines), NEW P \in Seq(PeerRec), NEW F,
         F = H \o FlattenSeq(Blocks(P)) \o <<Empty>>
  PROVE  \E a, d, e : Layout(F, H, P, a, d, e)
<1>1. PICK n \in Nat : n = Len(P)
  BY LenProperties
<1>2. PICK bb \in Seq(Seq(Lines)) : bb = Blocks(P)
  BY <1>1, BlocksType
<1>3. Len(bb) = n /\ \A k \in 1..n : bb[k] = Block(P[k]) /\ P[k] \in PeerRec
  BY <1>1, <1>2, BlocksType
<1>4. PICK g : Segments(bb, g)
  BY FlattenSegments
<1>5. PICK B \in Seq(Lines) : B = FlattenSeq(bb)
  BY FlattenType
<1>6. /\ g \in [0..n -> Nat] /\ g[0] = 0 /\ g[n] = Len(B)
      /\ \A k \in 1..n :
           /\ g[k] = g[k-1] + Len(bb[k]) /\ g[k] <= g[n]
           /\ \A i \in 1..Len(bb[k]) : B[g[k-1] + i] = bb[k][i]
      /\ \A i \in 1..g[n] : \E k \in 1..n : g[k-1] < i /\ i <= g[k]
  BY <1>3, <1>4, <1>5 DEF Segments
<1>7. PICK one \in Seq(Lines) : one = <<Empty>> /\ Len(one) = 1 /\ one[1] = Empty
  BY BlankLine
<1>8. PICK HB \in Seq(Lines) : HB = H \o B
  BY ConcatProperties
<1>9. F = HB \o one
  BY <1>2, <1>5, <1>7, <1>8
<1>10. F \in Seq(Lines)
  BY <1>9, ConcatProperties
<1>11. Joined(HB, H, B)
  BY <1>8, Join
<1>12. Joined(F, HB, one)
  BY <1>9, Join
<1>13. PICK h \in Nat : h = Len(H)
  BY LenProperties
<1>14. PICK b \in Nat : b = Len(B)
  BY LenProperties
<1>15. /\ Len(HB) = h + b
       /\ \A i \in 1..h : HB[i] = H[i]
       /\ \A i \in 1..b : HB[h + i] = B[i]
  BY <1>11, <1>13, <1>14 DEF Joined
<1>16. PICK hb \in Nat : hb = h + b
  OBVIOUS
<1>17. /\ Len(F) = hb + 1
       /\ \A i \in 1..hb : F[i] = HB[i]
       /\ F[hb + 1] = Empty
  <2>1. 1 \in 1..1
    OBVIOUS
  <2>. QED  BY <1>7, <1>12, <1>15, <1>16, <2>1 DEF Joined
<1>18. ASSUME NEW i \in 1..h  PROVE F[i] = H[i]
  <2>1. i \in 1..hb
    BY <1>16
  <2>. QED  BY <1>15, <1>17, <2>1
<1>19. ASSUME NEW i \in 1..b  PROVE F[h + i] = B[i]
  <2>1. h + i \in 1..hb
    BY <1>16
  <2>. QED  BY <1>15, <1>17, <2>1
<1> DEFINE a == [k \in 1..n |-> Len(Above(P[k]))]
           d == [k \in 1..n |-> Len(Below(P[k]))]
           e == [k \in 0..n |-> h + g[k]]
<1>20. ASSUME NEW k \in 1..n
       PROVE  /\ a[k] = Len(Above(P[k])) /\ d[k] = Len(Below(P[k]))
              /\ a[k] \in Nat /\ d[k] \in Nat
  BY <1>3, BlockTypes, LenProperties
<1>21. a \in [1..n -> Nat] /\ d \in [1..n -> Nat]
  BY <1>20
<1>22. /\ e \in [0..n -> Nat] /\ e[0] = h /\ e[n] = hb
       /\ \A k \in 0..n : e[k] = h + g[k] /\ g[k] \in Nat
  <2>1. 0 \in 0..n /\ n \in 0..n
    OBVIOUS
  <2>2. \A k \in 0..n : g[k] \in Nat /\ h + g[k] \in Nat
    BY <1>6
  <2>3. g[0] = 0 /\ g[n] = b /\ h + 0 = h
    BY <1>6, <1>14
  <2>. QED  BY <1>16, <2>1, <2>2, <2>3
<1> HIDE DEF a, d, e
<1>23. ASSUME NEW k \in 1..n
       PROVE  /\ Len(bb[k]) = a[k] + d[k] + 2
              /\ bb[k][1] = Empty
              /\ \A j \in 1..a[k] : bb[k][1 + j] = Above(P[k])[j]
              /\ bb[k][a[k] + 2] = PeerHeader
              /\ \A j \in 1..d[k] : bb[k][a[k] + 2 + j] = Below(P[k])[j]
  <2>1. PICK peer \in PeerRec : peer = P[k]
    BY <1>3
  <2>2. PICK ak \in Nat : ak = a[k] /\ ak = Len(Above(peer))
    BY <1>20, <2>1
  <2>3. PICK dk \in Nat : dk = d[k] /\ dk = Len(Below(peer))
    BY <1>20, <2>1
  <2>4. /\ Len(Block(peer)) = ak + dk + 2
        /\ Block(peer)[1] = Empty
        /\ \A j \in 1..ak : Block(peer)[1 + j] = Above(peer)[j]
        /\ Block(peer)[ak + 2] = PeerHeader
        /\ \A j \in 1..dk : Block(peer)[ak + 2 + j] = Below(peer)[j]
    <3>1. BlockAt(peer, ak, dk)
      BY <2>2, <2>3, BlockLines
    <3>. QED  BY <3>1 DEF BlockAt
  <2>. QED  BY <1>3, <2>1, <2>2, <2>3, <2>4
<1>24. ASSUME NEW k \in 1..n, NEW i \in 1..Len(bb[k])
       PROVE  F[e[k-1] + i] = bb[k][i]
  <2>1. k - 1 \in 0..n /\ k \in 0..n
    OBVIOUS
  <2>2. PICK gk \in Nat : gk = g[k-1] /\ e[k-1] = h + gk
    BY <1>22, <2>1
  <2>3. PICK l \in Nat : l = Len(bb[k])
    BY <1>3, <1>20, <1>23
  <2>4. g[k] = gk + l /\ gk + l <= b
    BY <1>6, <1>14, <2>2, <2>3
  <2>5. i \in 1..l
    BY <2>3
  <2>6. gk + i \in 1..b
    BY <2>4, <2>5
  <2>7. F[h + (gk + i)] = B[gk + i]
    BY <1>19, <2>6
  <2>8. e[k-1] + i = h + (gk + i)
    BY <2>2, <2>5
  <2>. QED  BY <1>6, <2>2, <2>7, <2>8
<1>25. ASSUME NEW k \in 1..n
       PROVE  /\ e[k] = e[k-1] + a[k] + d[k] + 2
              /\ F[e[k-1] + 1] = Empty
              /\ \A j \in 1..a[k] : F[e[k-1] + 1 + j] = Above(P[k])[j]
              /\ F[e[k-1] + a[k] + 2] = PeerHeader
              /\ \A j \in 1..d[k] : F[e[k-1] + a[k] + 2 + j] = Below(P[k])[j]
  <2>1. k - 1 \in 0..n /\ k \in 0..n
    OBVIOUS
  <2>2. PICK ak \in Nat : ak = a[k]
    BY <1>20
  <2>3. PICK dk \in Nat : dk = d[k]
    BY <1>20
  <2>4. PICK ek \in Nat : ek = e[k-1]
    BY <1>22, <2>1
  <2>5. Len(bb[k]) = ak + dk + 2
    BY <1>23, <2>2, <2>3
  <2>6. e[k] = ek + ak + dk + 2
    <3>1. e[k] = h + g[k] /\ ek = h + g[k-1] /\ g[k] = g[k-1] + (ak + dk + 2)
      BY <1>6, <1>22, <2>1, <2>4, <2>5
    <3>2. PICK gk \in Nat : gk = g[k-1]
      BY <1>22, <2>1
    <3>3. e[k] = h + (gk + (ak + dk + 2)) /\ ek = h + gk
      BY <3>1, <3>2
    <3>4. h + (gk + (ak + dk + 2)) = (h + gk) + ak + dk + 2
      OBVIOUS
    <3>. QED  BY <3>3, <3>4
  <2>7. \A i \in 1..(ak + dk + 2) : F[ek + i] = bb[k][i]
    BY <1>24, <2>4, <2>5
  <2>8. F[ek + 1] = Empty
    <3>1. 1 \in 1..(ak + dk + 2)
      OBVIOUS
    <3>. QED  BY <1>23, <2>7, <3>1
  <2>9. ASSUME NEW j \in 1..ak  PROVE F[ek + 1 + j] = Above(P[k])[j]
    <3>1. 1 + j \in 1..(ak + dk + 2) /\ ek + (1 + j) = ek + 1 + j
      OBVIOUS
    <3>2. F[ek + (1 + j)] = bb[k][1 + j]
      BY <2>7, <3>1
    <3>3. bb[k][1 + j] = Above(P[k])[j]
      BY <1>23, <2>2
    <3>. QED  BY <3>1, <3>2, <3>3
  <2>10. F[ek + ak + 2] = PeerHeader
    <3>1. ak + 2 \in 1..(ak + dk + 2) /\ ek + (ak + 2) = ek + ak + 2
      OBVIOUS
    <3>2. F[ek + (ak + 2)] = bb[k][ak + 2]
      BY <2>7, <3>1
    <3>3. bb[k][ak + 2] = PeerHeader
      BY <1>23, <2>2
    <3>. QED  BY <3>1, <3>2, <3>3
  <2>11. ASSUME NEW j \in 1..dk  PROVE F[ek + ak + 2 + j] = Below(P[k])[j]
    <3>1. ak + 2 + j \in 1..(ak + dk + 2) /\ ek + (ak + 2 + j) = ek + ak + 2 + j
      OBVIOUS
    <3>2. F[ek + (ak + 2 + j)] = bb[k][ak + 2 + j]
      BY <2>7, <3>1
    <3>3. bb[k][ak + 2 + j] = Below(P[k])[j]
      BY <1>23, <2>2, <2>3
    <3>. QED  BY <3>1, <3>2, <3>3
  <2>. QED  BY <2>2, <2>3, <2>4, <2>6, <2>8, <2>9, <2>10, <2>11
<1>29. ASSUME NEW k \in 0..n  PROVE h <= e[k] /\ e[k] <= e[n]
  <2>1. PICK gk \in Nat : gk = g[k] /\ e[k] = h + gk
    BY <1>22
  <2>2. gk <= b
    <3>1. k = 0 \/ k \in 1..n
      OBVIOUS
    <3>. QED  BY <1>6, <1>14, <2>1, <3>1
  <2>3. e[n] = h + b /\ h \in Nat /\ b \in Nat
    BY <1>16, <1>22
  <2>4. PICK x \in Nat : x = e[k]
    BY <1>22
  <2>5. PICK y \in Nat : y = e[n]
    BY <1>22
  <2>6. x = h + gk /\ y = h + b /\ h \in Nat /\ b \in Nat
    BY <2>1, <2>3, <2>4, <2>5
  <2>7. h <= x /\ x <= y
    BY ONLY <2>2, <2>6
  <2>. QED  BY <2>4, <2>5, <2>7
<1>26. ASSUME NEW k \in 0..n  PROVE F[e[k] + 1] = Empty
  <2>1. CASE k = n
    BY <1>17, <1>22, <2>1
  <2>2. CASE k # n
    <3>1. k + 1 \in 1..n /\ (k + 1) - 1 = k
      BY <2>2
    <3>2. F[e[(k+1)-1] + 1] = Empty
      BY <1>25, <3>1
    <3>. QED  BY <3>1, <3>2
  <2>. QED  BY <2>1, <2>2
<1>27. ASSUME NEW i \in 1..(hb + 1), ~(i <= h), i # hb + 1
       PROVE  \E k \in 1..n : e[k-1] < i /\ i <= e[k]
  <2>1. i - h \in 1..b
    BY <1>16, <1>27
  <2>2. PICK k \in 1..n : g[k-1] < i - h /\ i - h <= g[k]
    BY <1>6, <1>14, <2>1
  <2>3. k - 1 \in 0..n /\ k \in 0..n
    OBVIOUS
  <2>4. e[k-1] < i /\ i <= e[k]
    <3>1. /\ e[k-1] = h + g[k-1] /\ g[k-1] \in Nat
          /\ e[k] = h + g[k] /\ g[k] \in Nat
      BY <1>22, <2>3
    <3>2. h \in Nat /\ i \in Nat
      BY <1>16, <1>27
    <3>3. PICK x \in Nat : x = g[k-1]
      BY <3>1
    <3>4. PICK y \in Nat : y = g[k]
      BY <3>1
    <3>5. x < i - h /\ i - h <= y
      BY <2>2, <3>3, <3>4
    <3>6. h + x < i /\ i <= h + y
      BY ONLY <3>2, <3>5
    <3>. QED  BY <3>1, <3>3, <3>4, <3>6
  <2>. QED  BY <2>4
<1>28. Layout(F, H, P, a, d, e)
  <2>1. F \in Seq(Lines) /\ H \in Seq(Lines) /\ P \in Seq(PeerRec)
    BY <1>10
  <2>2. e[0] = Len(H) /\ Len(F) = e[n] + 1
    BY <1>13, <1>17, <1>22
  <2>3. \A i \in 1..Len(F) : \/ i <= Len(H) \/ i = Len(F)
                             \/ \E k \in 1..n : e[k-1] < i /\ i <= e[k]
    BY <1>13, <1>17, <1>27
  <2>. QED  BY <1>1, <1>13, <1>18, <1>20, <1>21, <1>22, <1>25, <1>26, <1>29, <2>1, <2>2, <2>3 DEF Layout
<1>. QED  BY <1>28

Heading(peer, l, o) ==
  /\ l \in Nat /\ l = Len(peer.lead) /\ o \in {0, 1} /\ o = Len(Optional("name", peer.name))
  /\ Len(Above(peer)) = l + o
  /\ \A j \in 1..l : Above(peer)[j] = peer.lead[j] /\ Above(peer)[j].kind = "note"
  /\ \A j \in 1..o : Above(peer)[l + j] = Optional("name", peer.name)[j]
  /\ o = 1 => Above(peer)[l + 1].kind = "name"

LEMMA AboveParts ==
  ASSUME NEW peer \in PeerRec
  PROVE  Heading(peer, Len(peer.lead), Len(Optional("name", peer.name)))
<1>0. PICK l \in Nat : l = Len(peer.lead)
  BY BlockTypes, LenProperties
<1>1. /\ peer.lead \in Seq(Of({"note"})) /\ peer.name \in Text /\ "name" \in Kinds
      /\ peer.lead \in Seq(Lines) /\ Optional("name", peer.name) \in Seq(Lines)
  BY BlockTypes DEF PeerRec, Kinds
<1>2. Joined(Above(peer), peer.lead, Optional("name", peer.name))
  <2>1. Above(peer) = peer.lead \o Optional("name", peer.name)
    BY DEF Above
  <2>. QED  BY <1>1, <2>1, Join
<1>3. \A j \in 1..l : peer.lead[j].kind = "note"
  <2>1. \A j \in 1..l : peer.lead[j] \in Of({"note"})
    BY <1>0, <1>1, ElementOfSeq
  <2>. QED  BY <2>1 DEF Of
<1>4. /\ Len(Optional("name", peer.name)) = 0 \/ Len(Optional("name", peer.name)) = 1
      /\ Len(Optional("name", peer.name)) = 1 => Optional("name", peer.name)[1].kind = "name"
  <2>1. CASE peer.name = ""
    <3>1. Optional("name", peer.name) = <<>>
      BY <2>1, Zenon DEF Optional
    <3>2. Len(<<>>) = 0
      BY EmptySeq
    <3>. QED  BY <3>1, <3>2
  <2>2. CASE peer.name # ""
    <3>1. PICK line : line = Line("name", peer.name) /\ line.kind = "name"
      BY <1>1, LineTypes
    <3>2. Optional("name", peer.name) = <<line>>
      BY <2>2, <3>1, Zenon DEF Optional
    <3>3. Len(<<line>>) = 1 /\ <<line>>[1] = line
      OBVIOUS
    <3>. QED  BY <3>1, <3>2, <3>3
  <2>. QED  BY <2>1, <2>2, Zenon
<1>5. PICK o \in Seq(Lines) : o = Optional("name", peer.name)
  BY <1>1
<1>6. /\ Len(Above(peer)) = l + Len(o)
      /\ \A j \in 1..l : Above(peer)[j] = peer.lead[j]
      /\ \A j \in 1..Len(o) : Above(peer)[l + j] = o[j]
  BY <1>0, <1>2, <1>5 DEF Joined
<1>7. Len(o) = 1 => Above(peer)[l + 1].kind = "name"
  <2>1. Len(o) = 1 => 1 \in 1..Len(o)
    OBVIOUS
  <2>. QED  BY <1>4, <1>5, <1>6, <2>1
<1>. QED  BY <1>0, <1>3, <1>4, <1>5, <1>6, <1>7 DEF Heading

(* Block k of a layout, and the lines around its [Peer] line. *)
BlockOf(F, H, P, a, d, e, k, ek, ak, dk) ==
  /\ ek \in Nat /\ ak \in Nat /\ dk \in Nat
  /\ ek = e[k-1] /\ ak = a[k] /\ dk = d[k] /\ e[k] = ek + ak + dk + 2
  /\ e[k] < Len(F) /\ Len(H) <= ek
  /\ P[k] \in PeerRec /\ ak = Len(Above(P[k])) /\ dk = Len(Below(P[k]))
  /\ F[ek + 1] = Empty /\ F[ek + ak + 2] = PeerHeader
  /\ \A j \in 1..ak : F[ek + 1 + j] = Above(P[k])[j]
  /\ \A j \in 1..dk : F[ek + ak + 2 + j] = Below(P[k])[j]
  /\ F[ek + ak + 2 + dk + 1] = Empty

LEMMA LayoutBlock ==
  ASSUME NEW F, NEW H, NEW P, NEW a, NEW d, NEW e, Layout(F, H, P, a, d, e),
         NEW k \in 1..Len(P)
  PROVE  \E ek, ak, dk : BlockOf(F, H, P, a, d, e, k, ek, ak, dk)
<1>0. PICK n \in Nat : n = Len(P)
  <2>1. P \in Seq(PeerRec)
    BY DEF Layout
  <2>. QED  BY <2>1, LenProperties
<1>1. k - 1 \in 0..n /\ k \in 0..n /\ n \in 0..n
  BY <1>0
<1>2. PICK ek \in Nat : ek = e[k-1]
  BY <1>0, <1>1 DEF Layout
<1>3. PICK ak \in Nat : ak = a[k]
  BY <1>0 DEF Layout
<1>4. PICK dk \in Nat : dk = d[k]
  BY <1>0 DEF Layout
<1>5. e[k] = ek + ak + dk + 2
  BY <1>2, <1>3, <1>4 DEF Layout
<1>6. e[k] < Len(F)
  <2>1. e[k] \in Nat /\ e[n] \in Nat /\ e[k] <= e[n] /\ Len(F) = e[n] + 1
    BY <1>0, <1>1 DEF Layout
  <2>. QED  BY <2>1
<1>7. Len(H) <= ek /\ F[ek + 1] = Empty
  BY <1>0, <1>1, <1>2 DEF Layout
<1>8. P[k] \in PeerRec
  <2>1. P \in Seq(PeerRec)
    BY DEF Layout
  <2>. QED  BY <2>1, ElementOfSeq
<1>9. /\ ak = Len(Above(P[k])) /\ dk = Len(Below(P[k]))
      /\ F[ek + ak + 2] = PeerHeader
      /\ \A j \in 1..ak : F[ek + 1 + j] = Above(P[k])[j]
      /\ \A j \in 1..dk : F[ek + ak + 2 + j] = Below(P[k])[j]
  BY <1>2, <1>3, <1>4 DEF Layout
<1>10. F[ek + ak + 2 + dk + 1] = Empty
  <2>1. F[e[k] + 1] = Empty
    BY <1>0, <1>1 DEF Layout
  <2>2. e[k] + 1 = ek + ak + 2 + dk + 1
    BY <1>5
  <2>. QED  BY <2>1, <2>2
<1>11. BlockOf(F, H, P, a, d, e, k, ek, ak, dk)
  BY <1>2, <1>3, <1>4, <1>5, <1>6, <1>7, <1>8, <1>9, <1>10 DEF BlockOf
<1>. QED  BY <1>11

(* Where the blocks of a layout begin, and their [Peer] lines.              *)
Heads(P, a, e) == [k \in 1..Len(P) |-> e[k-1] + a[k] + 2]
Starts(P, e) ==
  [k \in 1..(Len(P) + 1) |-> e[k-1] + 2 + IF k = 1 THEN Len(P[1].lead) ELSE 0]

LEMMA LayoutPeers ==
  ASSUME NEW F, NEW H, NEW P, NEW a, NEW d, NEW e, Layout(F, H, P, a, d, e),
         \A i \in 1..Len(H) : H[i].kind # "peer"
  PROVE  At(F, "peer") = {Heads(P, a, e)[k] : k \in 1..Len(P)}
<1>1. F \in Seq(Lines) /\ H \in Seq(Lines) /\ P \in Seq(PeerRec)
  BY DEF Layout
<1>2. PICK n \in Nat : n = Len(P)
  BY <1>1, LenProperties
<1>3. PICK h \in Nat : h = Len(H)
  BY <1>1, LenProperties
<1>4. PICK m \in Nat : m = Len(F)
  BY <1>1, LenProperties
<1>5. ASSUME NEW k \in 1..n  PROVE Heads(P, a, e)[k] \in At(F, "peer")
  <2>0. PICK ek, ak, dk : BlockOf(F, H, P, a, d, e, k, ek, ak, dk)
    BY <1>2, LayoutBlock
  <2>1. /\ ek \in Nat /\ ak \in Nat /\ dk \in Nat
        /\ ek = e[k-1] /\ ak = a[k] /\ ek + ak + dk + 2 < m
        /\ F[ek + ak + 2] = PeerHeader
    BY <1>4, <2>0 DEF BlockOf
  <2>2. Heads(P, a, e)[k] = ek + ak + 2
    BY <1>2, <2>1 DEF Heads
  <2>3. ek + ak + 2 \in 1..m
    <3>1. ek \in Nat /\ ak \in Nat /\ dk \in Nat /\ ek + ak + dk + 2 < m
      BY <2>1
    <3>. QED  BY ONLY <3>1, m \in Nat
  <2>. QED  BY <1>1, <1>4, <2>1, <2>2, <2>3, AtRange, FixedLines
<1>6. ASSUME NEW i \in At(F, "peer")  PROVE \E k \in 1..n : i = Heads(P, a, e)[k]
  <2>1. i \in 1..m /\ F[i].kind = "peer"
    BY <1>1, <1>4, AtRange
  <2>2. ~(i <= h)
    <3>1. ASSUME i <= h  PROVE FALSE
      <4>1. i \in 1..h
        BY <2>1, <3>1
      <4>2. F[i] = H[i] /\ H[i].kind # "peer"
        BY <1>3, <4>1 DEF Layout
      <4>. QED  BY <2>1, <4>2
    <3>. QED  BY <3>1
  <2>3. i # m
    <3>1. F[m] = Empty
      <4>1. n \in 0..n /\ F[e[n] + 1] = Empty /\ m = e[n] + 1
        BY <1>2, <1>4 DEF Layout
      <4>. QED  BY <4>1
    <3>. QED  BY <2>1, <3>1, FixedLines
  <2>4. PICK k \in 1..n : e[k-1] < i /\ i <= e[k]
    BY <1>2, <1>3, <1>4, <2>1, <2>2, <2>3 DEF Layout
  <2>11. PICK ek, ak, dk : BlockOf(F, H, P, a, d, e, k, ek, ak, dk)
    BY <1>2, LayoutBlock
  <2>5. /\ ek \in Nat /\ ak \in Nat /\ dk \in Nat
        /\ ek = e[k-1] /\ ak = a[k] /\ e[k] = ek + ak + dk + 2
        /\ P[k] \in PeerRec /\ ak = Len(Above(P[k])) /\ dk = Len(Below(P[k]))
        /\ F[ek + 1] = Empty
        /\ \A j \in 1..ak : F[ek + 1 + j] = Above(P[k])[j]
        /\ \A j \in 1..dk : F[ek + ak + 2 + j] = Below(P[k])[j]
    BY <2>11 DEF BlockOf
  <2>6. i # ek + 1
    BY <2>1, <2>5, FixedLines
  <2>7. ASSUME i < ek + ak + 2  PROVE FALSE
    <3>0. i \in Nat /\ ek < i /\ i # ek + 1 /\ ek \in Nat /\ ak \in Nat
      BY <2>1, <2>4, <2>5, <2>6
    <3>4. PICK j : j = i - ek - 1
      OBVIOUS
    <3>1. j \in 1..ak /\ ek + 1 + j = i
      BY <3>0, <3>4, <2>7
    <3>2. F[i] = Above(P[k])[j]
      BY <2>5, <3>1
    <3>3. Above(P[k])[j].kind \in Comment
      BY <2>5, <3>1, AboveKinds
    <3>. QED  BY <2>1, <3>2, <3>3 DEF Comment
  <2>8. ASSUME i > ek + ak + 2  PROVE FALSE
    <3>0. i \in Nat /\ i <= ek + ak + dk + 2 /\ ek \in Nat /\ ak \in Nat /\ dk \in Nat
      BY <2>1, <2>4, <2>5
    <3>4. PICK j : j = i - ek - ak - 2
      OBVIOUS
    <3>1. j \in 1..dk /\ ek + ak + 2 + j = i
      BY <3>0, <3>4, <2>8
    <3>2. F[i] = Below(P[k])[j]
      BY <2>5, <3>1
    <3>3. Below(P[k])[j].kind # "peer"
      BY <2>5, <3>1, BelowKinds
    <3>. QED  BY <2>1, <3>2, <3>3
  <2>9. i = ek + ak + 2
    <3>1. i \in Nat /\ ek + ak + 2 \in Nat
      BY <2>1, <2>5
    <3>. QED  BY <2>7, <2>8, <3>1
  <2>10. Heads(P, a, e)[k] = ek + ak + 2
    BY <1>2, <2>5 DEF Heads
  <2>. QED  BY <2>9, <2>10
<1>. QED  BY <1>2, <1>5, <1>6

LEMMA LayoutFirst ==
  ASSUME NEW F \in Seq(Lines), NEW H, NEW P, NEW a, NEW d, NEW e, Layout(F, H, P, a, d, e),
         NEW first \in At(F, "peer"), \A q \in At(F, "peer") : first <= q,
         1 \in 1..Len(P), first = e[0] + a[1] + 2
  PROVE  HeaderEnd(F) = e[0] + 2 + Len(P[1].lead)
<1>1. PICK one : one = 1
  OBVIOUS
<1>2. PICK ek, ak, dk : BlockOf(F, H, P, a, d, e, one, ek, ak, dk)
  BY <1>1, LayoutBlock
<1>3. PICK peer \in PeerRec : peer = P[1]
  BY <1>1, <1>2 DEF BlockOf
<1>4. /\ ek \in Nat /\ ak \in Nat /\ ek = e[0] /\ ak = a[1] /\ ak = Len(Above(peer))
      /\ F[ek + 1] = Empty /\ \A j \in 1..ak : F[ek + 1 + j] = Above(peer)[j]
  <2>1. one - 1 = 0
    BY <1>1
  <2>. QED  BY <1>1, <1>2, <1>3, <2>1 DEF BlockOf
<1>5. PICK l \in Nat : l = Len(peer.lead)
  BY BlockTypes, LenProperties
<1>6. PICK o : o = Len(Optional("name", peer.name))
  OBVIOUS
<1>7. /\ ak = l + o /\ o \in {0, 1}
      /\ \A j \in 1..l : Above(peer)[j].kind = "note"
      /\ o = 1 => Above(peer)[l + 1].kind = "name"
  <2>1. Heading(peer, l, o)
    BY <1>5, <1>6, AboveParts
  <2>. QED  BY <1>4, <2>1 DEF Heading
<1>8. first = ek + ak + 2 /\ first > 1
  BY <1>4, SMTT(30)
<1>9. HeaderEnd(F) = IF first > 1 /\ F[first - 1].kind = "name" THEN first - 1 ELSE first
  BY HeaderEndIs
<1>10. first - 1 = ek + 1 + ak
  BY <1>4, <1>8
<1>11. CASE o = 1
  <2>1. ak = l + 1 /\ ak \in 1..ak
    BY <1>4, <1>7, <1>11
  <2>2. F[first - 1].kind = "name"
    BY <1>4, <1>7, <1>10, <1>11, <2>1
  <2>3. HeaderEnd(F) = first - 1
    BY <1>8, <1>9, <2>2
  <2>4. first - 1 = ek + 2 + l
    <3>1. ek \in Nat /\ first - 1 = ek + 1 + ak /\ ak = l + 1
      BY <1>4, <1>10, <2>1
    <3>. QED  BY <3>1
  <2>. QED  BY <1>3, <1>4, <1>5, <2>3, <2>4
<1>12. CASE o = 0
  <2>1. ak = l
    BY <1>4, <1>7, <1>12
  <2>2. F[first - 1].kind # "name"
    <3>1. CASE l = 0
      BY <1>4, <1>10, <2>1, <3>1, FixedLines
    <3>2. CASE l # 0
      <4>1. l \in 1..l /\ l \in 1..ak
        BY <2>1, <3>2
      <4>2. F[ek + 1 + l] = Above(peer)[l] /\ Above(peer)[l].kind = "note"
        BY <1>4, <1>7, <4>1
      <4>. QED  BY <1>10, <2>1, <4>2
    <3>. QED  BY <3>1, <3>2
  <2>3. HeaderEnd(F) = first
    BY <1>9, <2>2
  <2>4. first = ek + 2 + l
    BY <1>4, <1>8, <2>1
  <2>. QED  BY <1>3, <1>4, <1>5, <2>3, <2>4
<1>. QED  BY <1>7, <1>11, <1>12

LEMMA LayoutShape ==
  ASSUME NEW F, NEW H, NEW P, NEW a, NEW d, NEW e, Layout(F, H, P, a, d, e),
         \A i \in 1..Len(H) : H[i].kind # "peer", P # <<>>
  PROVE  Shape(F, Len(P), Starts(P, e), Heads(P, a, e))
<1>1. F \in Seq(Lines) /\ H \in Seq(Lines) /\ P \in Seq(PeerRec)
  BY DEF Layout
<1>2. PICK n \in Nat : n = Len(P) /\ 1 <= n
  <2>1. Len(P) \in Nat /\ Len(P) # 0
    BY <1>1, EmptySeq, LenProperties
  <2>. QED  BY <2>1
<1> DEFINE s == Starts(P, e)
           p == Heads(P, a, e)
<1>3. PICK l \in Nat : l = Len(P[1].lead)
  <2>1. 1 \in 1..n
    BY <1>2
  <2>2. P[1] \in PeerRec
    BY <1>1, <1>2, <2>1, ElementOfSeq
  <2>. QED  BY <2>2, BlockTypes, LenProperties
<1>4. /\ s = [k \in 1..(n+1) |-> e[k-1] + 2 + IF k = 1 THEN l ELSE 0]
      /\ p = [k \in 1..n |-> e[k-1] + a[k] + 2]
  BY <1>2, <1>3 DEF Starts, Heads
<1> HIDE DEF s, p
<1>5. \A k \in 0..n : e[k] \in Nat
  BY <1>2 DEF Layout
<1>6. s \in [1..(n+1) -> Nat]
  <2>1. ASSUME NEW k \in 1..(n+1)  PROVE e[k-1] + 2 + (IF k = 1 THEN l ELSE 0) \in Nat
    <3>1. k - 1 \in 0..n
      OBVIOUS
    <3>2. e[k-1] \in Nat
      BY <1>5, <3>1
    <3>. QED  BY <3>2
  <2>. QED  BY <1>4, <2>1
<1>7. /\ s[1] = e[0] + 2 + l
      /\ \A k \in 2..(n+1) : s[k] = e[k-1] + 2
  <2>1. 1 \in 1..(n+1) /\ 1 - 1 = 0
    BY <1>2
  <2>2. s[1] = e[0] + 2 + l
    BY <1>4, <2>1
  <2>3. ASSUME NEW k \in 2..(n+1)  PROVE s[k] = e[k-1] + 2
    <3>1. k \in 1..(n+1) /\ k # 1 /\ k - 1 \in 0..n
      BY <1>2
    <3>2. e[k-1] \in Nat
      BY <1>5, <3>1
    <3>. QED  BY <1>4, <3>1, <3>2
  <2>. QED  BY <2>2, <2>3
<1>8. ASSUME NEW k \in 1..n
      PROVE  /\ p[k] \in Nat /\ s[k] <= p[k] /\ p[k] < s[k+1]
             /\ k >= 2 => p[k] = e[k-1] + a[k] + 2 /\ s[k] = e[k-1] + 2
             /\ p[k] <= e[k]
  <2>1. PICK ek, ak, dk : BlockOf(F, H, P, a, d, e, k, ek, ak, dk)
    BY <1>2, LayoutBlock
  <2>2. /\ ek \in Nat /\ ak \in Nat /\ dk \in Nat
        /\ ek = e[k-1] /\ ak = a[k] /\ e[k] = ek + ak + dk + 2
        /\ ak = Len(Above(P[k])) /\ P[k] \in PeerRec
    BY <2>1 DEF BlockOf
  <2>3. p[k] = ek + ak + 2
    BY <1>4, <2>2
  <2>4. s[k+1] = ek + ak + dk + 2 + 2
    <3>1. k + 1 \in 2..(n+1) /\ (k + 1) - 1 = k
      OBVIOUS
    <3>. QED  BY <1>7, <2>2, <3>1
  <2>5. s[k] <= p[k]
    <3>1. CASE k = 1
      <4>1. PICK peer \in PeerRec : peer = P[1]
        BY <2>2, <3>1
      <4>2. PICK o : o = Len(Optional("name", peer.name))
        OBVIOUS
      <4>3. ak = l + o /\ (o = 0 \/ o = 1)
        <5>1. Heading(peer, l, o)
          BY <1>3, <4>1, <4>2, AboveParts
        <5>. QED  BY <2>2, <3>1, <4>1, <5>1 DEF Heading
      <4>4. s[k] = ek + 2 + l
        BY <1>7, <2>2, <3>1
      <4>5. l \in Nat /\ ek \in Nat /\ ak \in Nat
        BY <1>3, <2>2
      <4>. QED  BY ONLY <2>3, <4>3, <4>4, <4>5
    <3>2. CASE k # 1
      <4>1. k \in 2..(n+1)
        BY <3>2
      <4>2. s[k] = ek + 2
        BY <1>7, <2>2, <4>1
      <4>3. ek \in Nat /\ ak \in Nat
        BY <2>2
      <4>. QED  BY ONLY <2>3, <4>2, <4>3
    <3>. QED  BY <3>1, <3>2
  <2>6. k >= 2 => s[k] = ek + 2
    <3>1. k >= 2 => k \in 2..(n+1)
      OBVIOUS
    <3>. QED  BY <1>7, <2>2, <3>1
  <2>7. ek + ak + 2 \in Nat /\ ek + ak + 2 < ek + ak + dk + 2 + 2 /\ ek + ak + 2 <= ek + ak + dk + 2
    <3>1. ek \in Nat /\ ak \in Nat /\ dk \in Nat
      BY <2>2
    <3>. QED  BY ONLY <3>1
  <2>. QED  BY <2>2, <2>3, <2>4, <2>5, <2>6, <2>7
<1>9. p \in [1..n -> Nat]
  BY <1>4, <1>8
<1>10. At(F, "peer") = {p[k] : k \in 1..n}
  BY <1>2, LayoutPeers DEF p
<1>11. \A j, k \in 1..n : j < k => p[j] < p[k]
  <2>1. ASSUME NEW k \in 1..(n-1)  PROVE p[k] < p[k+1]
    <3>1. k \in 1..n /\ k + 1 \in 1..n /\ k + 1 \in 2..(n+1) /\ (k + 1) - 1 = k /\ k \in 0..n
      OBVIOUS
    <3>2. p[k] <= e[k] /\ p[k] \in Nat /\ p[k+1] \in Nat /\ e[k] \in Nat
      BY <1>5, <1>8, <3>1
    <3>3. s[k+1] = e[k] + 2 /\ s[k+1] <= p[k+1]
      BY <1>7, <1>8, <3>1
    <3>. QED  BY <3>2, <3>3
  <2>2. p \in [1..n -> Int]
    BY <1>9
  <2>. QED  BY <2>1, <2>2, Increasing
<1>12. s[1] = HeaderEnd(F)
  <2>1. 1 \in 1..n
    BY <1>2
  <2>2. p[1] \in At(F, "peer")
    BY <1>10, <2>1
  <2>3. ASSUME NEW q \in At(F, "peer")  PROVE p[1] <= q
    <3>1. PICK k \in 1..n : q = p[k]
      BY <1>10
    <3>2. k = 1 \/ 1 < k
      OBVIOUS
    <3>. QED  BY <1>8, <1>11, <2>1, <3>1, <3>2
  <2>4. p[1] = e[0] + a[1] + 2
    <3>1. 1 - 1 = 0
      OBVIOUS
    <3>. QED  BY <1>4, <2>1, <3>1
  <2>5. HeaderEnd(F) = e[0] + 2 + Len(P[1].lead)
    BY <1>1, <1>2, <2>1, <2>2, <2>3, <2>4, LayoutFirst
  <2>. QED  BY <1>3, <1>7, <2>5
<1>13. ASSUME NEW k \in 2..n  PROVE s[k] = LeadStart(F, p[k], p[k-1] + 1)
  <2>1. k \in 1..n /\ k - 1 \in 1..n /\ k \in 2..(n+1)
    OBVIOUS
  <2>2. PICK ek, ak, dk : BlockOf(F, H, P, a, d, e, k, ek, ak, dk)
    BY <1>2, <2>1, LayoutBlock
  <2>3. /\ ek \in Nat /\ ak \in Nat /\ ek = e[k-1] /\ ak = a[k] /\ P[k] \in PeerRec
        /\ ak = Len(Above(P[k])) /\ F[ek + 1] = Empty
        /\ \A j \in 1..ak : F[ek + 1 + j] = Above(P[k])[j]
    BY <2>2 DEF BlockOf
  <2>4. p[k] = ek + ak + 2 /\ s[k] = ek + 2
    BY <1>4, <1>7, <2>1, <2>3
  <2>5. p[k-1] \in Nat /\ p[k-1] <= ek
    BY <1>8, <2>1, <2>3
  <2>6. PICK lower \in Nat : lower = p[k-1] + 1
    BY <2>5
  <2>7. PICK peer \in Nat : peer = p[k]
    BY <1>8, <2>1
  <2>8. ek + 2 \in lower..peer
    <3>1. ek \in Nat /\ ak \in Nat /\ lower \in Nat /\ peer \in Nat
      BY <2>3
    <3>2. peer = ek + ak + 2 /\ lower <= ek + 1
      BY <2>3, <2>4, <2>5, <2>6, <2>7
    <3>. QED  BY ONLY <3>1, <3>2
  <2>9. ASSUME NEW i \in (ek + 2)..(peer - 1)  PROVE F[i].kind \in Comment
    <3>1. PICK j : j = i - ek - 1
      OBVIOUS
    <3>3. peer = ek + ak + 2 /\ ek \in Nat /\ ak \in Nat
      BY <2>3, <2>4, <2>7
    <3>2. j \in 1..ak /\ ek + 1 + j = i
      BY <3>1, <3>3
    <3>. QED  BY <2>3, <3>2, AboveKinds
  <2>10. F[(ek + 2) - 1].kind \notin Comment
    <3>1. (ek + 2) - 1 = ek + 1
      BY <2>3
    <3>. QED  BY <2>3, <3>1, FixedLines DEF Comment
  <2>11. LeadStart(F, peer, lower) = ek + 2
    BY <2>8, <2>9, <2>10, LeadStartIs
  <2>. QED  BY <2>4, <2>6, <2>7, <2>11
<1>14. 1 <= s[1]
  <2>1. e[0] \in Nat
    BY <1>2, <1>5
  <2>. QED  BY <1>7, <2>1
<1>15. s[n+1] = Len(F) + 1
  <2>1. n + 1 \in 2..(n+1) /\ (n + 1) - 1 = n /\ n \in 0..n
    BY <1>2
  <2>2. s[n+1] = e[n] + 2 /\ e[n] \in Nat /\ Len(F) = e[n] + 1
    BY <1>2, <1>5, <1>7, <2>1 DEF Layout
  <2>. QED  BY <2>2
<1>16. Shape(F, n, s, p)
  BY <1>2, <1>6, <1>8, <1>9, <1>10, <1>12, <1>13, <1>14, <1>15 DEF Shape
<1>. QED  BY <1>2, <1>16 DEF s, p

LEMMA BelowEmpty ==
  ASSUME NEW peer \in PeerRec, NEW dk \in Nat, dk = Len(Below(peer))
  PROVE  /\ Below(peer) \o <<Empty>> \in Seq(Lines) /\ Len(Below(peer) \o <<Empty>>) = dk + 1
         /\ \A j \in 1..dk : (Below(peer) \o <<Empty>>)[j] = Below(peer)[j]
         /\ (Below(peer) \o <<Empty>>)[dk + 1] = Empty
<1>1. PICK line \in Lines : line = Empty
  BY FixedLines
<1>2. <<line>> \in Seq(Lines) /\ Below(peer) \in Seq(Lines)
  BY BlockTypes
<1>3. Len(<<line>>) = 1 /\ <<line>>[1] = line
  OBVIOUS
<1>4. PICK one \in Seq(Lines) : one = <<Empty>> /\ Len(one) = 1 /\ one[1] = Empty
  BY <1>1, <1>2, <1>3
<1>5. PICK x : x = Below(peer) \o one
  OBVIOUS
<1>6. Joined(x, Below(peer), one)
  BY <1>2, <1>5, Join
<1>7. Len(x) = dk + 1 /\ (\A j \in 1..dk : x[j] = Below(peer)[j]) /\ x[dk + 1] = Empty
  <2>1. 1 \in 1..1
    OBVIOUS
  <2>. QED  BY <1>4, <1>6, <2>1 DEF Joined
<1>8. x \in Seq(Lines)
  BY <1>2, <1>5, ConcatProperties
<1>. QED  BY <1>4, <1>5, <1>7, <1>8

BelowAt(F, P, a, e, k) ==
  SubSeq(F, Heads(P, a, e)[k] + 1, Starts(P, e)[k+1] - 1) = Below(P[k]) \o <<Empty>>

LEMMA LayoutBelow ==
  ASSUME NEW F, NEW H, NEW P, NEW a, NEW d, NEW e, Layout(F, H, P, a, d, e),
         NEW k \in 1..Len(P)
  PROVE  BelowAt(F, P, a, e, k)
<1>1. F \in Seq(Lines) /\ P \in Seq(PeerRec)
  BY DEF Layout
<1>2. PICK n \in Nat : n = Len(P)
  BY <1>1, LenProperties
<1>3. PICK ek, ak, dk : BlockOf(F, H, P, a, d, e, k, ek, ak, dk)
  BY LayoutBlock
<1>4. /\ ek \in Nat /\ ak \in Nat /\ dk \in Nat
      /\ ek = e[k-1] /\ ak = a[k] /\ e[k] = ek + ak + dk + 2 /\ e[k] < Len(F)
      /\ P[k] \in PeerRec /\ dk = Len(Below(P[k]))
      /\ \A j \in 1..dk : F[ek + ak + 2 + j] = Below(P[k])[j]
      /\ F[ek + ak + 2 + dk + 1] = Empty
  BY <1>3 DEF BlockOf
<1>15. PICK m \in Nat : m = Len(F)
  BY <1>1, LenProperties
<1>16. ek \in Nat /\ ak \in Nat /\ dk \in Nat /\ ek + ak + dk + 2 < m
  BY <1>4, <1>15
<1>17. e[k] = ek + ak + dk + 2
  BY <1>4
<1>5. PICK peer \in PeerRec : peer = P[k]
  BY <1>4
<1>6. PICK b \in Seq(Lines) : b = Below(peer) \o <<Empty>>
  BY <1>4, <1>5, BelowEmpty
<1>7. Len(b) = dk + 1 /\ (\A j \in 1..dk : b[j] = Below(peer)[j]) /\ b[dk + 1] = Empty
  BY <1>4, <1>5, <1>6, BelowEmpty
<1>18. ek \in Nat /\ ak \in Nat /\ dk \in Nat
  BY <1>4
<1>8. PICK x \in Nat : x = ek + ak + 3
  BY ONLY <1>18
<1>9. PICK y \in Nat : y = ek + ak + 2 + dk + 1
  BY ONLY <1>18
<1>10. Heads(P, a, e)[k] + 1 = x
  <2>1. Heads(P, a, e)[k] = ek + ak + 2
    BY <1>4 DEF Heads
  <2>2. (ek + ak + 2) + 1 = x
    BY ONLY <1>8, <1>18
  <2>. QED  BY <2>1, <2>2
<1>11. Starts(P, e)[k+1] - 1 = y
  <2>1. k + 1 \in 1..(n+1) /\ k + 1 # 1 /\ (k + 1) - 1 = k
    BY <1>2
  <2>2. Starts(P, e)[k+1] = e[k] + 2 + 0
    BY <1>2, <2>1 DEF Starts
  <2>. QED  BY <1>9, <1>16, <1>17, <2>2
<1>12. y <= Len(F) /\ y = x - 1 + Len(b) /\ 1 <= x
  <2>1. Len(b) = dk + 1
    BY <1>7
  <2>2. y = x - 1 + (dk + 1) /\ y <= m /\ 1 <= x
    BY <1>8, <1>9, <1>16
  <2>. QED  BY <1>15, <2>1, <2>2
<1>13. ASSUME NEW j \in 1..Len(b)  PROVE F[x - 1 + j] = b[j]
  <2>1. CASE j = dk + 1
    <3>1. x - 1 + j = ek + ak + 2 + dk + 1
      BY <1>8, <1>16, <2>1
    <3>. QED  BY <1>4, <1>7, <2>1, <3>1
  <2>2. CASE j # dk + 1
    <3>2. Len(b) = dk + 1
      BY <1>7
    <3>3. j \in 1..(dk + 1)
      BY <3>2
    <3>1. j \in 1..dk /\ x - 1 + j = ek + ak + 2 + j
      BY <1>8, <1>16, <2>2, <3>3
    <3>. QED  BY <1>4, <1>5, <1>7, <3>1
  <2>. QED  BY <2>1, <2>2
<1>14. SubSeq(F, x, y) = b
  BY <1>1, <1>12, <1>13, SliceIs
<1>. QED  BY <1>5, <1>6, <1>10, <1>11, <1>14 DEF BelowAt

LEMMA LayoutAbove ==
  ASSUME NEW F, NEW H, NEW P, NEW a, NEW d, NEW e, Layout(F, H, P, a, d, e),
         NEW k \in 1..Len(P)
  PROVE  SubSeq(F, Starts(P, e)[k], Heads(P, a, e)[k] - 1)
           = IF k = 1 THEN Optional("name", P[k].name) ELSE Above(P[k])
<1>1. F \in Seq(Lines) /\ P \in Seq(PeerRec)
  BY DEF Layout
<1>2. PICK n \in Nat : n = Len(P)
  BY <1>1, LenProperties
<1>3. PICK ek, ak, dk : BlockOf(F, H, P, a, d, e, k, ek, ak, dk)
  BY LayoutBlock
<1>4. /\ ek \in Nat /\ ak \in Nat /\ dk \in Nat
      /\ ek = e[k-1] /\ ak = a[k] /\ e[k] = ek + ak + dk + 2 /\ e[k] < Len(F)
      /\ P[k] \in PeerRec /\ ak = Len(Above(P[k]))
      /\ \A j \in 1..ak : F[ek + 1 + j] = Above(P[k])[j]
  BY <1>3 DEF BlockOf
<1>5. PICK peer \in PeerRec : peer = P[k]
  BY <1>4
<1>6. PICK l, o : Heading(peer, l, o)
  BY AboveParts
<1>7. /\ l \in Nat /\ l = Len(peer.lead) /\ o \in {0, 1} /\ o = Len(Optional("name", peer.name))
      /\ ak = l + o
      /\ \A j \in 1..o : Above(peer)[l + j] = Optional("name", peer.name)[j]
  BY <1>4, <1>5, <1>6 DEF Heading
<1>8. PICK y \in Nat : y = ek + ak + 1
  BY <1>4
<1>9. Heads(P, a, e)[k] - 1 = y
  <2>1. Heads(P, a, e)[k] = ek + ak + 2
    BY <1>4 DEF Heads
  <2>. QED  BY <1>4, <1>8, <2>1
<1>10. y <= Len(F)
  <2>1. PICK m \in Nat : m = Len(F)
    BY <1>1, LenProperties
  <2>2. /\ ek \in Nat /\ ak \in Nat /\ dk \in Nat
        /\ e[k] = ek + ak + dk + 2 /\ e[k] < m
    BY <1>4, <2>1
  <2>3. y <= m
    BY ONLY <1>8, <2>2
  <2>. QED  BY <2>1, <2>3
<1>11. k \in 1..(n+1)
  BY <1>2
<1>12. CASE k = 1
  <2>1. PICK x \in Nat : x = ek + 2 + l
    BY <1>4, <1>7
  <2>2. Starts(P, e)[k] = x
    BY <1>2, <1>4, <1>5, <1>7, <1>11, <1>12, <2>1 DEF Starts
  <2>3. PICK t \in Seq(Lines) : t = Optional("name", peer.name)
    BY BlockTypes
  <2>4. 1 <= x /\ y = x - 1 + Len(t)
    <3>1. ek \in Nat /\ l \in Nat /\ o \in {0, 1} /\ ak = l + o /\ Len(t) = o
      BY <1>4, <1>7, <2>3
    <3>. QED  BY <1>8, <2>1, <3>1
  <2>5. ASSUME NEW j \in 1..Len(t)  PROVE F[x - 1 + j] = t[j]
    <3>1. j \in 1..o
      BY <1>7, <2>3
    <3>2. l + j \in 1..ak /\ x - 1 + j = ek + 1 + (l + j)
      <4>1. ek \in Nat /\ l \in Nat /\ o \in {0, 1} /\ ak = l + o
        BY <1>4, <1>7
      <4>. QED  BY <2>1, <3>1, <4>1
    <3>3. F[ek + 1 + (l + j)] = Above(peer)[l + j]
      BY <1>4, <1>5, <3>2
    <3>4. Above(peer)[l + j] = t[j]
      BY <1>7, <2>3, <3>1
    <3>. QED  BY <3>2, <3>3, <3>4
  <2>6. SubSeq(F, x, y) = t
    BY <1>1, <1>10, <2>4, <2>5, SliceIs
  <2>. QED  BY <1>5, <1>9, <1>12, <2>2, <2>3, <2>6
<1>13. CASE k # 1
  <2>1. PICK x \in Nat : x = ek + 2
    BY <1>4
  <2>2. Starts(P, e)[k] = x
    <3>1. Starts(P, e)[k] = e[k-1] + 2 + 0
      BY <1>2, <1>11, <1>13 DEF Starts
    <3>. QED  BY <1>4, <2>1, <3>1
  <2>3. PICK t \in Seq(Lines) : t = Above(peer)
    BY BlockTypes
  <2>4. 1 <= x /\ y = x - 1 + Len(t)
    <3>1. ek \in Nat /\ ak \in Nat /\ Len(t) = ak
      BY <1>4, <1>5, <2>3
    <3>. QED  BY <1>8, <2>1, <3>1
  <2>5. ASSUME NEW j \in 1..Len(t)  PROVE F[x - 1 + j] = t[j]
    <3>1. j \in 1..ak /\ ek \in Nat
      BY <1>4, <1>5, <2>3
    <3>2. x - 1 + j = ek + 1 + j
      BY <2>1, <3>1
    <3>. QED  BY <1>4, <1>5, <2>3, <3>1, <3>2
  <2>6. SubSeq(F, x, y) = t
    BY <1>1, <1>10, <2>4, <2>5, SliceIs
  <2>. QED  BY <1>5, <1>9, <1>13, <2>2, <2>3, <2>6
<1>. QED  BY <1>12, <1>13

LEMMA LayoutHeader ==
  ASSUME NEW F, NEW H, NEW P, NEW a, NEW d, NEW e, Layout(F, H, P, a, d, e),
         1 \in 1..Len(P)
  PROVE  SubSeq(F, 1, Starts(P, e)[1] - 1) = H \o <<Empty>> \o P[1].lead
<1>1. F \in Seq(Lines) /\ H \in Seq(Lines) /\ P \in Seq(PeerRec)
  BY DEF Layout
<1>2. PICK one : one = 1
  OBVIOUS
<1>3. PICK ek, ak, dk : BlockOf(F, H, P, a, d, e, one, ek, ak, dk)
  BY <1>2, LayoutBlock
<1>4. PICK peer \in PeerRec : peer = P[1]
  BY <1>2, <1>3 DEF BlockOf
<1>5. PICK m \in Nat : m = Len(F)
  BY <1>1, LenProperties
<1>6. PICK l, o : Heading(peer, l, o)
  BY AboveParts
<1>7. /\ ek = e[0] /\ F[ek + 1] = Empty /\ \A j \in 1..ak : F[ek + 1 + j] = Above(peer)[j]
      /\ ek \in Nat /\ ak \in Nat /\ dk \in Nat /\ ek + ak + dk + 2 < m
      /\ ak = Len(Above(peer))
  <2>1. one - 1 = 0
    BY <1>2
  <2>. QED  BY <1>2, <1>3, <1>4, <1>5, <2>1 DEF BlockOf
<1>8. /\ l \in Nat /\ l = Len(peer.lead) /\ o \in {0, 1} /\ ak = l + o
      /\ \A j \in 1..l : Above(peer)[j] = peer.lead[j]
  BY <1>6, <1>7 DEF Heading
<1>9. ek = Len(H) /\ \A i \in 1..ek : F[i] = H[i]
  BY <1>7 DEF Layout
<1>10. Starts(P, e)[1] = ek + 2 + l
  <2>1. 1 \in 1..(Len(P) + 1) /\ 1 - 1 = 0
    <3>1. PICK n \in Nat : n = Len(P)
      BY <1>1, LenProperties
    <3>2. 1 \in 1..(n + 1)
      BY <3>1
    <3>. QED  BY <3>1, <3>2
  <2>. QED  BY <1>4, <1>7, <1>8, <2>1 DEF Starts
<1>11. PICK line \in Lines : line = Empty
  BY FixedLines
<1>12. <<line>> \in Seq(Lines) /\ peer.lead \in Seq(Lines)
  BY BlockTypes
<1>13. Len(<<line>>) = 1 /\ <<line>>[1] = line
  OBVIOUS
<1>14. PICK blank \in Seq(Lines) : blank = <<Empty>> /\ Len(blank) = 1 /\ blank[1] = Empty
  BY <1>11, <1>12, <1>13
<1>15. PICK u \in Seq(Lines) : u = H \o blank
  BY <1>1, ConcatProperties
<1>16. PICK w \in Seq(Lines) : w = u \o peer.lead
  BY <1>12, ConcatProperties
<1>17. Joined(u, H, blank)
  BY <1>1, <1>15, Join
<1>18. Joined(w, u, peer.lead)
  BY <1>12, <1>16, Join
<1>19. Len(u) = ek + 1 /\ (\A j \in 1..ek : u[j] = H[j]) /\ u[ek + 1] = Empty
  <2>1. 1 \in 1..1
    OBVIOUS
  <2>. QED  BY <1>9, <1>14, <1>17, <2>1 DEF Joined
<1>20. PICK c \in Nat : c = ek + 1
  BY <1>7
<1>21. /\ Len(w) = c + l
       /\ \A j \in 1..c : w[j] = u[j]
       /\ \A j \in 1..l : w[c + j] = peer.lead[j]
  BY <1>8, <1>18, <1>19, <1>20 DEF Joined
<1>22. PICK y \in Nat : y = c + l
  BY <1>8, <1>20
<1>23. ASSUME NEW j \in 1..y  PROVE F[1 - 1 + j] = w[j]
  <2>1. 1 - 1 + j = j
    OBVIOUS
  <2>2. CASE j \in 1..ek
    <3>1. j \in 1..c
      BY <1>7, <1>20, <2>2, SMTT(30)
    <3>. QED  BY <1>9, <1>19, <1>21, <2>1, <2>2, <3>1
  <2>3. CASE j = c
    <3>1. j \in 1..c
      BY <2>3
    <3>. QED  BY <1>7, <1>19, <1>20, <1>21, <2>1, <2>3, <3>1
  <2>4. CASE j > c
    <3>1. PICK i : i = j - c
      OBVIOUS
    <3>2. i \in 1..l /\ j = c + i /\ j = ek + 1 + i
      <4>1. l \in Nat /\ ek \in Nat
        BY <1>7, <1>8
      <4>. QED  BY <1>20, <1>22, <2>4, <3>1, <4>1
    <3>3. i \in 1..ak
      <4>1. l \in Nat /\ o \in {0, 1} /\ ak = l + o
        BY <1>8
      <4>. QED  BY <3>2, <4>1
    <3>4. F[j] = Above(peer)[i]
      BY <1>7, <3>2, <3>3
    <3>5. w[j] = peer.lead[i]
      BY <1>21, <3>2
    <3>6. Above(peer)[i] = peer.lead[i]
      BY <1>8, <3>2
    <3>. QED  BY <2>1, <3>4, <3>5, <3>6
  <2>5. j \in 1..ek \/ j = c \/ j > c
    <3>1. ek \in Nat
      BY <1>7
    <3>. QED  BY <1>20, <3>1
  <2>. QED  BY <2>2, <2>3, <2>4, <2>5
<1>24. y <= m /\ y = 1 - 1 + Len(w) /\ Starts(P, e)[1] - 1 = y
  <2>1. ek \in Nat /\ ak \in Nat /\ dk \in Nat /\ ek + ak + dk + 2 < m
    BY <1>7
  <2>2. l \in Nat /\ o \in {0, 1} /\ ak = l + o
    BY <1>8
  <2>3. Len(w) = y
    BY <1>21, <1>22
  <2>4. y <= m /\ y = 1 - 1 + y /\ (ek + 2 + l) - 1 = y
    BY <1>20, <1>22, <2>1, <2>2
  <2>5. y = 1 - 1 + Len(w)
    BY <2>3, <2>4
  <2>6. Starts(P, e)[1] - 1 = y
    <3>1. (ek + 2 + l) - 1 = y
      BY <2>4
    <3>. QED  BY <1>10, <3>1, Zenon
  <2>. QED  BY <2>4, <2>5, <2>6
<1>25. SubSeq(F, 1, y) = w
  <2>1. \A j \in 1..Len(w) : F[1 - 1 + j] = w[j]
    BY <1>21, <1>22, <1>23
  <2>2. y <= Len(F)
    BY <1>5, <1>24
  <2>3. 1 \in Nat /\ 1 <= 1
    OBVIOUS
  <2>. QED  BY <1>1, <1>24, <2>1, <2>2, <2>3, SliceIs
<1>. QED  BY <1>4, <1>14, <1>15, <1>16, <1>24, <1>25

LEMMA LayoutParse ==
  ASSUME NEW F, NEW H, NEW P, NEW a, NEW d, NEW e, Layout(F, H, P, a, d, e),
         \A i \in 1..Len(H) : H[i].kind # "peer", P # <<>>
  PROVE  /\ Parse(F).header = H \o <<Empty>> \o P[1].lead
         /\ Parse(F).peers = FirstWithoutLead(P)
<1>1. F \in Seq(Lines) /\ H \in Seq(Lines) /\ P \in Seq(PeerRec)
  BY DEF Layout
<1>2. PICK n \in Nat : n = Len(P) /\ DOMAIN P = 1..n /\ 1 \in 1..n
  <2>1. Len(P) \in Nat /\ Len(P) # 0 /\ DOMAIN P = 1..Len(P)
    BY <1>1, EmptySeq, LenProperties
  <2>2. PICK n \in Nat : n = Len(P)
    BY <2>1, Zenon
  <2>3. DOMAIN P = 1..n /\ 1 \in 1..n
    BY <2>1, <2>2
  <2>. QED  BY <2>2, <2>3
<1>3. PICK s : s = Starts(P, e)
  OBVIOUS
<1>4. PICK p : p = Heads(P, a, e)
  OBVIOUS
<1>5. Shape(F, n, s, p)
  BY <1>2, <1>3, <1>4, LayoutShape
<1>6. /\ Parse(F).header = SubSeq(F, 1, s[1] - 1)
      /\ Parse(F).peers = [k \in 1..n |-> PeerOf(SubSeq(F, s[k], p[k] - 1),
                                                 SubSeq(F, p[k] + 1, s[k+1] - 1))]
  BY <1>1, <1>5, ShapeParse
<1>7. SubSeq(F, 1, s[1] - 1) = H \o <<Empty>> \o P[1].lead
  BY <1>2, <1>3, LayoutHeader, ZenonT(30)
<1>8. ASSUME NEW k \in 1..n
      PROVE  PeerOf(SubSeq(F, s[k], p[k] - 1), SubSeq(F, p[k] + 1, s[k+1] - 1))
               = IF k = 1 THEN [P[k] EXCEPT !.lead = <<>>] ELSE P[k]
  <2>1. PICK peer \in PeerRec : peer = P[k]
    BY <1>1, <1>2, ElementOfSeq
  <2>2. SubSeq(F, p[k] + 1, s[k+1] - 1) = Below(peer) \o <<Empty>>
    <3>1. BelowAt(F, P, a, e, k)
      BY <1>2, LayoutBelow
    <3>. QED  BY <1>3, <1>4, <2>1, <3>1 DEF BelowAt
  <2>3. SubSeq(F, s[k], p[k] - 1) = IF k = 1 THEN Optional("name", peer.name) ELSE Above(peer)
    <3>1. SubSeq(F, Starts(P, e)[k], Heads(P, a, e)[k] - 1)
            = IF k = 1 THEN Optional("name", P[k].name) ELSE Above(P[k])
      BY <1>2, LayoutAbove
    <3>. QED  BY <1>3, <1>4, <2>1, <3>1
  <2>4. CASE k = 1
    BY <2>1, <2>2, <2>3, <2>4, ParsedBack
  <2>5. CASE k # 1
    BY <2>1, <2>2, <2>3, <2>5, ParsedBack
  <2>. QED  BY <2>4, <2>5
<1>9. FirstWithoutLead(P) = [k \in 1..n |-> IF k = 1 THEN [P[k] EXCEPT !.lead = <<>>] ELSE P[k]]
  BY <1>2 DEF FirstWithoutLead
<1>. QED  BY <1>6, <1>7, <1>8, <1>9, ZenonT(30)
=============================================================================
