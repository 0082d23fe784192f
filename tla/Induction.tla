------------------------------ MODULE Induction ------------------------------
(***************************************************************************)
(* Induction over numbers and sequences, stated over sets instead of       *)
(* predicates, and what it yields: functions defined by recursion exist,   *)
(* and FlattenSeq of the community modules, which is defined by one, obeys  *)
(* its equations. Nothing here is about wgpeer.                            *)
(***************************************************************************)
EXTENDS Integers, Sequences, SequencesExt, SequenceTheorems,
        WellFoundedInduction, TLAPS

Before == OpToRel(<, Nat)

LEMMA BeforeIsLess == \A x, y \in Nat : <<y, x>> \in Before <=> y < x
BY DEF Before, OpToRel

(* Every non-empty set of natural numbers has a least element.             *)
LEMMA NatLeast ==
  ASSUME NEW T \in SUBSET Nat, T # {}
  PROVE  \E x \in T : \A y \in T : x <= y
<1>1. IsWellFoundedOn(Before, Nat)
  BY NatLessThanWellFounded DEF Before
<1>2. PICK x \in T : \A y \in T : <<y, x>> \notin Before
  BY <1>1, WFMin
<1>3. ASSUME NEW y \in T  PROVE x <= y
  <2>1. x \in Nat /\ y \in Nat
    OBVIOUS
  <2>2. ~(y < x)
    BY <2>1, <1>2, BeforeIsLess
  <2>. QED  BY <2>1, <2>2
<1>. QED  BY <1>3

(* A set that holds 0 and the successor of each of its elements is Nat.    *)
LEMMA NatInduct ==
  ASSUME NEW T, 0 \in T, \A n \in Nat : n \in T => n + 1 \in T
  PROVE  \A n \in Nat : n \in T
<1> DEFINE missing == {n \in Nat : n \notin T}
<1>1. SUFFICES ASSUME missing # {}  PROVE FALSE
  OBVIOUS
<1>2. PICK x \in missing : \A y \in missing : x <= y
  BY <1>1, NatLeast
<1>3. x \in Nat /\ x # 0
  BY <1>2
<1>4. x - 1 \in Nat /\ x - 1 \notin missing
  BY <1>2, <1>3
<1>5. x - 1 \in T
  BY <1>4
<1>6. (x - 1) + 1 \in T
  BY <1>4, <1>5
<1>. QED  BY <1>2, <1>3, <1>6

(* The same up to a bound.                                                 *)
LEMMA IntervalInduct ==
  ASSUME NEW m \in Nat, NEW T, 0 \in T, \A n \in 0..(m-1) : n \in T => n + 1 \in T
  PROVE  \A n \in 0..m : n \in T
<1> DEFINE U == {n \in Nat : n <= m => n \in T}
<1>1. 0 \in U
  OBVIOUS
<1>2. \A n \in Nat : n \in U => n + 1 \in U
  OBVIOUS
<1>3. \A n \in Nat : n \in U
  BY <1>1, <1>2, NatInduct
<1>. QED  BY <1>3

(* A function on 0..m may be given by its first value and the step from    *)
(* each value to the next.                                                 *)
LEMMA RecursionExists ==
  ASSUME NEW V, NEW v \in V, NEW m \in Nat, NEW g \in [1..m -> [V -> V]]
  PROVE  \E f \in [0..m -> V] : f[0] = v /\ \A i \in 1..m : f[i] = g[i][f[i-1]]
<1> DEFINE T == {n \in 0..m : \E f \in [0..m -> V] :
                   f[0] = v /\ \A i \in 1..n : f[i] = g[i][f[i-1]]}
<1>1. 0 \in T
  <2> DEFINE c == [i \in 0..m |-> v]
  <2>1. c \in [0..m -> V] /\ c[0] = v
    OBVIOUS
  <2>2. \A i \in 1..0 : c[i] = g[<<i, c[i-1]>>]
    OBVIOUS
  <2> HIDE DEF c
  <2>. QED  BY <2>1, <2>2
<1>2. ASSUME NEW n \in 0..(m-1), n \in T  PROVE n + 1 \in T
  <2>1. PICK f \in [0..m -> V] : f[0] = v /\ \A i \in 1..n : f[i] = g[i][f[i-1]]
    BY <1>2
  <2> DEFINE h == [f EXCEPT ![n+1] = g[n+1][f[n]]]
  <2>2. f[n] \in V /\ n + 1 \in 1..m
    OBVIOUS
  <2>3. g[n+1][f[n]] \in V
    BY <2>2
  <2>4. h \in [0..m -> V] /\ h[n+1] = g[n+1][f[n]] /\ \A i \in 0..n : h[i] = f[i]
    BY <2>2, <2>3
  <2> HIDE DEF h
  <2>5. \A i \in 1..(n+1) : h[i] = g[i][h[i-1]]
    <3> TAKE i \in 1..(n+1)
    <3>1. CASE i = n + 1
      <4>1. h[i-1] = f[n]
        BY <3>1, <2>4
      <4>. QED  BY <3>1, <4>1, <2>4
    <3>2. CASE i \in 1..n
      <4>1. i \in 0..n /\ i - 1 \in 0..n
        BY <3>2
      <4>. QED  BY <3>2, <4>1, <2>1, <2>4
    <3>. QED  BY <3>1, <3>2
  <2>6. h[0] = v
    BY <2>1, <2>4
  <2>. QED  BY <2>4, <2>5, <2>6
<1>3. \A n \in 0..m : n \in T
  <2> HIDE DEF T
  <2>. QED  BY <1>1, <1>2, IntervalInduct
<1>4. m \in T
  <2> HIDE DEF T
  <2>. QED  BY <1>3
<1>. QED  BY <1>4

(* A set that holds the empty sequence and every extension of its elements *)
(* by one element holds every sequence.                                    *)
LEMMA SeqInduct ==
  ASSUME NEW S, NEW T, <<>> \in T,
         \A s \in Seq(S), e \in S : s \in T => Append(s, e) \in T
  PROVE  \A s \in Seq(S) : s \in T
<1> DEFINE U == {n \in Nat : \A s \in Seq(S) : Len(s) = n => s \in T}
<1>1. 0 \in U
  <2>1. \A s \in Seq(S) : Len(s) = 0 => s = <<>>
    BY EmptySeq
  <2>. QED  BY <2>1
<1>2. ASSUME NEW n \in Nat, n \in U  PROVE n + 1 \in U
  <2> SUFFICES ASSUME NEW s \in Seq(S), Len(s) = n + 1  PROVE s \in T
    OBVIOUS
  <2>1. s # <<>>
    BY EmptySeq
  <2>2. PICK r \in Seq(S), e \in S : s = Append(r, e)
    BY <2>1, SequenceEmptyOrAppend
  <2>3. Len(s) = Len(r) + 1 /\ Len(r) \in Nat
    BY <2>2, AppendProperties, LenProperties
  <2>4. r \in T
    BY <1>2, <2>3
  <2>. QED  BY <2>2, <2>4
<1>3. \A n \in Nat : n \in U
  BY <1>1, <1>2, NatInduct
<1>. QED  BY <1>3, LenProperties

(* Steps upwards make a function increasing.                               *)
LEMMA Increasing ==
  ASSUME NEW n \in Nat, NEW p \in [1..n -> Int], \A k \in 1..(n-1) : p[k] < p[k+1]
  PROVE  \A j, k \in 1..n : j < k => p[j] < p[k]
<1> SUFFICES ASSUME NEW j \in 1..n  PROVE \A k \in 1..n : j < k => p[j] < p[k]
  OBVIOUS
<1> DEFINE T == {k \in 0..n : j < k => p[j] < p[k]}
<1>1. 0 \in T
  OBVIOUS
<1>2. ASSUME NEW k \in 0..(n-1), k \in T  PROVE k + 1 \in T
  <2>1. CASE j < k
    <3>1. k \in 1..(n-1) /\ k \in 1..n /\ k + 1 \in 1..n
      BY <2>1
    <3>2. p[j] < p[k] /\ p[k] < p[k+1] /\ p[j] \in Int /\ p[k] \in Int /\ p[k+1] \in Int
      BY <1>2, <2>1, <3>1
    <3>. QED  BY <3>1, <3>2
  <2>2. CASE j = k
    <3>1. k \in 1..(n-1)
      BY <2>2
    <3>. QED  BY <3>1, <2>2
  <2>3. CASE j > k
    BY <2>3
  <2>. QED  BY <2>1, <2>2, <2>3
<1>3. \A k \in 0..n : k \in T
  BY <1>1, <1>2, IntervalInduct
<1>. QED  BY <1>3

-----------------------------------------------------------------------------
(* FlattenSeq is the last value of any function that starts empty and      *)
(* appends one sequence after the other.                                   *)
LEMMA FlattenFold ==
  ASSUME NEW S, NEW ss \in Seq(Seq(S)), NEW g \in [0..Len(ss) -> Seq(S)],
         g[0] = <<>>, \A i \in 1..Len(ss) : g[i] = g[i-1] \o ss[i]
  PROVE  FlattenSeq(ss) = g[Len(ss)]
<1> DEFINE n == Len(ss)
           Step(f) == [i \in 1..n |-> IF i = 1 THEN ss[i] ELSE f[i-1] \o ss[i]]
<1>1. n \in Nat /\ \A i \in 1..n : ss[i] \in Seq(S)
  BY LenProperties, ElementOfSeq
<1>2. CASE n = 0
  <2>1. ss = <<>>
    BY <1>2, EmptySeq
  <2>. QED  BY <1>2, <2>1 DEF FlattenSeq
<1>3. CASE n # 0
  <2> DEFINE r == [i \in 1..n |-> g[i]]
             f == CHOOSE h : h = Step(h)
  <2>0. 1 \in 1..n /\ g[1] = ss[1] /\ ss[1] \in Seq(S)
    <3>1. 1 \in 1..n /\ 1 - 1 = 0
      BY <1>1, <1>3
    <3>2. g[1] = g[0] \o ss[1]
      BY <3>1
    <3>. QED  BY <1>1, <3>1, <3>2, ConcatEmptySeq
  <2>1. r = Step(r)
    <3>1. ASSUME NEW i \in 1..n
          PROVE  r[i] = IF i = 1 THEN ss[i] ELSE r[i-1] \o ss[i]
      <4>1. CASE i = 1
        <5>1. r[i] = g[1]
          BY <4>1
        <5>. QED  BY <2>0, <4>1, <5>1
      <4>2. CASE i # 1
        <5>1. i - 1 \in 1..n
          BY <1>1, <4>2
        <5>. QED  BY <1>1, <4>2, <5>1, ZenonT(30)
      <4>. QED  BY <4>1, <4>2
    <3>. QED  BY <3>1
  <2>2. f = Step(f)
    BY <2>1
  <2>3. FlattenSeq(ss) = f[n]
    BY <1>3 DEF FlattenSeq
  <2> DEFINE T == {i \in 0..n : i # 0 => f[i] = g[i]}
  <2> HIDE DEF f
  <2>4. \A i \in 1..n : f[i] = IF i = 1 THEN ss[i] ELSE f[i-1] \o ss[i]
    BY <2>2
  <2>5. 0 \in T
    BY <1>1
  <2>6. ASSUME NEW i \in 0..(n-1), i \in T  PROVE i + 1 \in T
    <3>1. i + 1 \in 1..n /\ (i + 1) - 1 = i
      BY <1>1
    <3>2. CASE i = 0
      <4>1. f[1] = ss[1]
        BY <2>0, <2>4
      <4>2. i + 1 = 1
        BY <3>2
      <4>. QED  BY <2>0, <3>1, <4>1, <4>2
    <3>3. CASE i # 0
      <4>1. f[i] = g[i] /\ i + 1 # 1
        BY <1>1, <2>6, <3>3
      <4>2. g[i+1] = g[i] \o ss[i+1]
        BY <3>1
      <4>3. f[i+1] = f[i] \o ss[i+1]
        <5> DEFINE j == i + 1
        <5>1. j \in 1..n /\ j # 1 /\ j - 1 = i
          BY <3>1, <4>1
        <5> HIDE DEF j
        <5>2. f[j] = f[i] \o ss[j]
          BY <2>4, <5>1
        <5>. QED  BY <5>2 DEF j
      <4>4. i + 1 \in 0..n
        BY <1>1
      <4>. QED  BY <4>1, <4>2, <4>3, <4>4
    <3>. QED  BY <3>2, <3>3
  <2>7. \A i \in 0..n : i \in T
    <3> HIDE DEF T
    <3>. QED  BY <1>1, <2>5, <2>6, IntervalInduct
  <2>8. n \in T
    <3> HIDE DEF T
    <3>. QED  BY <1>1, <2>7
  <2>. QED  BY <1>3, <2>3, <2>8
<1>. QED  BY <1>2, <1>3

LEMMA FlattenFoldExists ==
  ASSUME NEW S, NEW ss \in Seq(Seq(S))
  PROVE  \E g \in [0..Len(ss) -> Seq(S)] :
           g[0] = <<>> /\ \A i \in 1..Len(ss) : g[i] = g[i-1] \o ss[i]
<1>1. PICK n \in Nat : n = Len(ss)
  BY LenProperties
<1>2. PICK V : V = Seq(S)
  OBVIOUS
<1>3. \A i \in 1..n, s \in V : s \o ss[i] \in V
  BY <1>1, <1>2, ElementOfSeq, ConcatProperties
<1>4. PICK step \in [1..n -> [V -> V]] : \A i \in 1..n, s \in V : step[i][s] = s \o ss[i]
  <2> DEFINE f == [i \in 1..n |-> [s \in V |-> s \o ss[i]]]
  <2>1. f \in [1..n -> [V -> V]] /\ \A i \in 1..n, s \in V : f[i][s] = s \o ss[i]
    BY <1>3
  <2> HIDE DEF f
  <2>. QED  BY <2>1
<1>5. ASSUME NEW v \in V
      PROVE  \E g \in [0..n -> V] : g[0] = v /\ \A i \in 1..n : g[i] = step[i][g[i-1]]
  BY RecursionExists, SMTT(30)
<1>6. <<>> \in V
  BY <1>2, EmptySeq
<1>7. PICK g \in [0..n -> V] : g[0] = <<>> /\ \A i \in 1..n : g[i] = step[i][g[i-1]]
  BY <1>5, <1>6
<1>8. ASSUME NEW i \in 1..n  PROVE g[i] = g[i-1] \o ss[i]
  <2>1. i - 1 \in 0..n
    OBVIOUS
  <2>. QED  BY <1>4, <1>7, <2>1
<1>. QED  BY <1>1, <1>2, <1>7, <1>8

LEMMA FlattenType ==
  ASSUME NEW S, NEW ss \in Seq(Seq(S))
  PROVE  FlattenSeq(ss) \in Seq(S)
<1>1. PICK g \in [0..Len(ss) -> Seq(S)] :
           g[0] = <<>> /\ \A i \in 1..Len(ss) : g[i] = g[i-1] \o ss[i]
  BY FlattenFoldExists
<1>2. FlattenSeq(ss) = g[Len(ss)]
  BY <1>1, FlattenFold
<1>3. Len(ss) \in 0..Len(ss)
  BY LenProperties
<1>. QED  BY <1>2, <1>3

LEMMA FlattenEmpty == FlattenSeq(<<>>) = <<>>
<1>1. Len(<<>>) = 0
  BY EmptySeq
<1>. QED  BY <1>1 DEF FlattenSeq

LEMMA FlattenAppend ==
  ASSUME NEW S, NEW ss \in Seq(Seq(S)), NEW s \in Seq(S)
  PROVE  FlattenSeq(Append(ss, s)) = FlattenSeq(ss) \o s
<1> DEFINE n == Len(ss)
           tt == Append(ss, s)
<1>1. /\ n \in Nat /\ tt \in Seq(Seq(S)) /\ Len(tt) = n + 1
      /\ tt[n+1] = s /\ \A i \in 1..n : tt[i] = ss[i]
  BY LenProperties, AppendProperties
<1> HIDE DEF tt
<1>2. PICK g \in [0..Len(tt) -> Seq(S)] :
           g[0] = <<>> /\ \A i \in 1..Len(tt) : g[i] = g[i-1] \o tt[i]
  BY <1>1, FlattenFoldExists
<1>3. FlattenSeq(tt) = g[n+1] /\ g[n+1] = g[n] \o s
  <2>1. FlattenSeq(tt) = g[n+1]
    BY <1>1, <1>2, FlattenFold
  <2>2. n + 1 \in 1..Len(tt) /\ (n + 1) - 1 = n
    BY <1>1
  <2>. QED  BY <1>1, <1>2, <2>1, <2>2
<1>4. FlattenSeq(ss) = g[n]
  <2> DEFINE h == [i \in 0..n |-> g[i]]
  <2>1. h \in [0..n -> Seq(S)] /\ h[n] = g[n] /\ h[0] = <<>>
    BY <1>1, <1>2
  <2>2. ASSUME NEW i \in 1..n  PROVE h[i] = h[i-1] \o ss[i]
    <3>1. i \in 1..Len(tt) /\ i \in 0..n /\ i - 1 \in 0..n
      BY <1>1
    <3>2. h[i] = g[i] /\ h[i-1] = g[i-1]
      BY <3>1
    <3>. QED  BY <1>1, <1>2, <3>1, <3>2
  <2> HIDE DEF h
  <2>. QED  BY <2>1, <2>2, FlattenFold
<1>. QED  BY <1>3, <1>4 DEF tt

LEMMA FlattenOne ==
  ASSUME NEW S, NEW s \in Seq(S)
  PROVE  FlattenSeq(<<s>>) = s
<1>1. <<>> \in Seq(Seq(S))
  BY EmptySeq
<1>2. <<s>> = Append(<<>>, s)
  OBVIOUS
<1>3. FlattenSeq(Append(<<>>, s)) = FlattenSeq(<<>>) \o s
  BY <1>1, FlattenAppend
<1>. QED  BY <1>2, <1>3, FlattenEmpty, ConcatEmptySeq

LEMMA FlattenConcat ==
  ASSUME NEW S, NEW ss \in Seq(Seq(S)), NEW tt \in Seq(Seq(S))
  PROVE  FlattenSeq(ss \o tt) = FlattenSeq(ss) \o FlattenSeq(tt)
<1> DEFINE V == Seq(S)
           T == {xs \in Seq(V) : FlattenSeq(ss \o xs) = FlattenSeq(ss) \o FlattenSeq(xs)}
<1>1. <<>> \in T
  <2>1. <<>> \in Seq(V) /\ ss \o <<>> = ss /\ FlattenSeq(ss) \o <<>> = FlattenSeq(ss)
    BY EmptySeq, ConcatEmptySeq, FlattenType
  <2>. QED  BY <2>1, FlattenEmpty
<1>2. ASSUME NEW xs \in Seq(V), NEW s \in V, xs \in T  PROVE Append(xs, s) \in T
  <2>1. /\ Append(xs, s) \in Seq(V) /\ ss \o xs \in Seq(V)
        /\ ss \o Append(xs, s) = Append(ss \o xs, s)
    <3>1. Append(xs, s) = xs \o <<s>> /\ Append(xs, s) \in Seq(V) /\ <<s>> \in Seq(V)
      BY AppendIsConcat, AppendProperties
    <3>2. ss \o xs \in Seq(V)
      BY ConcatProperties
    <3>3. Append(ss \o xs, s) = (ss \o xs) \o <<s>>
      BY <3>2, AppendIsConcat
    <3>. QED  BY <3>1, <3>2, <3>3, ConcatAssociative
  <2>2. FlattenSeq(ss \o Append(xs, s)) = FlattenSeq(ss \o xs) \o s
    BY <2>1, FlattenAppend
  <2>3. FlattenSeq(Append(xs, s)) = FlattenSeq(xs) \o s
    BY FlattenAppend
  <2>4. (FlattenSeq(ss) \o FlattenSeq(xs)) \o s = FlattenSeq(ss) \o (FlattenSeq(xs) \o s)
    <3>1. FlattenSeq(ss) \in Seq(S) /\ FlattenSeq(xs) \in Seq(S)
      BY FlattenType
    <3>. QED  BY ONLY <3>1, ConcatAssociative, SMTT(30)
  <2>. QED  BY <1>2, <2>1, <2>2, <2>3, <2>4
<1>3. \A xs \in Seq(V) : xs \in T
  <2> HIDE DEF T, V
  <2>. QED  BY <1>1, <1>2, SeqInduct
<1>. QED  BY <1>3

(* p lists the members of T in increasing order. *)
Lists(T, m, n, p) ==
  /\ n \in Nat /\ p \in [1..n -> 1..m]
  /\ \A j, k \in 1..n : j < k => p[j] < p[k]
  /\ \A k \in 1..n : p[k] \in T
  /\ \A i \in T : \E k \in 1..n : p[k] = i

(* Every set of positions can be listed so.                                 *)
LEMMA Enumerates ==
  ASSUME NEW m \in Nat, NEW T \in SUBSET (1..m)
  PROVE  \E n, p : Lists(T, m, n, p)
<1> DEFINE UpTo(n, p, l) ==
             /\ \A k \in 1..n : p[k] \in T /\ p[k] <= l
             /\ \A j, k \in 1..n : j < k => p[j] < p[k]
             /\ \A i \in T : i <= l => \E k \in 1..n : p[k] = i
           U == {l \in 0..m : \E n \in Nat : \E p \in [1..n -> 1..m] : UpTo(n, p, l)}
<1>1. 0 \in U
  <2> DEFINE p == [k \in 1..0 |-> 0]
  <2>1. p \in [1..0 -> 1..m]
    OBVIOUS
  <2>2. UpTo(0, p, 0)
    OBVIOUS
  <2>3. 0 \in Nat /\ 0 \in 0..m
    OBVIOUS
  <2> HIDE DEF p, UpTo
  <2>4. \E pp \in [1..0 -> 1..m] : UpTo(0, pp, 0)
    BY <2>1, <2>2
  <2>. QED  BY <2>3, <2>4
<1>2. ASSUME NEW l \in 0..(m-1), l \in U  PROVE l + 1 \in U
  <2>0. PICK n \in Nat : \E p \in [1..n -> 1..m] : UpTo(n, p, l)
    BY <1>2
  <2>1. PICK p \in [1..n -> 1..m] : UpTo(n, p, l)
    BY <2>0
  <2>2. CASE l + 1 \notin T
    <3>1. UpTo(n, p, l + 1)
      <4>1. \A k \in 1..n : p[k] \in T /\ p[k] <= l + 1
        <5> TAKE k \in 1..n
        <5>1. p[k] \in 1..m
          OBVIOUS
        <5>. QED  BY <2>1, <5>1
      <4>2. \A i \in T : i <= l + 1 => i <= l
        BY <2>2
      <4>. QED  BY <2>1, <4>1, <4>2
    <3> HIDE DEF UpTo
    <3>. QED  BY <3>1
  <2>3. CASE l + 1 \in T
    <3> DEFINE q == [k \in 1..(n+1) |-> IF k = n + 1 THEN l + 1 ELSE p[k]]
    <3>1. /\ q \in [1..(n+1) -> 1..m] /\ q[n+1] = l + 1
          /\ \A k \in 1..n : q[k] = p[k] /\ k \in 1..(n+1)
      BY <2>3
    <3> HIDE DEF q
    <3>2. \A k \in 1..n : p[k] \in 1..m
      OBVIOUS
    <3>3. \A k \in 1..(n+1) : k = n + 1 \/ k \in 1..n
      OBVIOUS
    <3>4. \A k \in 1..(n+1) : q[k] \in T /\ q[k] <= l + 1
      <4> TAKE k \in 1..(n+1)
      <4>1. CASE k = n + 1
        BY <2>3, <3>1, <4>1
      <4>2. CASE k \in 1..n
        BY <2>1, <3>1, <3>2, <4>2
      <4>. QED  BY <3>3, <4>1, <4>2
    <3>5. \A j, k \in 1..(n+1) : j < k => q[j] < q[k]
      <4> SUFFICES ASSUME NEW j \in 1..(n+1), NEW k \in 1..(n+1), j < k
                   PROVE  q[j] < q[k]
        OBVIOUS
      <4>1. j \in 1..n
        OBVIOUS
      <4>2. CASE k = n + 1
        BY <2>1, <3>1, <3>2, <4>1, <4>2
      <4>3. CASE k \in 1..n
        BY <2>1, <3>1, <4>1, <4>3
      <4>. QED  BY <3>3, <4>2, <4>3
    <3>6. \A i \in T : i <= l + 1 => \E k \in 1..(n+1) : q[k] = i
      <4> SUFFICES ASSUME NEW i \in T, i <= l + 1  PROVE \E k \in 1..(n+1) : q[k] = i
        OBVIOUS
      <4>1. CASE i = l + 1
        BY <3>1, <4>1
      <4>2. CASE i <= l
        <5>1. PICK k \in 1..n : p[k] = i
          BY <2>1, <4>2
        <5>. QED  BY <3>1, <5>1
      <4>3. i \in 1..m
        OBVIOUS
      <4>. QED  BY <4>1, <4>2, <4>3
    <3>7. UpTo(n + 1, q, l + 1)
      BY <3>4, <3>5, <3>6
    <3> HIDE DEF UpTo
    <3>8. n + 1 \in Nat
      OBVIOUS
    <3>. QED  BY <3>1, <3>7, <3>8
  <2>. QED  BY <2>2, <2>3
<1>3. m \in U
  <2> HIDE DEF U
  <2>1. \A l \in 0..m : l \in U
    BY <1>1, <1>2, IntervalInduct
  <2>. QED  BY <2>1
<1>4. PICK n \in Nat : \E p \in [1..n -> 1..m] : UpTo(n, p, m)
  BY <1>3
<1>5. PICK p \in [1..n -> 1..m] : UpTo(n, p, m)
  BY <1>4
<1>6. Lists(T, m, n, p)
  BY <1>5 DEF Lists
<1>. QED  BY <1>6

LEMMA FlattenPrefix ==
  ASSUME NEW S, NEW ss \in Seq(Seq(S)), NEW k \in 1..Len(ss)
  PROVE  /\ SubSeq(ss, 1, k - 1) \in Seq(Seq(S))
         /\ FlattenSeq(SubSeq(ss, 1, k)) = FlattenSeq(SubSeq(ss, 1, k - 1)) \o ss[k]
<1>1. Len(ss) \in Nat /\ k \in Nat /\ 1 <= k /\ k <= Len(ss) /\ ss[k] \in Seq(S)
  BY LenProperties, ElementOfSeq
<1>2. \A i \in 1..(k-1) : ss[i] \in Seq(S)
  BY <1>1, ElementOfSeq
<1>3. SubSeq(ss, 1, k - 1) \in Seq(Seq(S))
  BY <1>1, <1>2, SubSeqProperties
<1>4. SubSeq(ss, 1, k) = SubSeq(ss, 1, k - 1) \o << ss[k] >>
  <2>1. 1 \in 1..Len(ss) /\ k \in 1..Len(ss)
    BY <1>1
  <2>. QED  BY <2>1, SubSeqRecursiveSecond
<1>5. << ss[k] >> \in Seq(Seq(S))
  BY <1>1
<1>6. FlattenSeq(<< ss[k] >>) = ss[k]
  BY <1>1, FlattenOne
<1>. QED  BY <1>3, <1>4, <1>5, <1>6, FlattenConcat

(* All parts are empty but those at p, which hold one element each.        *)
Chosen(S, ss, n, p, v) ==
  /\ ss \in Seq(Seq(S)) /\ n \in Nat
  /\ p \in [1..n -> 1..Len(ss)] /\ v \in [1..n -> S]
  /\ \A j, k \in 1..n : j < k => p[j] < p[k]
  /\ \A k \in 1..n : ss[p[k]] = << v[k] >>
  /\ \A i \in 1..Len(ss) : (\A k \in 1..n : p[k] # i) => ss[i] = <<>>

(* Flattening lists these elements. *)
LEMMA FlattenChosen ==
  ASSUME NEW S, NEW ss, NEW n, NEW p, NEW v, Chosen(S, ss, n, p, v)
  PROVE  FlattenSeq(ss) = v
<1> SUFFICES ASSUME ss \in Seq(Seq(S)), n \in Nat,
                    p \in [1..n -> 1..Len(ss)], v \in [1..n -> S],
                    \A j, k \in 1..n : j < k => p[j] < p[k],
                    \A k \in 1..n : ss[p[k]] = << v[k] >>,
                    \A i \in 1..Len(ss) : (\A k \in 1..n : p[k] # i) => ss[i] = <<>>
             PROVE  FlattenSeq(ss) = v
  BY DEF Chosen
<1>1. PICK m \in Nat : m = Len(ss)
  BY LenProperties
<1>2. /\ p \in [1..n -> 1..m]
      /\ \A i \in 1..m : (\A k \in 1..n : p[k] # i) => ss[i] = <<>>
  BY <1>1
<1>3. v \in Seq(S) /\ Len(v) = n
  OBVIOUS
<1> DEFINE Upto(l, k) == \A j \in 1..n : p[j] <= l <=> j <= k
           F(l) == FlattenSeq(SubSeq(ss, 1, l))
           T == {l \in 0..m : \A k \in 0..n : Upto(l, k) => F(l) = SubSeq(v, 1, k)}
<1>4. \A l \in 1..m : F(l) = F(l-1) \o ss[l] /\ F(l-1) \in Seq(S)
  BY <1>1, FlattenPrefix, FlattenType
<1>5. 0 \in T
  <2> SUFFICES ASSUME NEW k \in 0..n, Upto(0, k)  PROVE F(0) = SubSeq(v, 1, k)
    OBVIOUS
  <2>1. k = 0
    <3> SUFFICES ASSUME k \in 1..n  PROVE FALSE
      OBVIOUS
    <3>1. p[k] <= 0
      OBVIOUS
    <3>. QED  BY <3>1, <1>2
  <2>2. SubSeq(ss, 1, 0) = <<>> /\ SubSeq(v, 1, 0) = <<>>
    BY SubSeqEmpty
  <2>. QED  BY <2>1, <2>2, FlattenEmpty
<1>6. ASSUME NEW l \in 0..(m-1), l \in T  PROVE l + 1 \in T
  <2> HIDE DEF Upto, F
  <2> SUFFICES ASSUME NEW k \in 0..n, Upto(l + 1, k)  PROVE F(l + 1) = SubSeq(v, 1, k)
    OBVIOUS
  <2> USE DEF Upto, F
  <2>0. l + 1 \in 1..m /\ (l + 1) - 1 = l
    OBVIOUS
  <2>1. F(l + 1) = F(l) \o ss[l+1] /\ F(l) \in Seq(S)
    <3> HIDE DEF F
    <3>. QED  BY <1>4, <2>0
  <2>2. CASE \A j \in 1..n : p[j] # l + 1
    <3>1. Upto(l, k)
      BY <1>2, <2>2
    <3>2. ss[l+1] = <<>>
      BY <1>2, <2>0, <2>2
    <3>3. F(l) = SubSeq(v, 1, k)
      BY <1>6, <3>1
    <3> HIDE DEF F
    <3>. QED  BY <2>1, <3>2, <3>3, ConcatEmptySeq
  <2>3. ASSUME NEW j \in 1..n, p[j] = l + 1  PROVE F(l + 1) = SubSeq(v, 1, k)
    <3>1. j <= k
      BY <2>3
    <3>2. j = k
      <4> SUFFICES ASSUME j < k  PROVE FALSE
        BY <3>1
      <4>1. k \in 1..n /\ p[k] <= l + 1 /\ p[j] < p[k] /\ p[k] \in Int
        OBVIOUS
      <4>. QED  BY <2>3, <4>1
    <3>3. k \in 1..n /\ k - 1 \in 0..n /\ p[k] = l + 1
      BY <2>3, <3>2
    <3>4. Upto(l, k - 1)
      <4> SUFFICES ASSUME NEW i \in 1..n  PROVE p[i] <= l <=> i <= k - 1
        OBVIOUS
      <4>1. i < k => p[i] < p[k]
        BY <3>3
      <4>2. i > k => p[k] < p[i]
        BY <3>3
      <4>3. p[i] \in Int /\ p[k] \in Int
        BY <3>3
      <4>. QED  BY <3>3, <4>1, <4>2, <4>3
    <3>5. F(l) = SubSeq(v, 1, k - 1)
      BY <1>6, <3>3, <3>4
    <3>6. ss[l+1] = << v[k] >>
      BY <3>3
    <3>7. SubSeq(v, 1, k) = SubSeq(v, 1, k - 1) \o << v[k] >>
      <4>1. 1 \in 1..Len(v) /\ k \in 1..Len(v)
        BY <1>3, <3>3
      <4>. QED  BY <1>3, <4>1, SubSeqRecursiveSecond
    <3> HIDE DEF F
    <3>. QED  BY <2>1, <3>5, <3>6, <3>7
  <2>. QED  BY <2>2, <2>3
<1>7. m \in T
  <2> HIDE DEF T
  <2>1. \A l \in 0..m : l \in T
    BY <1>5, <1>6, IntervalInduct
  <2>. QED  BY <2>1
<1>8. F(m) = SubSeq(v, 1, n)
  <2>1. Upto(m, n)
    BY <1>2
  <2> HIDE DEF Upto, F
  <2>. QED  BY <1>7, <2>1
<1>9. F(m) = FlattenSeq(ss)
  BY <1>1, SubSeqFull
<1>. QED  BY <1>3, <1>8, <1>9, SubSeqFull

(* Where each part lies in the flattened sequence: e[k] is where part k    *)
(* ends. Every position lies in some part.                                 *)
Segments(ss, e) ==
  /\ e \in [0..Len(ss) -> Nat] /\ e[0] = 0 /\ e[Len(ss)] = Len(FlattenSeq(ss))
  /\ \A k \in 1..Len(ss) :
       /\ e[k] = e[k-1] + Len(ss[k])
       /\ e[k] <= e[Len(ss)]
       /\ \A i \in 1..Len(ss[k]) : FlattenSeq(ss)[e[k-1] + i] = ss[k][i]
  /\ \A i \in 1..e[Len(ss)] : \E k \in 1..Len(ss) : e[k-1] < i /\ i <= e[k]

LEMMA FlattenSegments ==
  ASSUME NEW S, NEW ss \in Seq(Seq(S))
  PROVE  \E e : Segments(ss, e)
<1>1. PICK n \in Nat : n = Len(ss)
  BY LenProperties
<1>2. PICK g \in [0..n -> Seq(S)] :
        g[0] = <<>> /\ \A i \in 1..n : g[i] = g[i-1] \o ss[i]
  BY <1>1, FlattenFoldExists
<1>3. FlattenSeq(ss) = g[n]
  BY <1>1, <1>2, FlattenFold
<1>4. \A k \in 0..n : g[k] \in Seq(S) /\ Len(g[k]) \in Nat
  BY <1>2, LenProperties
<1>5. \A k \in 1..n : ss[k] \in Seq(S) /\ Len(ss[k]) \in Nat
  BY <1>1, ElementOfSeq, LenProperties
<1>6. PICK e \in [0..n -> Nat] : \A k \in 0..n : e[k] = Len(g[k])
  <2> DEFINE f == [k \in 0..n |-> Len(g[k])]
  <2>1. f \in [0..n -> Nat] /\ \A k \in 0..n : f[k] = Len(g[k])
    BY <1>4
  <2> HIDE DEF f
  <2>. QED  BY <2>1
<1>7. ASSUME NEW k \in 1..n
      PROVE  /\ e[k] = e[k-1] + Len(ss[k])
             /\ \A i \in 1..Len(g[k-1]) : g[k][i] = g[k-1][i]
             /\ \A i \in 1..Len(ss[k]) : g[k][e[k-1] + i] = ss[k][i]
  <2>1. k - 1 \in 0..n /\ k \in 0..n
    OBVIOUS
  <2>2. PICK a \in Seq(S) : a = g[k-1]
    BY <1>2, <2>1
  <2>3. PICK b \in Seq(S) : b = ss[k]
    BY <1>5
  <2>4. g[k] = a \o b
    BY <1>2, <2>2, <2>3
  <2>5. Len(a) \in Nat /\ Len(b) \in Nat
    BY LenProperties
  <2>6. /\ Len(a \o b) = Len(a) + Len(b)
        /\ \A i \in 1..(Len(a) + Len(b)) :
             (a \o b)[i] = IF i <= Len(a) THEN a[i] ELSE b[i - Len(a)]
    BY ConcatProperties
  <2>7. \A i \in 1..Len(a) : (a \o b)[i] = a[i]
    BY <2>5, <2>6
  <2>8. ASSUME NEW i \in 1..Len(b)  PROVE (a \o b)[Len(a) + i] = b[i]
    <3>1. Len(a) + i \in 1..(Len(a) + Len(b)) /\ ~(Len(a) + i <= Len(a))
          /\ (Len(a) + i) - Len(a) = i
      BY <2>5
    <3>. QED  BY <2>6, <3>1
  <2>9. e[k] = Len(a \o b) /\ e[k-1] = Len(a)
    BY <1>6, <2>1, <2>2, <2>4
  <2>. QED  BY <2>2, <2>3, <2>4, <2>6, <2>7, <2>8, <2>9
<1>8. ASSUME NEW k \in 1..n
      PROVE  e[k] <= e[n] /\ \A i \in 1..e[k] : g[n][i] = g[k][i]
  <2> DEFINE T == {m \in 0..n : k <= m =>
                     e[k] <= e[m] /\ \A i \in 1..e[k] : g[m][i] = g[k][i]}
  <2>1. 0 \in T
    OBVIOUS
  <2>2. ASSUME NEW m \in 0..(n-1), m \in T  PROVE m + 1 \in T
    <3>1. CASE k = m + 1
      BY <3>1
    <3>2. CASE k <= m
      <4>1. PICK j \in 1..n : j = m + 1
        OBVIOUS
      <4>2. j - 1 = m /\ m \in 0..n /\ j \in 0..n /\ k \in 0..n
        BY <4>1
      <4>3. e[j] = e[m] + Len(ss[j]) /\ \A i \in 1..e[m] : g[j][i] = g[m][i]
        BY <1>6, <1>7, <4>2
      <4>4. e[m] \in Nat /\ e[k] \in Nat /\ e[j] \in Nat /\ Len(ss[j]) \in Nat
        BY <1>5, <1>6, <4>2
      <4>5. e[k] <= e[m] /\ \A i \in 1..e[k] : g[m][i] = g[k][i]
        BY <2>2, <3>2
      <4>6. e[k] <= e[j]
        <5>1. e[k] <= e[m] /\ e[j] = e[m] + Len(ss[j])
          BY <4>3, <4>5
        <5>2. PICK l \in Nat : l = Len(ss[j])
          BY <4>4
        <5>3. PICK x \in Nat : x = e[m]
          BY <4>4
        <5>4. e[k] <= x /\ e[j] = x + l /\ e[k] \in Nat
          BY <4>4, <5>1, <5>2, <5>3
        <5>. QED  BY ONLY <5>4
      <4>7. ASSUME NEW i \in 1..e[k]  PROVE g[j][i] = g[k][i]
        <5>1. i \in 1..e[m]
          BY <4>4, <4>5
        <5>. QED  BY <4>3, <4>5, <5>1
      <4>. QED  BY <4>1, <4>2, <4>6, <4>7
    <3>3. CASE k > m + 1
      BY <3>3
    <3>. QED  BY <3>1, <3>2, <3>3
  <2>3. n \in T
    <3> HIDE DEF T
    <3>1. \A m \in 0..n : m \in T
      BY <2>1, <2>2, IntervalInduct
    <3>. QED  BY <3>1
  <2>. QED  BY <2>3
<1>9. ASSUME NEW i \in 1..e[n]  PROVE \E k \in 1..n : e[k-1] < i /\ i <= e[k]
  <2> DEFINE T == {k \in 0..n : i <= e[k]}
  <2>1. T \subseteq Nat /\ n \in T
    BY <1>6
  <2>2. PICK k \in T : \A j \in T : k <= j
    BY <2>1, NatLeast
  <2>3. k # 0
    <3>1. e[0] = 0
      BY <1>2, <1>6, EmptySeq
    <3>. QED  BY <2>2, <3>1
  <2>4. k \in 1..n /\ k - 1 \in 0..n /\ k - 1 \notin T
    BY <2>2, <2>3
  <2>5. e[k-1] < i
    BY <1>6, <2>4
  <2>. QED  BY <2>2, <2>4, <2>5
<1>10. ASSUME NEW k \in 1..n, NEW i \in 1..Len(ss[k])
       PROVE  g[n][e[k-1] + i] = ss[k][i]
  <2>1. k - 1 \in 0..n /\ k \in 0..n /\ e[k-1] \in Nat /\ Len(ss[k]) \in Nat
    BY <1>5, <1>6
  <2>2. e[k-1] + i \in 1..e[k]
    <3>1. PICK l \in Nat : l = Len(ss[k])
      BY <2>1
    <3>2. PICK a \in Nat : a = e[k-1]
      BY <2>1
    <3>3. e[k] = a + l
      BY <1>7, <3>1, <3>2
    <3>4. i \in 1..l
      BY <3>1
    <3>5. a + i \in 1..(a + l)
      BY <3>4
    <3>6. a + i \in 1..e[k]
      BY <3>3, <3>5
    <3>. QED  BY <3>2, <3>6
  <2>3. g[n][e[k-1] + i] = g[k][e[k-1] + i]
    BY <1>8, <2>2
  <2>4. g[k][e[k-1] + i] = ss[k][i]
    BY <1>7
  <2>. QED  BY <2>3, <2>4
<1>11. e[0] = 0 /\ e[n] = Len(FlattenSeq(ss))
  <2>1. 0 \in 0..n /\ n \in 0..n
    OBVIOUS
  <2>. QED  BY <1>2, <1>3, <1>6, <2>1, EmptySeq
<1>12. Segments(ss, e)
  <2>1. e \in [0..n -> Nat] /\ e[0] = 0 /\ e[n] = Len(g[n])
    BY <1>3, <1>6, <1>11
  <2>2. \A k \in 1..n : e[k] = e[k-1] + Len(ss[k]) /\ e[k] <= e[n]
    BY <1>7, <1>8
  <2>3. \A k \in 1..n : \A i \in 1..Len(ss[k]) : g[n][e[k-1] + i] = ss[k][i]
    BY <1>10
  <2>4. \A i \in 1..e[n] : \E k \in 1..n : e[k-1] < i /\ i <= e[k]
    BY <1>9
  <2>. QED  BY ONLY <1>1, <1>3, <2>1, <2>2, <2>3, <2>4 DEF Segments
<1>. QED  BY <1>12

-----------------------------------------------------------------------------
(* Min and Max of the community modules, and slices of a sequence.          *)
LEMMA MinIs ==
  ASSUME NEW T \in SUBSET Nat, NEW x \in T, \A y \in T : x <= y
  PROVE  Min(T) = x
<1>1. Min(T) \in T /\ \A y \in T : Min(T) <= y
  BY DEF Min
<1>2. Min(T) \in Nat /\ x \in Nat /\ x <= Min(T) /\ Min(T) <= x
  BY <1>1
<1>. QED  BY <1>2

LEMMA MaxIs ==
  ASSUME NEW T \in SUBSET Nat, NEW x \in T, \A y \in T : y <= x
  PROVE  Max(T) = x
<1>1. Max(T) \in T /\ \A y \in T : Max(T) >= y
  BY DEF Max
<1>2. Max(T) \in Nat /\ x \in Nat /\ x <= Max(T) /\ Max(T) <= x
  BY <1>1
<1>. QED  BY <1>2

LEMMA MinLeast ==
  ASSUME NEW T \in SUBSET Nat, T # {}
  PROVE  Min(T) \in T /\ \A y \in T : Min(T) <= y
<1>1. PICK x \in T : \A y \in T : x <= y
  BY NatLeast
<1>. QED  BY <1>1, MinIs

LEMMA MaxGreatest ==
  ASSUME NEW m \in Nat, NEW T \in SUBSET (0..m), T # {}
  PROVE  Max(T) \in T /\ \A y \in T : y <= Max(T)
<1> DEFINE U == {m - x : x \in T}
<1>1. U \in SUBSET Nat /\ U # {}
  <2>1. \A x \in T : m - x \in Nat
    OBVIOUS
  <2>. QED  BY <2>1
<1>2. PICK u \in U : \A y \in U : u <= y
  BY <1>1, NatLeast
<1>3. PICK x \in T : u = m - x
  BY <1>2
<1>4. \A y \in T : y <= x
  <2>1. ASSUME NEW y \in T  PROVE y <= x
    <3>1. u <= m - y
      BY <1>2
    <3>. QED  BY <1>3, <3>1
  <2>. QED  BY <2>1
<1>5. T \in SUBSET Nat
  OBVIOUS
<1>. QED  BY <1>4, <1>5, MaxIs

LEMMA Slice ==
  ASSUME NEW S, NEW s \in Seq(S), NEW a \in Nat, NEW b \in Int,
         1 <= a, a - 1 <= b, b <= Len(s)
  PROVE  /\ SubSeq(s, a, b) \in Seq(S) /\ Len(SubSeq(s, a, b)) = b - a + 1
         /\ \A i \in 1..(b - a + 1) : SubSeq(s, a, b)[i] = s[a + i - 1]
<1>1. Len(s) \in Nat
  BY LenProperties
<1>2. ASSUME NEW i \in a..b  PROVE s[i] \in S
  <2>1. i \in 1..Len(s)
    BY <1>1
  <2>. QED  BY <2>1, ElementOfSeq
<1>3. /\ SubSeq(s, a, b) \in Seq(S)
      /\ Len(SubSeq(s, a, b)) = IF a <= b THEN b - a + 1 ELSE 0
      /\ \A i \in 1..(b - a + 1) : SubSeq(s, a, b)[i] = s[a + i - 1]
  BY <1>2, SubSeqProperties
<1>. QED  BY <1>3

(* u is s followed by t, line by line. *)
Joined(u, s, t) ==
  /\ Len(u) = Len(s) + Len(t)
  /\ \A i \in 1..Len(s) : u[i] = s[i]
  /\ \A i \in 1..Len(t) : u[Len(s) + i] = t[i]

LEMMA Join ==
  ASSUME NEW S, NEW s \in Seq(S), NEW t \in Seq(S), NEW u, u = s \o t
  PROVE  Joined(u, s, t)
<1>1. PICK m \in Nat : m = Len(s)
  BY LenProperties
<1>2. PICK n \in Nat : n = Len(t)
  BY LenProperties
<1>3. /\ Len(s \o t) = m + n
      /\ \A i \in 1..(m + n) : (s \o t)[i] = IF i <= m THEN s[i] ELSE t[i - m]
  BY <1>1, <1>2, ConcatProperties
<1>4. ASSUME NEW i \in 1..m  PROVE (s \o t)[i] = s[i]
  <2>1. i \in 1..(m + n) /\ i <= m
    OBVIOUS
  <2>. QED  BY <1>3, <2>1
<1>5. ASSUME NEW i \in 1..n  PROVE (s \o t)[m + i] = t[i]
  <2>1. m + i \in 1..(m + n) /\ ~(m + i <= m) /\ (m + i) - m = i
    OBVIOUS
  <2>. QED  BY <1>3, <2>1
<1>. QED  BY <1>1, <1>2, <1>3, <1>4, <1>5 DEF Joined

LEMMA JoinAll ==
  ASSUME NEW S
  PROVE  /\ \A s, t \in Seq(S) : s \o t \in Seq(S) /\ Joined(s \o t, s, t)
         /\ \A s, t, u \in Seq(S) : (s \o t) \o u = s \o (t \o u)
<1>1. \A s, t \in Seq(S) : s \o t \in Seq(S)
  BY ConcatProperties
<1>2. \A s, t \in Seq(S) : Joined(s \o t, s, t)
  BY Join
<1>3. \A s, t, u \in Seq(S) : (s \o t) \o u = s \o (t \o u)
  BY ConcatAssociative
<1>. QED  BY <1>1, <1>2, <1>3

LEMMA SliceIs ==
  ASSUME NEW S, NEW s \in Seq(S), NEW t \in Seq(S), NEW x \in Nat, NEW y \in Int, 1 <= x,
         y = x - 1 + Len(t), y <= Len(s), \A j \in 1..Len(t) : s[x - 1 + j] = t[j]
  PROVE  SubSeq(s, x, y) = t
<1>1. PICK n \in Nat : n = Len(t)
  BY LenProperties
<1>2. x - 1 <= y /\ y - x + 1 = n
  BY <1>1
<1>3. PICK u \in Seq(S) : u = SubSeq(s, x, y)
  BY <1>2, Slice
<1>4. Len(u) = n /\ \A i \in 1..n : u[i] = s[x + i - 1]
  BY <1>2, <1>3, Slice
<1>5. ASSUME NEW i \in 1..n  PROVE u[i] = t[i]
  <2>1. x + i - 1 = x - 1 + i
    OBVIOUS
  <2>. QED  BY <1>1, <1>4, <2>1
<1>. QED  BY <1>1, <1>3, <1>4, <1>5, SeqEqual

(* s without its element i, and s itself, in two parts. *)
Around(S, s, i, before, after) ==
  /\ before \in Seq(S) /\ after \in Seq(S) /\ s[i] \in S
  /\ s = (before \o <<s[i]>>) \o after
  /\ RemoveAt(s, i) = before \o after

LEMMA RemoveSplits ==
  ASSUME NEW S, NEW s \in Seq(S), NEW i \in 1..Len(s)
  PROVE  \E before, after : Around(S, s, i, before, after)
<1>1. PICK n \in Nat : n = Len(s)
  BY LenProperties
<1>2. i \in Nat /\ 1 <= i /\ i <= n
  BY <1>1
<1>3. PICK before \in Seq(S) : before = SubSeq(s, 1, i - 1)
  <2>1. PICK b \in Int : b = i - 1
    BY <1>2
  <2>2. 1 - 1 <= b /\ b <= Len(s)
    BY <1>1, <1>2, <2>1
  <2>3. SubSeq(s, 1, b) \in Seq(S)
    BY <2>2, Slice
  <2>. QED  BY <2>1, <2>3
<1>4. PICK after \in Seq(S) : after = SubSeq(s, i + 1, n)
  <2>1. PICK a \in Nat : a = i + 1
    BY <1>2
  <2>2. 1 <= a /\ a - 1 <= n /\ n <= Len(s)
    BY <1>1, <1>2, <2>1
  <2>3. SubSeq(s, a, n) \in Seq(S)
    BY <2>2, Slice
  <2>. QED  BY <2>1, <2>3
<1>5. s[i] \in S
  BY ElementOfSeq
<1>6. before \o <<s[i]>> = SubSeq(s, 1, i)
  <2>1. 1 \in 1..Len(s) /\ i \in 1..Len(s)
    BY <1>1, <1>2
  <2>. QED  BY <1>3, <2>1, SubSeqRecursiveSecond
<1>7. SubSeq(s, 1, i) \o SubSeq(s, i + 1, n) = s
  <2>1. 1 \in 1..(Len(s) + 1) /\ i \in (1 - 1)..Len(s) /\ n \in i..Len(s)
    BY <1>1, <1>2
  <2>2. SubSeq(s, 1, i) \o SubSeq(s, i + 1, n) = SubSeq(s, 1, n)
    BY <2>1, ConcatAdjacentSubSeq
  <2>. QED  BY <1>1, <2>2, SubSeqFull
<1>8. RemoveAt(s, i) = before \o after
  BY <1>1, <1>3, <1>4 DEF RemoveAt
<1>. QED  BY <1>3, <1>4, <1>5, <1>6, <1>7, <1>8 DEF Around
=============================================================================
