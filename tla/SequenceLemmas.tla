---------------------------- MODULE SequenceLemmas ----------------------------
(***************************************************************************)
(* Facts about sequences and sets of numbers used by the proofs.  What is  *)
(* proved by induction is proved from the least number that would be left  *)
(* out (SetInduction).                                                     *)
(***************************************************************************)
EXTENDS Integers, SequencesExt, FiniteSetTheorems, SequenceTheorems, TLAPS

(* What is in a list is at its head or in the rest of it. *)
LEMMA RangeOfTail ==
  ASSUME NEW S, NEW s \in Seq(S), s # <<>>
  PROVE  /\ Range(s) = {Head(s)} \cup Range(Tail(s))
         /\ Head(s) \in S
<1>1. /\ Len(s) \in Nat /\ Len(s) # 0 /\ DOMAIN s = 1 .. Len(s)
      /\ DOMAIN Tail(s) = 1 .. (Len(s) - 1)
      /\ Head(s) = s[1]
      /\ \A i \in 1 .. (Len(s) - 1) : Tail(s)[i] = s[i + 1]
  OBVIOUS
<1>2. ASSUME NEW i \in DOMAIN s
      PROVE  s[i] \in {Head(s)} \cup Range(Tail(s))
  <2>1. CASE i = 1
    BY <1>1, <2>1
  <2>2. CASE i # 1
    <3>1. i - 1 \in DOMAIN Tail(s) /\ Tail(s)[i - 1] = s[i]
      BY <1>1, <2>2
    <3> QED BY <3>1 DEF Range
  <2> QED BY <2>1, <2>2
<1>3. Range(s) \subseteq {Head(s)} \cup Range(Tail(s))
  BY <1>2 DEF Range
<1>4. Head(s) \in Range(s)
  BY <1>1 DEF Range
<1>5. Range(Tail(s)) \subseteq Range(s)
  <2>1. ASSUME NEW i \in DOMAIN Tail(s)
        PROVE  i + 1 \in DOMAIN s /\ Tail(s)[i] = s[i + 1]
    BY <1>1
  <2> QED BY <2>1 DEF Range
<1> QED BY <1>1, <1>3, <1>4, <1>5

-----------------------------------------------------------------------------
(* Induction, and the least and the greatest.                                 *)

(* The smallest number that is not in S would follow one that is. *)
LEMMA SetInduction ==
  ASSUME NEW S, 0 \in S, \A n \in Nat : n \in S => n + 1 \in S
  PROVE  Nat \subseteq S
<1> DEFINE T == Nat \ S
           R == OpToRel(<, Nat)
<1>1. SUFFICES ASSUME T # {} PROVE FALSE
  OBVIOUS
<1>2. \A m, n \in Nat : m < n => <<m, n>> \in R
  BY DEF OpToRel
<1>3. PICK n \in T : \A m \in T : ~ (<<m, n>> \in R)
  <2> HIDE DEF R
  <2>1. IsWellFoundedOn(R, Nat)
    BY NatLessThanWellFounded DEF R
  <2>2. T \subseteq Nat
    OBVIOUS
  <2> HIDE DEF T
  <2> QED BY <1>1, <2>1, <2>2, WFMin
<1> HIDE DEF R
<1>4. n # 0 /\ n \in Nat /\ n - 1 \in Nat /\ n - 1 < n
  BY <1>3
<1>5. n - 1 \notin T
  BY <1>2, <1>3, <1>4
<1>6. (n - 1) + 1 \in S
  BY <1>4, <1>5
<1> QED BY <1>3, <1>4, <1>6

(* What is kept by appending holds for every list. *)
LEMMA AppendInduction ==
  ASSUME NEW S, NEW T, <<>> \in T, \A s \in Seq(S), e \in S : s \in T => Append(s, e) \in T
  PROVE  Seq(S) \subseteq T
<1> DEFINE Lengths == {n \in Nat : \A s \in Seq(S) : Len(s) = n => s \in T}
<1>1. 0 \in Lengths
  <2>1. \A s \in Seq(S) : Len(s) = 0 => s = <<>>
    OBVIOUS
  <2> QED BY <2>1
<1>2. ASSUME NEW n \in Nat, n \in Lengths
      PROVE  n + 1 \in Lengths
  <2>1. ASSUME NEW s \in Seq(S), Len(s) = n + 1
        PROVE  s \in T
    <3> DEFINE front == SubSeq(s, 1, n)
               last == s[n + 1]
    <3>1. front \in Seq(S) /\ Len(front) = n /\ last \in S /\ s = Append(front, last)
      BY <2>1
    <3> HIDE DEF front, last
    <3> QED BY <1>2, <3>1
  <2> QED BY <2>1
<1>3. Nat \subseteq Lengths
  <2> HIDE DEF Lengths
  <2> QED BY <1>1, <1>2, SetInduction
<1>4. \A s \in Seq(S) : Len(s) \in Nat
  OBVIOUS
<1> QED BY <1>3, <1>4

(* Some numbers up to n have a least and a greatest one. *)
LEMMA Extremes ==
  ASSUME NEW n \in Nat, NEW at \in SUBSET (1 .. n), at # {}
  PROVE  /\ Max(at) \in at /\ \A i \in at : i <= Max(at)
         /\ Min(at) \in at /\ \A i \in at : Min(at) <= i
<1> DEFINE S == {m \in Nat : \A s \in SUBSET (1 .. m) : s # {} =>
                   /\ \E x \in s : \A y \in s : x >= y
                   /\ \E x \in s : \A y \in s : x <= y}
<1>1. 0 \in S
  <2>1. \A s \in SUBSET (1 .. 0) : s = {}
    OBVIOUS
  <2> QED BY <2>1
<1>2. ASSUME NEW m \in Nat, m \in S
      PROVE  m + 1 \in S
  <2>1. ASSUME NEW s \in SUBSET (1 .. (m + 1)), s # {}
        PROVE  /\ \E x \in s : \A y \in s : x >= y
               /\ \E x \in s : \A y \in s : x <= y
    <3> DEFINE rest == s \ {m + 1}
    <3>1. rest \in SUBSET (1 .. m)
      OBVIOUS
    <3>2. \A y \in s : y \in Nat /\ y <= m + 1
      OBVIOUS
    <3>3. \E x \in s : \A y \in s : x >= y
      <4>1. CASE m + 1 \in s
        <5>1. \A y \in s : m + 1 >= y
          BY <3>2
        <5> QED BY <4>1, <5>1
      <4>2. CASE m + 1 \notin s
        BY <1>2, <2>1, <3>1, <4>2
      <4> QED BY <4>1, <4>2
    <3>4. \E x \in s : \A y \in s : x <= y
      <4>1. CASE rest = {}
        <5>1. s = {m + 1}
          BY <2>1, <4>1
        <5> QED BY <5>1
      <4>2. CASE rest # {}
        <5>1. PICK x \in rest : \A y \in rest : x <= y
          BY <1>2, <3>1, <4>2
        <5>2. \A y \in s : x <= y
          BY <3>2, <5>1
        <5> QED BY <5>1, <5>2
      <4> QED BY <4>1, <4>2
    <3> QED BY <3>3, <3>4
  <2> QED BY <2>1
<1>3. Nat \subseteq S
  <2> HIDE DEF S
  <2> QED BY <1>1, <1>2, SetInduction
<1>4. n \in S
  BY <1>3
<1>5. (\E x \in at : \A y \in at : x >= y) /\ (\E x \in at : \A y \in at : x <= y)
  BY <1>4
<1>6. Max(at) \in at /\ \A y \in at : Max(at) >= y
  BY <1>5 DEF Max
<1>7. Min(at) \in at /\ \A y \in at : Min(at) <= y
  BY <1>5 DEF Min
<1>8. \A i \in at : i \in Nat
  OBVIOUS
<1> QED BY <1>6, <1>7, <1>8

-----------------------------------------------------------------------------
(* Lists of lists, and lists with each element replaced.                      *)

(* The function that FlattenSeq is defined by exists. *)
Flattened(flat, i, seqs) == IF i = 1 THEN seqs[i] ELSE flat[i - 1] \o seqs[i]

LEMMA FlattenExists ==
  ASSUME NEW seqs, NEW n \in Nat
  PROVE  \E flat : flat = [i \in 1 .. n |-> Flattened(flat, i, seqs)]
<1> DEFINE Is(flat, m) == flat = [i \in 1 .. m |-> Flattened(flat, i, seqs)]
           S == {m \in Nat : \E flat : Is(flat, m)}
<1>1. 0 \in S
  <2>1. 1 .. 0 = {}
    OBVIOUS
  <2>2. <<>> = [i \in 1 .. 0 |-> Flattened(<<>>, i, seqs)]
    BY <2>1
  <2> QED BY <2>2
<1>2. ASSUME NEW m \in Nat, m \in S
      PROVE  m + 1 \in S
  <2>1. PICK flat : Is(flat, m)
    BY <1>2
  <2> DEFINE more == [i \in 1 .. (m + 1) |->
                       IF i = m + 1 THEN Flattened(flat, m + 1, seqs) ELSE flat[i]]
  <2>2. ASSUME NEW i \in 1 .. (m + 1)
        PROVE  more[i] = Flattened(more, i, seqs)
    <3>1. i # 1 => i - 1 \in 1 .. (m + 1) /\ i - 1 # m + 1
      BY <2>2
    <3>2. i # 1 => more[i - 1] = flat[i - 1]
      BY <3>1
    <3>3. Flattened(more, i, seqs) = Flattened(flat, i, seqs)
      BY <3>2 DEF Flattened
    <3>4. CASE i = m + 1
      BY <3>3, <3>4
    <3>5. CASE i # m + 1
      <4>1. i \in 1 .. m
        BY <3>5
      <4>2. flat[i] = Flattened(flat, i, seqs)
        BY <2>1, <4>1
      <4> QED BY <3>3, <3>5, <4>2
    <3> QED BY <3>4, <3>5
  <2>3. more = [i \in 1 .. (m + 1) |-> more[i]]
    OBVIOUS
  <2> HIDE DEF more
  <2>4. Is(more, m + 1)
    BY <2>2, <2>3
  <2> QED BY <2>4
<1>3. Nat \subseteq S
  <2> HIDE DEF S
  <2> QED BY <1>1, <1>2, SetInduction
<1> QED BY <1>3

LEMMA FlattenIs ==
  ASSUME NEW seqs, Len(seqs) \in Nat, Len(seqs) # 0
  PROVE  \E flat : /\ \A i \in 1 .. Len(seqs) : flat[i] = Flattened(flat, i, seqs)
                   /\ FlattenSeq(seqs) = flat[Len(seqs)]
<1> DEFINE Is(flat) == flat = [i \in 1 .. Len(seqs) |-> Flattened(flat, i, seqs)]
           f == CHOOSE flat : Is(flat)
<1>1. Is(f)
  <2>1. \E flat : Is(flat)
    BY FlattenExists
  <2> QED BY <2>1
<1>2. FlattenSeq(seqs) = f[Len(seqs)]
  BY DEF FlattenSeq, Flattened
<1> HIDE DEF f
<1>3. \A i \in 1 .. Len(seqs) : f[i] = Flattened(f, i, seqs)
  BY <1>1
<1> QED BY <1>2, <1>3

(* What is appended to a list of lists ends the flat one. *)
LEMMA FlattenAppend ==
  ASSUME NEW S, NEW seqs \in Seq(Seq(S)), NEW s \in Seq(S)
  PROVE  /\ FlattenSeq(<<>>) = <<>>
         /\ seqs # <<>> => FlattenSeq(Append(seqs, s)) = FlattenSeq(seqs) \o s
         /\ FlattenSeq(Append(<<>>, s)) = s
<1>1. FlattenSeq(<<>>) = <<>>
  BY DEF FlattenSeq
<1> DEFINE more == Append(seqs, s)
           n == Len(seqs)
<1>2. /\ n \in Nat /\ Len(more) = n + 1 /\ more[n + 1] = s
      /\ \A i \in 1 .. n : more[i] = seqs[i]
  OBVIOUS
<1> HIDE DEF more, n
<1>3. ASSUME n # 0
      PROVE  FlattenSeq(more) = FlattenSeq(seqs) \o s
  <2>1. PICK f : /\ \A i \in 1 .. n : f[i] = Flattened(f, i, seqs)
                 /\ FlattenSeq(seqs) = f[n]
    BY <1>2, <1>3, FlattenIs DEF n
  <2>2. PICK g : /\ \A i \in 1 .. (n + 1) : g[i] = Flattened(g, i, more)
                 /\ FlattenSeq(more) = g[n + 1]
    <3>1. Len(more) \in Nat /\ Len(more) # 0
      BY <1>2
    <3> QED BY <1>2, <3>1, FlattenIs
  <2> DEFINE T == {m \in Nat : m \in 1 .. n => g[m] = f[m]}
  <2>3. 0 \in T
    OBVIOUS
  <2>4. ASSUME NEW m \in Nat, m \in T
        PROVE  m + 1 \in T
    <3>1. CASE m + 1 \in 1 .. n
      <4>1. m + 1 \in 1 .. (n + 1) /\ (m + 1) - 1 = m
        BY <1>2, <3>1
      <4>2. g[m + 1] = Flattened(g, m + 1, more) /\ f[m + 1] = Flattened(f, m + 1, seqs)
        BY <2>1, <2>2, <3>1, <4>1
      <4>3. CASE m = 0
        <5>1. m + 1 = 1
          BY <4>3
        <5>2. g[1] = more[1] /\ f[1] = seqs[1] /\ more[1] = seqs[1]
          BY <1>2, <3>1, <4>2, <5>1 DEF Flattened
        <5> QED BY <5>1, <5>2
      <4>4. CASE m # 0
        <5>1. m \in 1 .. n
          BY <1>2, <3>1, <4>4
        <5>2. g[m] = f[m]
          BY <2>4, <5>1
        <5> QED BY <1>2, <3>1, <4>1, <4>2, <4>4, <5>2 DEF Flattened
      <4> QED BY <4>3, <4>4
    <3>2. CASE m + 1 \notin 1 .. n
      BY <3>2
    <3> QED BY <3>1, <3>2
  <2>5. Nat \subseteq T
    <3> HIDE DEF T
    <3> QED BY <2>3, <2>4, SetInduction
  <2>6. g[n] = f[n]
    BY <1>2, <1>3, <2>5
  <2>7. g[n + 1] = g[n] \o more[n + 1]
    <3>1. n + 1 \in 1 .. (n + 1) /\ n + 1 # 1 /\ (n + 1) - 1 = n
      BY <1>2, <1>3
    <3> QED BY <2>2, <3>1 DEF Flattened
  <2> QED BY <1>2, <2>1, <2>2, <2>6, <2>7
<1>4. FlattenSeq(Append(<<>>, s)) = s
  <2> DEFINE one == Append(<<>>, s)
  <2>1. Len(one) = 1 /\ one[1] = s
    OBVIOUS
  <2> HIDE DEF one
  <2>2. PICK g : /\ \A i \in 1 .. Len(one) : g[i] = Flattened(g, i, one)
                 /\ FlattenSeq(one) = g[Len(one)]
    <3>1. Len(one) \in Nat /\ Len(one) # 0
      BY <2>1
    <3> QED BY <3>1, FlattenIs
  <2>3. 1 \in 1 .. 1
    OBVIOUS
  <2> QED BY <2>1, <2>2, <2>3 DEF Flattened, one
<1>5. seqs # <<>> => n # 0
  BY DEF n
<1> QED BY <1>1, <1>3, <1>4, <1>5 DEF more

LEMMA FlattenStep ==
  ASSUME NEW S, NEW seqs \in Seq(Seq(S)), NEW s \in Seq(S)
  PROVE  /\ FlattenSeq(seqs) \in Seq(S)
         /\ FlattenSeq(Append(seqs, s)) = FlattenSeq(seqs) \o s
<1> DEFINE T == {q \in Seq(Seq(S)) : FlattenSeq(q) \in Seq(S)}
<1>1. <<>> \in T
  <2>1. <<>> \in Seq(Seq(S)) /\ <<>> \in Seq(S)
    OBVIOUS
  <2> QED BY <2>1, FlattenAppend
<1>2. ASSUME NEW q \in Seq(Seq(S)), NEW e \in Seq(S), q \in T
      PROVE  Append(q, e) \in T
  <2>1. Append(q, e) \in Seq(Seq(S))
    OBVIOUS
  <2>2. CASE q = <<>>
    <3>1. FlattenSeq(Append(q, e)) = e
      BY <2>2, FlattenAppend
    <3> QED BY <2>1, <3>1
  <2>3. CASE q # <<>>
    <3>1. FlattenSeq(Append(q, e)) = FlattenSeq(q) \o e /\ FlattenSeq(q) \in Seq(S)
      BY <1>2, <2>3, FlattenAppend
    <3>2. FlattenSeq(q) \o e \in Seq(S)
      BY <3>1, ConcatProperties
    <3> QED BY <2>1, <3>1, <3>2
  <2> QED BY <2>2, <2>3
<1>3. Seq(Seq(S)) \subseteq T
  <2> HIDE DEF T
  <2> QED BY <1>1, <1>2, AppendInduction
<1>4. FlattenSeq(seqs) \in Seq(S)
  BY <1>3
<1>5. CASE seqs = <<>>
  <2>1. FlattenSeq(seqs) = <<>> /\ FlattenSeq(Append(seqs, s)) = s
    BY <1>5, FlattenAppend
  <2>2. <<>> \o s = s
    BY ConcatEmptySeq
  <2> QED BY <1>4, <2>1, <2>2
<1>6. CASE seqs # <<>>
  BY <1>4, <1>6, FlattenAppend
<1> QED BY <1>5, <1>6

(* A list with each element replaced. *)
Through(f, s) == [i \in DOMAIN s |-> f[s[i]]]

LEMMA ThroughType ==
  ASSUME NEW S, NEW R, NEW f, \A x \in S : f[x] \in R, NEW s \in Seq(S)
  PROVE  /\ Through(f, s) \in Seq(R)
         /\ Len(Through(f, s)) = Len(s)
<1>1. Len(s) \in Nat /\ DOMAIN s = 1 .. Len(s) /\ \A i \in 1 .. Len(s) : s[i] \in S
  OBVIOUS
<1> QED BY <1>1 DEF Through

LEMMA ThroughConcat ==
  ASSUME NEW S, NEW f, NEW s \in Seq(S), NEW t \in Seq(S)
  PROVE  Through(f, s \o t) = Through(f, s) \o Through(f, t)
<1> DEFINE R == {f[x] : x \in S}
           u == Through(f, s)
           v == Through(f, t)
           st == s \o t
           w == Through(f, st)
<1>1. ASSUME NEW q \in Seq(S)
      PROVE  /\ Through(f, q) \in Seq(R) /\ Len(Through(f, q)) = Len(q) /\ Len(q) \in Nat
             /\ \A i \in 1 .. Len(q) : Through(f, q)[i] = f[q[i]]
  <2>1. Len(q) \in Nat /\ DOMAIN q = 1 .. Len(q) /\ \A i \in 1 .. Len(q) : q[i] \in S
    OBVIOUS
  <2>2. \A x \in S : f[x] \in R
    OBVIOUS
  <2> HIDE DEF R
  <2> QED BY <2>1, <2>2 DEF Through
<1>2. /\ st \in Seq(S) /\ Len(st) = Len(s) + Len(t)
      /\ \A i \in 1 .. Len(s) + Len(t) : st[i] = IF i <= Len(s) THEN s[i] ELSE t[i - Len(s)]
  BY ConcatProperties
<1> HIDE DEF st, R
<1>3. /\ u \in Seq(R) /\ Len(u) = Len(s) /\ Len(s) \in Nat
      /\ \A i \in 1 .. Len(s) : u[i] = f[s[i]]
      /\ v \in Seq(R) /\ Len(v) = Len(t) /\ Len(t) \in Nat
      /\ \A i \in 1 .. Len(t) : v[i] = f[t[i]]
  BY <1>1
<1>4. w \in Seq(R) /\ Len(w) = Len(st) /\ \A i \in 1 .. Len(st) : w[i] = f[st[i]]
  BY <1>1, <1>2
<1> HIDE DEF u, v, w
<1>5. /\ u \o v \in Seq(R) /\ Len(u \o v) = Len(u) + Len(v)
      /\ \A i \in 1 .. Len(u) + Len(v) : (u \o v)[i] = IF i <= Len(u) THEN u[i] ELSE v[i - Len(u)]
  BY ZenonT(30), <1>3, ConcatProperties
<1>6. ASSUME NEW i \in 1 .. Len(w)
      PROVE  w[i] = (u \o v)[i]
  <2>1. i \in 1 .. Len(s) + Len(t) /\ i \in 1 .. Len(st) /\ i \in 1 .. Len(u) + Len(v)
    BY <1>2, <1>3, <1>4
  <2>2. CASE i <= Len(s)
    <3>1. i \in 1 .. Len(s)
      BY <1>3, <2>1, <2>2
    <3>2. w[i] = f[s[i]]
      BY <1>2, <1>4, <2>1, <2>2
    <3>3. (u \o v)[i] = u[i]
      BY <1>3, <1>5, <2>1, <2>2
    <3> QED BY <1>3, <3>1, <3>2, <3>3
  <2>3. CASE ~ (i <= Len(s))
    <3>1. i - Len(s) \in 1 .. Len(t)
      BY <1>3, <2>1, <2>3
    <3>2. w[i] = f[t[i - Len(s)]]
      BY <1>2, <1>4, <2>1, <2>3
    <3>3. (u \o v)[i] = v[i - Len(s)]
      BY <1>3, <1>5, <2>1, <2>3
    <3> QED BY <1>3, <3>1, <3>2, <3>3
  <2> QED BY <2>2, <2>3
<1>7. Len(w) = Len(u \o v)
  BY <1>2, <1>3, <1>4, <1>5
<1>8. w = u \o v
  BY <1>4, <1>5, <1>6, <1>7, SeqEqual
<1> QED BY <1>8 DEF u, v, w, st

LEMMA ThroughAppend ==
  ASSUME NEW S, NEW f, NEW s \in Seq(S), NEW x \in S
  PROVE  Through(f, Append(s, x)) = Append(Through(f, s), f[x])
<1> DEFINE R == {f[y] : y \in S}
           last == <<x>>
<1>1. Append(s, x) = s \o last
  BY AppendIsConcat
<1>2. last \in Seq(S)
  OBVIOUS
<1>3. Through(f, last) = <<f[x]>>
  BY DEF Through
<1> HIDE DEF last
<1>4. Through(f, s) \in Seq(R) /\ f[x] \in R
  <2>1. \A y \in S : f[y] \in R
    OBVIOUS
  <2> HIDE DEF R
  <2> QED BY <2>1, ThroughType
<1> HIDE DEF R
<1>5. Append(Through(f, s), f[x]) = Through(f, s) \o <<f[x]>>
  BY <1>4, AppendIsConcat
<1>6. Through(f, s \o last) = Through(f, s) \o Through(f, last)
  BY <1>2, ThroughConcat
<1> QED BY <1>1, <1>3, <1>5, <1>6

(* Flattening and replacing elements can be swapped. *)
LEMMA FlattenThrough ==
  ASSUME NEW S, NEW f, NEW seqs \in Seq(Seq(S))
  PROVE  FlattenSeq([i \in DOMAIN seqs |-> Through(f, seqs[i])]) = Through(f, FlattenSeq(seqs))
<1> DEFINE each == [s \in Seq(S) |-> Through(f, s)]
           T == {q \in Seq(Seq(S)) : FlattenSeq(Through(each, q)) = Through(f, FlattenSeq(q))}
           R == {f[x] : x \in S}
<1>1. \A s \in Seq(S) : Through(f, s) \in Seq(R) /\ each[s] = Through(f, s)
  <2>1. \A x \in S : f[x] \in R
    OBVIOUS
  <2> HIDE DEF R
  <2> QED BY <2>1, ThroughType
<1> HIDE DEF R
<1>2. <<>> \in T
  <2>1. <<>> \in Seq(Seq(S)) /\ Through(each, <<>>) = <<>> /\ Through(f, <<>>) = <<>>
    BY DEF Through
  <2>2. FlattenSeq(<<>>) = <<>>
    BY DEF FlattenSeq
  <2> QED BY <2>1, <2>2
<1>3. ASSUME NEW q \in Seq(Seq(S)), NEW e \in Seq(S), q \in T
      PROVE  Append(q, e) \in T
  <2>1. Append(q, e) \in Seq(Seq(S)) /\ FlattenSeq(q) \in Seq(S)
        /\ FlattenSeq(Append(q, e)) = FlattenSeq(q) \o e
    BY AppendProperties, FlattenStep
  <2>2. each[e] = Through(f, e) /\ Through(f, e) \in Seq(R)
    BY <1>1
  <2> HIDE DEF each
  <2>3. Through(each, q) \in Seq(Seq(R))
    BY <1>1, ThroughType
  <2>7. Through(each, Append(q, e)) = Append(Through(each, q), each[e])
    BY <1>1, ThroughAppend
  <2>4. FlattenSeq(Through(each, Append(q, e))) = FlattenSeq(Through(each, q)) \o Through(f, e)
    BY <2>2, <2>3, <2>7, FlattenStep
  <2>5. Through(f, FlattenSeq(q) \o e) = Through(f, FlattenSeq(q)) \o Through(f, e)
    BY <2>1, ThroughConcat
  <2>6. FlattenSeq(Through(each, q)) = Through(f, FlattenSeq(q))
    BY <1>3
  <2> QED BY <2>1, <2>4, <2>5, <2>6
<1>4. Seq(Seq(S)) \subseteq T
  <2> HIDE DEF T
  <2> QED BY <1>2, <1>3, AppendInduction
<1>5. Through(each, seqs) = [i \in DOMAIN seqs |-> Through(f, seqs[i])]
  <2>1. \A i \in DOMAIN seqs : seqs[i] \in Seq(S)
    OBVIOUS
  <2> QED BY <2>1 DEF Through
<1> HIDE DEF each
<1> QED BY <1>4, <1>5

-----------------------------------------------------------------------------
(* The order of a set, and parts of a list.                                   *)

(* An order of a set has each of its elements once. *)
LEMMA OrderHasAll ==
  ASSUME NEW S, IsFiniteSet(S), NEW order \in SetToSeqs(S)
  PROVE  /\ order \in Seq(S) /\ Len(order) \in Nat /\ DOMAIN order = 1 .. Len(order)
         /\ \A i, j \in 1 .. Len(order) : i # j => order[i] # order[j]
         /\ \A x \in S : \E i \in 1 .. Len(order) : order[i] = x
<1> DEFINE n == Cardinality(S)
<1>1. n \in Nat
  BY FS_CardinalityType
<1>2. order \in [1 .. n -> S] /\ \A i, j \in 1 .. n : i # j => order[i] # order[j]
  BY DEF SetToSeqs
<1>3. IsFiniteSet(1 .. n) /\ Cardinality(1 .. n) = n
  BY <1>1, FS_Interval
<1> HIDE DEF n
<1>4. order \in Injection(1 .. n, S)
  BY <1>2 DEF Injection, IsInjective
<1>5. order \in Surjection(1 .. n, S)
  BY <1>3, <1>4, FS_Injection DEF n
<1>6. \A x \in S : \E i \in 1 .. n : order[i] = x
  BY <1>5 DEF Surjection
<1>7. order \in Seq(S) /\ Len(order) = n /\ DOMAIN order = 1 .. n
  BY <1>1, <1>2
<1> QED BY <1>1, <1>2, <1>6, <1>7

(* The first elements of a list. *)
LEMMA PrefixFacts ==
  ASSUME NEW S, NEW all \in Seq(S)
  PROVE  /\ SubSeq(all, 1, 0) = <<>> /\ SubSeq(all, 1, Len(all)) = all
         /\ \A m \in 0 .. Len(all) : SubSeq(all, 1, m) \in Seq(S) /\ Len(SubSeq(all, 1, m)) = m
                                     /\ \A i \in 1 .. m : SubSeq(all, 1, m)[i] = all[i]
         /\ \A m \in 0 .. (Len(all) - 1) :
              all[m + 1] \in S /\ SubSeq(all, 1, m + 1) = Append(SubSeq(all, 1, m), all[m + 1])
<1>1. Len(all) \in Nat /\ \A i \in 1 .. Len(all) : all[i] \in S
  OBVIOUS
<1>2. ASSUME NEW m \in 0 .. Len(all)
      PROVE  SubSeq(all, 1, m) \in Seq(S) /\ Len(SubSeq(all, 1, m)) = m
             /\ \A i \in 1 .. m : SubSeq(all, 1, m)[i] = all[i]
  <2>1. SubSeq(all, 1, m) = [i \in 1 .. m |-> all[i]]
    BY <1>1
  <2>2. \A i \in 1 .. m : all[i] \in S
    BY <1>1
  <2> QED BY <1>1, <2>1, <2>2
<1>3. SubSeq(all, 1, 0) = <<>>
  <2>1. 0 \in 0 .. Len(all)
    BY <1>1
  <2>2. SubSeq(all, 1, 0) \in Seq(S) /\ Len(SubSeq(all, 1, 0)) = 0
    BY <1>2, <2>1
  <2> QED BY <2>2
<1>4. SubSeq(all, 1, Len(all)) = all
  <2>1. Len(all) \in 0 .. Len(all)
    BY <1>1
  <2> DEFINE q == SubSeq(all, 1, Len(all))
  <2>2. q \in Seq(S) /\ Len(q) = Len(all) /\ \A i \in 1 .. Len(all) : q[i] = all[i]
    BY <1>2, <2>1
  <2> HIDE DEF q
  <2>3. q = all
    BY <2>2, SeqEqual
  <2> QED BY <2>3 DEF q
<1>5. ASSUME NEW m \in 0 .. (Len(all) - 1)
      PROVE  all[m + 1] \in S /\ SubSeq(all, 1, m + 1) = Append(SubSeq(all, 1, m), all[m + 1])
  <2> DEFINE p == SubSeq(all, 1, m)
             q == SubSeq(all, 1, m + 1)
             x == all[m + 1]
             r == Append(p, x)
  <2>1. m \in 0 .. Len(all) /\ m + 1 \in 0 .. Len(all) /\ m + 1 \in 1 .. Len(all) /\ m \in Nat
    BY <1>1
  <2>2. x \in S
    BY <1>1, <2>1
  <2>3. /\ p \in Seq(S) /\ Len(p) = m /\ \A i \in 1 .. m : p[i] = all[i]
        /\ q \in Seq(S) /\ Len(q) = m + 1 /\ \A i \in 1 .. (m + 1) : q[i] = all[i]
    BY <1>2, <2>1
  <2> HIDE DEF p, q
  <2>4. r \in Seq(S) /\ Len(r) = m + 1 /\ r[m + 1] = all[m + 1] /\ \A i \in 1 .. m : r[i] = p[i]
    BY <2>2, <2>3
  <2> HIDE DEF r
  <2>5. \A i \in 1 .. (m + 1) : r[i] = q[i]
    <3>1. \A i \in 1 .. (m + 1) : i \in 1 .. m \/ i = m + 1
      BY <2>1
    <3> QED BY <2>3, <2>4, <3>1
  <2>6. r = q
    BY <2>3, <2>4, <2>5, SeqEqual
  <2> QED BY <2>2, <2>6 DEF p, q, r
<1> QED BY <1>2, <1>3, <1>4, <1>5

LEMMA PrefixOfAppend ==
  ASSUME NEW S, NEW list \in Seq(S), NEW x \in S, NEW m \in 0 .. Len(list)
  PROVE  SubSeq(Append(list, x), 1, m) = SubSeq(list, 1, m)
<1> DEFINE more == Append(list, x)
           p == SubSeq(list, 1, m)
           q == SubSeq(more, 1, m)
<1>1. more \in Seq(S) /\ Len(more) = Len(list) + 1 /\ Len(list) \in Nat
      /\ \A i \in 1 .. Len(list) : more[i] = list[i]
  OBVIOUS
<1> HIDE DEF more
<1>2. m \in 0 .. Len(more)
  BY <1>1
<1>3. p \in Seq(S) /\ Len(p) = m /\ \A i \in 1 .. m : p[i] = list[i]
  BY PrefixFacts
<1>4. q \in Seq(S) /\ Len(q) = m /\ \A i \in 1 .. m : q[i] = more[i]
  BY <1>1, <1>2, PrefixFacts
<1> HIDE DEF p, q
<1>5. \A i \in 1 .. m : q[i] = p[i]
  BY <1>1, <1>3, <1>4
<1>6. p = q
  BY <1>3, <1>4, <1>5, SeqEqual
<1> QED BY <1>6 DEF p, q, more

(* What is left of a list, and how much of it is done. *)
IsRest(rest, all) ==
  /\ Len(rest) <= Len(all)
  /\ \A i \in DOMAIN rest : rest[i] = all[(Len(all) - Len(rest)) + i]

Done(rest, all) == Len(all) - Len(rest)

LEMMA RestFacts ==
  ASSUME NEW S, NEW all \in Seq(S), NEW rest \in Seq(S), IsRest(rest, all)
  PROVE  /\ Done(rest, all) \in 0 .. Len(all)
         /\ rest = <<>> => Done(rest, all) = Len(all)
         /\ rest # <<>> => /\ Done(rest, all) \in 0 .. (Len(all) - 1)
                           /\ Head(rest) = all[Done(rest, all) + 1]
                           /\ Tail(rest) \in Seq(S)
                           /\ IsRest(Tail(rest), all)
                           /\ Done(Tail(rest), all) = Done(rest, all) + 1
<1>1. /\ Len(all) \in Nat /\ Len(rest) \in Nat /\ DOMAIN rest = 1 .. Len(rest)
      /\ (rest = <<>> => Len(rest) = 0)
  OBVIOUS
<1>2. Done(rest, all) \in 0 .. Len(all) /\ (rest = <<>> => Done(rest, all) = Len(all))
  BY <1>1 DEF Done, IsRest
<1>3. ASSUME rest # <<>>
      PROVE  /\ Done(rest, all) \in 0 .. (Len(all) - 1)
             /\ Head(rest) = all[Done(rest, all) + 1]
             /\ Tail(rest) \in Seq(S)
             /\ IsRest(Tail(rest), all)
             /\ Done(Tail(rest), all) = Done(rest, all) + 1
  <2> DEFINE tail == Tail(rest)
  <2>1. /\ Len(rest) # 0 /\ Head(rest) = rest[1] /\ tail \in Seq(S) /\ Len(tail) = Len(rest) - 1
        /\ DOMAIN tail = 1 .. Len(tail)
        /\ \A i \in 1 .. Len(tail) : tail[i] = rest[i + 1]
    BY <1>3
  <2> HIDE DEF tail
  <2>2. Done(rest, all) \in 0 .. (Len(all) - 1) /\ Done(tail, all) = Done(rest, all) + 1
    BY <1>1, <2>1 DEF Done, IsRest
  <2>3. Head(rest) = all[Done(rest, all) + 1]
    <3>1. 1 \in DOMAIN rest
      BY <1>1, <2>1
    <3> QED BY <2>1, <3>1 DEF Done, IsRest
  <2>4. IsRest(tail, all)
    <3>1. Len(tail) <= Len(all)
      BY <1>1, <2>1 DEF IsRest
    <3>2. ASSUME NEW i \in DOMAIN tail
          PROVE  tail[i] = all[(Len(all) - Len(tail)) + i]
      <4>1. i + 1 \in DOMAIN rest /\ tail[i] = rest[i + 1]
        BY <1>1, <2>1
      <4>2. (Len(all) - Len(rest)) + (i + 1) = (Len(all) - Len(tail)) + i
        BY <1>1, <2>1
      <4>3. rest[i + 1] = all[(Len(all) - Len(rest)) + (i + 1)]
        BY <4>1 DEF IsRest
      <4> QED BY <4>1, <4>2, <4>3
    <3> QED BY <3>1, <3>2 DEF IsRest
  <2> QED BY <2>1, <2>2, <2>3, <2>4 DEF tail
<1> QED BY <1>2, <1>3

LEMMA AllIsLeft ==
  ASSUME NEW S, NEW all \in Seq(S)
  PROVE  IsRest(all, all) /\ Done(all, all) = 0
<1>1. Len(all) \in Nat /\ DOMAIN all = 1 .. Len(all)
  OBVIOUS
<1>2. \A i \in 1 .. Len(all) : (Len(all) - Len(all)) + i = i
  BY <1>1
<1> QED BY <1>1, <1>2 DEF IsRest, Done

=============================================================================
