---------------------------- MODULE SequenceLemmas ----------------------------
(***************************************************************************)
(* Induction and recursion along a sequence, stated with sets, and what    *)
(* the planners' and parsers' ways to make one sequence of others return.  *)
(***************************************************************************)
EXTENDS Integers, Sequences, SequencesExt, SequenceTheorems, FiniteSetTheorems, NaturalsInduction,
        WellFoundedInduction, TLAPS

Lowest(S) == CHOOSE x \in S : \A y \in S : x <= y

LEMMA LowestIs ==
  ASSUME NEW S \in SUBSET Nat, S # {}
  PROVE  Lowest(S) \in S /\ \A q \in S : Lowest(S) <= q
<1>1. IsWellFoundedOn({r \in Nat \X Nat : r[1] < r[2]}, Nat)
  BY NatLessThanWellFounded, Zenon DEF OpToRel
<1>2. \E x \in S : \A y \in S : ~(<<y, x>> \in {r \in Nat \X Nat : r[1] < r[2]})
  BY <1>1, WFMin, Zenon
<1>3. PICK x \in S : \A y \in S : ~(<<y, x>> \in {r \in Nat \X Nat : r[1] < r[2]})
  BY <1>2
<1>4. \A y \in S : x <= y
  <2> SUFFICES ASSUME NEW y \in S, ~(x <= y) PROVE FALSE
    OBVIOUS
  <2>1. <<y, x>> \in Nat \X Nat /\ <<y, x>>[1] < <<y, x>>[2]
    OBVIOUS
  <2>2. <<y, x>> \in {r \in Nat \X Nat : r[1] < r[2]}
    BY <2>1, Zenon
  <2> QED  BY <1>3, <2>2
<1> QED  BY <1>3, <1>4, Zenon DEF Lowest

(* Induction up to n. *)
LEMMA UpTo ==
  ASSUME NEW n \in Nat, NEW S, 0 \in S, \A i \in 1..n : i - 1 \in S => i \in S
  PROVE  0..n \subseteq S
<1> SUFFICES ASSUME (0..n) \ S # {} PROVE FALSE
  OBVIOUS
<1> DEFINE k == Lowest((0..n) \ S)
<1>1. k \in (0..n) \ S /\ \A q \in (0..n) \ S : k <= q
  BY LowestIs
<1> HIDE DEF k
<1>2. k # 0
  BY <1>1
<1>3. k - 1 \in 0..n /\ ~(k <= k - 1) /\ k \in 1..n
  BY <1>1, <1>2
<1>4. k - 1 \in S
  BY <1>1, <1>3
<1> QED BY <1>1, <1>3, <1>4

(* Induction on a command line, from its front. *)
LEMMA ByAppending ==
  ASSUME NEW T, NEW P, <<>> \in P,
         \A a \in Seq(T), t \in T : a \in P => Append(a, t) \in P
  PROVE  Seq(T) \subseteq P
<1> SUFFICES ASSUME NEW a \in Seq(T) PROVE a \in P
  OBVIOUS
<1> DEFINE S == {i \in 0..Len(a) : SubSeq(a, 1, i) \in P}
<1>0. Len(a) \in Nat
  BY LenProperties
<1>1. 0 \in S
  <2>1. SubSeq(a, 1, 0) = <<>>
    BY SubSeqEmpty
  <2>2. SubSeq(a, 1, 0) \in P
    BY <2>1, Zenon
  <2> QED BY <1>0, <2>2
<1>2. ASSUME NEW i \in 1..Len(a), i - 1 \in S PROVE i \in S
  <2>1. SubSeq(a, 1, i - 1) \in Seq(T) /\ a[i] \in T /\ SubSeq(a, 1, i - 1) \in P
    BY <1>2
  <2>2. SubSeq(a, 1, i) = Append(SubSeq(a, 1, i - 1), a[i])
    OBVIOUS
  <2>3. SubSeq(a, 1, i) \in P
    BY <2>1, <2>2
  <2> QED BY <2>3, <1>0
<1>3. Len(a) \in S
  <2> HIDE DEF S
  <2>1. \A i \in 1..Len(a) : i - 1 \in S => i \in S
    BY <1>2
  <2>2. 0..Len(a) \subseteq S
    BY <1>0, <1>1, <2>1, UpTo, Zenon
  <2> QED BY <1>0, <2>2
<1> QED BY <1>3, SubSeqFull

(* Definition by recursion along a sequence. *)
FoldOf(f, S, base, step, a) ==
  f \in [0..Len(a) -> S] /\ f[0] = base /\ \A i \in 1..Len(a) : f[i] = step[<<f[i - 1], a[i]>>]

LEMMA Recursion ==
  ASSUME NEW S, NEW T, NEW base \in S, NEW step \in [S \X T -> S], NEW a \in Seq(T)
  PROVE  \E f : FoldOf(f, S, base, step, a)
<1> DEFINE M == {m \in 0..Len(a) : \E f \in [0..m -> S] :
                   f[0] = base /\ \A i \in 1..m : f[i] = step[<<f[i - 1], a[i]>>]}
<1>0. Len(a) \in Nat
  BY LenProperties
<1>1. 0 \in M
  <2>1. [i \in 0..0 |-> base] \in [0..0 -> S] /\ [i \in 0..0 |-> base][0] = base
    OBVIOUS
  <2>2. \A i \in 1..0 : FALSE
    OBVIOUS
  <2>3. \E f \in [0..0 -> S] : f[0] = base /\ \A i \in 1..0 : f[i] = step[<<f[i - 1], a[i]>>]
    BY <2>1, <2>2, Zenon
  <2> QED BY <2>3, <1>0
<1>2. ASSUME NEW m \in 1..Len(a), m - 1 \in M PROVE m \in M
  <2>1. PICK f \in [0..(m - 1) -> S] :
           f[0] = base /\ \A i \in 1..(m - 1) : f[i] = step[<<f[i - 1], a[i]>>]
    BY <1>2
  <2> DEFINE g == [i \in 0..m |-> IF i < m THEN f[i] ELSE step[<<f[m - 1], a[m]>>]]
  <2>2. a[m] \in T /\ f[m - 1] \in S
    BY <1>0
  <2>3. g \in [0..m -> S]
    BY <2>2, <2>1
  <2>4. g[0] = base
    BY <2>1
  <2>5. ASSUME NEW i \in 1..m PROVE g[i] = step[<<g[i - 1], a[i]>>]
    <3>1. CASE i = m
      <4>1. i - 1 = m - 1 /\ m - 1 \in 0..m /\ m - 1 < m /\ ~(i < m)
        BY <3>1
      <4>2. g[m - 1] = f[m - 1]
        BY <4>1
      <4>3. g[i] = step[<<f[m - 1], a[m]>>]
        BY <3>1
      <4> QED BY <3>1, <4>2, <4>3
    <3>2. CASE i # m
      <4>1. i < m /\ i \in 1..(m - 1) /\ i - 1 < m /\ i - 1 \in 0..m /\ i \in 0..m
        BY <3>2
      <4>2. g[i] = f[i] /\ g[i - 1] = f[i - 1]
        BY <4>1
      <4> QED BY <2>1, <4>1, <4>2
    <3> QED BY <3>1, <3>2
  <2>6. \A i \in 1..m : g[i] = step[<<g[i - 1], a[i]>>]
    BY <2>5
  <2> HIDE DEF g
  <2>7. \E h \in [0..m -> S] : h[0] = base /\ \A i \in 1..m : h[i] = step[<<h[i - 1], a[i]>>]
    BY <2>3, <2>4, <2>6, Zenon
  <2> QED BY <2>7, <1>0
<1>3. Len(a) \in M
  <2> HIDE DEF M
  <2>1. \A i \in 1..Len(a) : i - 1 \in M => i \in M
    BY <1>2
  <2>2. 0..Len(a) \subseteq M
    BY <1>0, <1>1, <2>1, UpTo, Zenon
  <2> QED BY <1>0, <2>2
<1> QED BY <1>3 DEF FoldOf

(* Two of them agree as far as they read the same. *)
Extends(g, f, S, step, a, t) == f[Len(a)] \in S /\ g[Len(Append(a, t))] = step[<<f[Len(a)], t>>]

LEMMA FoldAppend ==
  ASSUME NEW S, NEW T, NEW base \in S, NEW step \in [S \X T -> S], NEW a \in Seq(T), NEW t \in T,
         NEW f, NEW g, FoldOf(f, S, base, step, a), FoldOf(g, S, base, step, Append(a, t))
  PROVE  Extends(g, f, S, step, a, t)
<1>0. Len(a) \in Nat /\ Append(a, t) \in Seq(T) /\ Len(Append(a, t)) = Len(a) + 1
      /\ Append(a, t)[Len(a) + 1] = t /\ \A i \in 1..Len(a) : Append(a, t)[i] = a[i]
  OBVIOUS
<1>1. f[0] = base /\ \A i \in 1..Len(a) : f[i] = step[<<f[i - 1], a[i]>>]
  BY DEF FoldOf
<1>2. g[0] = base /\ \A i \in 1..(Len(a) + 1) : g[i] = step[<<g[i - 1], Append(a, t)[i]>>]
  BY <1>0 DEF FoldOf
<1> DEFINE M == {i \in 0..Len(a) : f[i] = g[i]}
<1>3. 0 \in M
  BY <1>0, <1>1, <1>2
<1>4. ASSUME NEW i \in 1..Len(a), i - 1 \in M PROVE i \in M
  <2>1. f[i - 1] = g[i - 1] /\ i \in 1..(Len(a) + 1)
    BY <1>0, <1>4
  <2>2. f[i] = step[<<f[i - 1], a[i]>>] /\ g[i] = step[<<g[i - 1], Append(a, t)[i]>>]
    BY <1>1, <1>2, <2>1
  <2>3. f[i] = g[i]
    BY <1>0, <2>1, <2>2
  <2> QED BY <1>0, <2>3
<1>5. f[Len(a)] = g[Len(a)]
  <2> HIDE DEF M
  <2>1. \A i \in 1..Len(a) : i - 1 \in M => i \in M
    BY <1>4
  <2>2. 0..Len(a) \subseteq M
    BY <1>0, <1>3, <2>1, UpTo, Zenon
  <2> QED BY <1>0, <2>2 DEF M
<1>6. g[Len(a) + 1] = step[<<g[Len(a)], t>>]
  BY <1>0, <1>2
<1>7. f[Len(a)] \in S
  BY <1>0 DEF FoldOf
<1> QED BY <1>0, <1>5, <1>6, <1>7 DEF Extends

-----------------------------------------------------------------------------
(* Sequences of sequences laid end to end, and selections. *)

EndToEnd(T) == [x \in Seq(T) \X Seq(T) |-> x[1] \o x[2]]

LEMMA EndToEndIs ==
  ASSUME NEW T, NEW a \in Seq(T), NEW b \in Seq(T)
  PROVE  /\ EndToEnd(T)[<<a, b>>] = a \o b /\ a \o b \in Seq(T)
         /\ EndToEnd(T) \in [Seq(T) \X Seq(T) -> Seq(T)]
<1>1. \A x, y \in Seq(T) : x \o y \in Seq(T)
  OBVIOUS
<1> DEFINE S == Seq(T)
<1>2. S = Seq(T)
  OBVIOUS
<1> HIDE DEF S
<1>3. EndToEnd(T) = [x \in S \X S |-> x[1] \o x[2]]
  BY <1>2 DEF EndToEnd
<1>4. EndToEnd(T)[<<a, b>>] = a \o b
  BY <1>2, <1>3
<1>5. ASSUME NEW x \in S \X S PROVE x[1] \o x[2] \in S
  BY <1>1, <1>2, <1>5
<1>6. EndToEnd(T) \in [S \X S -> S]
  BY <1>3, <1>5
<1> QED BY <1>1, <1>2, <1>4, <1>6

LEMMA FlattenIs ==
  ASSUME NEW T, NEW seqs \in Seq(Seq(T))
  PROVE  \E f : FoldOf(f, Seq(T), <<>>, EndToEnd(T), seqs) /\ FlattenSeq(seqs) = f[Len(seqs)]
<1> DEFINE N == Len(seqs)
           Is(f) == f = [i \in 1..Len(seqs) |-> IF i = 1 THEN seqs[i] ELSE f[i - 1] \o seqs[i]]
           g == CHOOSE f : Is(f)
<1>1. N \in Nat /\ DOMAIN seqs = 1..N /\ \A i \in 1..N : seqs[i] \in Seq(T)
  BY LenProperties, ElementOfSeq
<1>2. FlattenSeq(seqs) = IF Len(seqs) = 0 THEN seqs ELSE g[Len(seqs)]
  BY Zenon DEF FlattenSeq
<1>3. PICK f : FoldOf(f, Seq(T), <<>>, EndToEnd(T), seqs)
  <2>1. <<>> \in Seq(T)
    OBVIOUS
  <2> QED BY <2>1, EndToEndIs, Recursion, Zenon
<1>4. f \in [0..N -> Seq(T)] /\ f[0] = <<>> /\ \A i \in 1..N : f[i] = EndToEnd(T)[<<f[i - 1], seqs[i]>>]
  BY <1>3 DEF FoldOf
<1>5. CASE N = 0
  <2>1. seqs = <<>>
    BY <1>5
  <2> QED BY <1>2, <1>3, <1>4, <1>5, <2>1
<1>6. CASE N # 0
  <2> DEFINE front == [i \in 1..N |-> f[i]]
  <2>1. ASSUME NEW i \in 1..N PROVE f[i] = f[i - 1] \o seqs[i] /\ f[i - 1] \in Seq(T) /\ seqs[i] \in Seq(T)
    <3>1. i \in 0..N /\ i - 1 \in 0..N
      BY <1>1
    <3>2. f[i - 1] \in Seq(T) /\ seqs[i] \in Seq(T)
      BY <1>1, <1>4, <3>1
    <3>3. f[i] = EndToEnd(T)[<<f[i - 1], seqs[i]>>]
      BY <1>4
    <3>4. EndToEnd(T)[<<f[i - 1], seqs[i]>>] = f[i - 1] \o seqs[i]
      BY <3>2, EndToEndIs, Zenon
    <3> QED BY <3>2, <3>3, <3>4
  <2>2. ASSUME NEW i \in 1..N
        PROVE  front[i] = IF i = 1 THEN seqs[i] ELSE front[i - 1] \o seqs[i]
    <3>1. CASE i = 1
      <4>1. f[i - 1] = <<>> /\ seqs[i] \in Seq(T)
        BY <1>1, <1>4, <3>1
      <4>2. f[i] = <<>> \o seqs[i]
        BY <2>1, <4>1
      <4>3. <<>> \o seqs[i] = seqs[i]
        BY <4>1, ConcatEmptySeq
      <4>4. f[i] = seqs[i]
        BY <4>2, <4>3
      <4> QED BY <3>1, <4>4
    <3>2. CASE i # 1
      <4>1. i - 1 \in 1..N
        BY <1>1, <3>2
      <4> QED BY <2>1, <3>2, <4>1
    <3> QED BY <3>1, <3>2
  <2>3. Is(front)
    <3>1. front = [i \in 1..N |-> front[i]]
      OBVIOUS
    <3> HIDE DEF front
    <3> QED BY <1>1, <2>2, <3>1
  <2>4. Is(g)
    <3> HIDE DEF front
    <3> QED BY <2>3, Zenon
  <2>5. g = [i \in 1..N |-> IF i = 1 THEN seqs[i] ELSE g[i - 1] \o seqs[i]]
    BY <2>4, Zenon
  <2> HIDE DEF g
  <2> DEFINE M == {i \in 0..N : i # 0 => g[i] = f[i]}
  <2>6. ASSUME NEW i \in 1..N, i - 1 \in M PROVE i \in M
    <3>1. g[i] = IF i = 1 THEN seqs[i] ELSE g[i - 1] \o seqs[i]
      BY <2>5
    <3>2. f[i] = IF i = 1 THEN seqs[i] ELSE f[i - 1] \o seqs[i]
      <4>1. CASE i = 1
        BY <2>2, <4>1
      <4>2. CASE i # 1
        BY <2>1, <4>2
      <4> QED BY <4>1, <4>2
    <3>3. i # 1 => g[i - 1] = f[i - 1]
      BY <2>6
    <3>4. g[i] = f[i]
      BY <3>1, <3>2, <3>3
    <3> QED BY <1>1, <3>4
  <2>7. 0 \in M
    BY <1>1
  <2>8. N \in M
    <3> HIDE DEF M
    <3>1. \A i \in 1..N : i - 1 \in M => i \in M
      BY <2>6
    <3>2. 0..N \subseteq M
      BY <1>1, <2>7, <3>1, UpTo, Zenon
    <3> QED BY <1>1, <3>2
  <2> QED BY <1>2, <1>3, <1>6, <2>8
<1> QED BY <1>5, <1>6

(* What holds of every part, and of any two laid end to end, holds of the  *)
(* whole.                                                                  *)
LEMMA FlattenIn ==
  ASSUME NEW T, NEW R \in SUBSET Seq(T), <<>> \in R, \A a, b \in R : a \o b \in R,
         NEW seqs \in Seq(R)
  PROVE  FlattenSeq(seqs) \in R
<1> DEFINE N == Len(seqs)
<1>1. N \in Nat /\ DOMAIN seqs = 1..N /\ (\A i \in 1..N : seqs[i] \in R) /\ seqs \in Seq(Seq(T))
  BY LenProperties, ElementOfSeq
<1>2. PICK f : FoldOf(f, Seq(T), <<>>, EndToEnd(T), seqs) /\ FlattenSeq(seqs) = f[Len(seqs)]
  BY <1>1, FlattenIs
<1> DEFINE M == {i \in 0..N : f[i] \in R}
<1>3. 0 \in M
  BY <1>1, <1>2 DEF FoldOf
<1>4. ASSUME NEW i \in 1..N, i - 1 \in M PROVE i \in M
  <2>1. f[i] = EndToEnd(T)[<<f[i - 1], seqs[i]>>]
    BY <1>2 DEF FoldOf
  <2>2. f[i - 1] \in R /\ seqs[i] \in R
    BY <1>1, <1>4
  <2>3. f[i] = f[i - 1] \o seqs[i]
    BY <2>1, <2>2, EndToEndIs
  <2>4. f[i] \in R
    BY <2>2, <2>3
  <2> QED BY <1>1, <2>4
<1>5. N \in M
  <2> HIDE DEF M
  <2>1. \A i \in 1..N : i - 1 \in M => i \in M
    BY <1>4
  <2>2. 0..N \subseteq M
    BY <1>1, <1>3, <2>1, UpTo, Zenon
  <2> QED BY <1>1, <2>2
<1> QED BY <1>2, <1>5

LEMMA ConcatHas ==
  ASSUME NEW T, NEW a \in Seq(T), NEW b \in Seq(T)
  PROVE  ToSet(a \o b) = ToSet(a) \cup ToSet(b)
<1>1. ASSUME NEW k \in DOMAIN (a \o b) PROVE (a \o b)[k] \in ToSet(a) \cup ToSet(b)
  BY DEF ToSet
<1>2. ASSUME NEW k \in DOMAIN a PROVE a[k] \in ToSet(a \o b)
  BY DEF ToSet
<1>3. ASSUME NEW k \in DOMAIN b PROVE b[k] \in ToSet(a \o b)
  <2>1. Len(a) + k \in DOMAIN (a \o b) /\ (a \o b)[Len(a) + k] = b[k]
    OBVIOUS
  <2> QED BY <2>1 DEF ToSet
<1> QED BY <1>1, <1>2, <1>3 DEF ToSet

(* Each part is a part of the whole.                                       *)
Around(T, whole, part) == \E a, b \in Seq(T) : whole = a \o part \o b

LEMMA AroundItself ==
  ASSUME NEW T, NEW a \in Seq(T), NEW p \in Seq(T)
  PROVE  Around(T, a \o p, p)
<1>1. a \o p \in Seq(T) /\ <<>> \in Seq(T)
  OBVIOUS
<1>2. a \o p = (a \o p) \o <<>>
  BY <1>1, ConcatEmptySeq
<1> QED BY <1>1, <1>2, Zenon DEF Around

LEMMA AroundMore ==
  ASSUME NEW T, NEW w, NEW p \in Seq(T), NEW c \in Seq(T), Around(T, w, p)
  PROVE  Around(T, w \o c, p)
<1>1. PICK a \in Seq(T), b \in Seq(T) : w = a \o p \o b
  BY DEF Around
<1>2. a \o p \in Seq(T) /\ b \o c \in Seq(T)
  OBVIOUS
<1>3. (a \o p \o b) \o c = a \o p \o (b \o c)
  <2> DEFINE q == a \o p
  <2>1. q \in Seq(T)
    OBVIOUS
  <2> HIDE DEF q
  <2>2. (q \o b) \o c = q \o (b \o c)
    BY <2>1, ConcatAssociative
  <2> QED BY <2>2 DEF q
<1> QED BY <1>1, <1>2, <1>3, Zenon DEF Around

LEMMA FlattenHas ==
  ASSUME NEW T, NEW seqs \in Seq(Seq(T)), NEW k \in DOMAIN seqs
  PROVE  Around(T, FlattenSeq(seqs), seqs[k])
<1> DEFINE N == Len(seqs)
<1>1. N \in Nat /\ k \in 1..N /\ \A i \in 1..N : seqs[i] \in Seq(T)
  BY LenProperties, ElementOfSeq
<1>2. PICK f : FoldOf(f, Seq(T), <<>>, EndToEnd(T), seqs) /\ FlattenSeq(seqs) = f[Len(seqs)]
  BY FlattenIs
<1>3. \A i \in 1..N : f[i - 1] \in Seq(T) /\ f[i] = f[i - 1] \o seqs[i]
  <2> SUFFICES ASSUME NEW i \in 1..N PROVE f[i - 1] \in Seq(T) /\ f[i] = f[i - 1] \o seqs[i]
    OBVIOUS
  <2>1. i - 1 \in 0..N /\ f[i] = EndToEnd(T)[<<f[i - 1], seqs[i]>>]
    BY <1>1, <1>2 DEF FoldOf
  <2>2. f[i - 1] \in Seq(T)
    BY <1>2, <2>1 DEF FoldOf
  <2>3. EndToEnd(T)[<<f[i - 1], seqs[i]>>] = f[i - 1] \o seqs[i]
    BY <1>1, <2>2, EndToEndIs, Zenon
  <2> QED BY <2>1, <2>2, <2>3
<1> DEFINE M == {i \in 0..N : k <= i => Around(T, f[i], seqs[k])}
<1>4. 0 \in M
  BY <1>1
<1>5. ASSUME NEW i \in 1..N, i - 1 \in M PROVE i \in M
  <2>1. CASE i = k
    <3>1. f[i - 1] \in Seq(T) /\ seqs[k] \in Seq(T) /\ f[i] = f[i - 1] \o seqs[k]
      BY <1>1, <1>3, <2>1
    <3>2. Around(T, f[i], seqs[k])
      BY <3>1, AroundItself
    <3> QED BY <1>1, <3>2
  <2>2. CASE i < k
    BY <1>1, <2>2
  <2>3. CASE k < i
    <3>1. k <= i - 1
      BY <1>1, <2>3
    <3>2. Around(T, f[i - 1], seqs[k])
      BY <1>5, <3>1
    <3>3. seqs[i] \in Seq(T) /\ seqs[k] \in Seq(T) /\ f[i] = f[i - 1] \o seqs[i]
      BY <1>1, <1>3
    <3>4. Around(T, f[i], seqs[k])
      BY <3>2, <3>3, AroundMore
    <3> QED BY <1>1, <3>4
  <2>4. i \in Int /\ k \in Int
    BY <1>1
  <2>5. i = k \/ i < k \/ k < i
    BY <2>4
  <2> QED BY <2>1, <2>2, <2>3, <2>5
<1>6. N \in M
  <2> HIDE DEF M
  <2>1. \A i \in 1..N : i - 1 \in M => i \in M
    BY <1>5
  <2>2. 0..N \subseteq M
    BY <1>1, <1>4, <2>1, UpTo, Zenon
  <2> QED BY <1>1, <2>2
<1>7. Around(T, f[N], seqs[k])
  BY <1>1, <1>6
<1> QED BY <1>2, <1>7

LEMMA AroundHas ==
  ASSUME NEW T, NEW w, NEW p \in Seq(T), Around(T, w, p)
  PROVE  ToSet(p) \subseteq ToSet(w)
<1>1. PICK a \in Seq(T), b \in Seq(T) : w = a \o p \o b
  BY DEF Around
<1>2. a \o p \in Seq(T)
  OBVIOUS
<1>3. ToSet(w) = ToSet(a \o p) \cup ToSet(b)
  BY <1>1, <1>2, ConcatHas
<1>4. ToSet(a \o p) = ToSet(a) \cup ToSet(p)
  BY ConcatHas
<1> QED BY <1>3, <1>4

(* The elements of a sequence that are in S, in their order.               *)
Chosen(seq, S) == FlattenSeq([i \in DOMAIN seq |-> IF seq[i] \in S THEN <<seq[i]>> ELSE << >>])

LEMMA ChosenIs ==
  ASSUME NEW T, NEW S \in SUBSET T, NEW seq \in Seq(T)
  PROVE  Chosen(seq, S) \in Seq(S) /\ ToSet(Chosen(seq, S)) = ToSet(seq) \cap S
<1> DEFINE parts == [i \in DOMAIN seq |-> IF seq[i] \in S THEN <<seq[i]>> ELSE << >>]
           R == Seq(S \cap ToSet(seq))
<1>1. DOMAIN seq = 1..Len(seq) /\ Len(seq) \in Nat
  BY LenProperties
<1>2. ASSUME NEW i \in DOMAIN seq PROVE parts[i] \in R
  <2>1. CASE seq[i] \in S
    <3>1. seq[i] \in S \cap ToSet(seq)
      BY <2>1 DEF ToSet
    <3> QED BY <2>1, <3>1
  <2>2. CASE seq[i] \notin S
    BY <2>2
  <2> QED BY <2>1, <2>2
<1>3. parts \in Seq(R) /\ DOMAIN parts = DOMAIN seq
  <2> HIDE DEF R
  <2>1. parts \in [1..Len(seq) -> R]
    BY <1>1, <1>2
  <2> QED BY <1>1, <2>1
<1>4. FlattenSeq(parts) \in R
  <2>1. <<>> \in R /\ (\A a, b \in R : a \o b \in R) /\ R \in SUBSET R
    OBVIOUS
  <2> HIDE DEF parts
  <2> QED BY <1>3, <2>1, FlattenIn
<1>5. ASSUME NEW i \in DOMAIN seq, seq[i] \in S PROVE seq[i] \in ToSet(FlattenSeq(parts))
  <2>1. parts[i] = <<seq[i]>> /\ parts[i] \in R
    BY <1>2, <1>5
  <2> HIDE DEF parts
  <2>2. Around(S \cap ToSet(seq), FlattenSeq(parts), parts[i])
    BY <1>3, FlattenHas
  <2>3. ToSet(parts[i]) \subseteq ToSet(FlattenSeq(parts))
    BY <2>1, <2>2, AroundHas
  <2>4. seq[i] \in ToSet(<<seq[i]>>)
    BY DEF ToSet
  <2> QED BY <2>1, <2>3, <2>4
<1>6. Chosen(seq, S) = FlattenSeq(parts)
  BY DEF Chosen
<1> HIDE DEF parts
<1>7. FlattenSeq(parts) \in Seq(S) /\ ToSet(FlattenSeq(parts)) \subseteq S \cap ToSet(seq)
  BY <1>4 DEF ToSet
<1>8. ToSet(seq) \cap S \subseteq ToSet(FlattenSeq(parts))
  BY <1>5 DEF ToSet
<1> QED BY <1>6, <1>7, <1>8

LEMMA SetToSeqIs ==
  ASSUME NEW S, IsFiniteSet(S)
  PROVE  /\ SetToSeq(S) \in Seq(S) /\ Len(SetToSeq(S)) = Cardinality(S)
         /\ \A i, j \in DOMAIN SetToSeq(S) : SetToSeq(S)[i] = SetToSeq(S)[j] => i = j
<1>1. Cardinality(S) \in Nat /\ ExistsBijection(1..Cardinality(S), S)
  BY FS_CardinalityType
<1>2. \E f \in [1..Cardinality(S) -> S] : IsInjective(f)
  BY <1>1 DEF ExistsBijection, Bijection, Injection, IsInjective
<1>3. SetToSeq(S) \in [1..Cardinality(S) -> S] /\ IsInjective(SetToSeq(S))
  BY <1>2, Zenon DEF SetToSeq
<1> QED BY <1>1, <1>3 DEF IsInjective

=============================================================================
