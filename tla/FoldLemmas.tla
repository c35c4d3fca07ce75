----------------------------- MODULE FoldLemmas -----------------------------
(***************************************************************************)
(* Induction over data: what a set, a sum or a fold is shown to be by      *)
(* going from the empty one to the next larger one.  Properties are given  *)
(* as the set of what has them, which makes induction a fact about sets:   *)
(* of what lacks a property some is smallest.                              *)
(***************************************************************************)
EXTENDS Integers, SequencesExt, SequenceTheorems, FiniteSetTheorems, WellFoundedInduction, TLAPS

Below == {p \in Nat \X Nat : p[1] < p[2]}

\* No natural has infinitely many below it.
LEMMA BelowWellFounded == IsWellFoundedOn(Below, Nat)
<1>1. Below = OpToRel(<, Nat)
  BY Zenon DEF Below, OpToRel
<1> QED
  BY <1>1, NatLessThanWellFounded, Zenon

\* Of some naturals one is the least.
LEMMA LeastNatural ==
  ASSUME NEW T, T \subseteq Nat, T # {}
  PROVE  \E n \in T : \A m \in T : n <= m
<1>1. PICK n \in T : \A m \in T : <<m, n>> \notin Below
  BY BelowWellFounded, WFMin
<1>2. ASSUME NEW m \in T, m < n PROVE <<m, n>> \in Below
  <2>1. <<m, n>> \in Nat \X Nat
    OBVIOUS
  <2>2. <<m, n>>[1] < <<m, n>>[2]
    BY <1>2
  <2> QED
    BY <2>1, <2>2 DEF Below
<1>3. \A m \in T : ~ (m < n)
  BY <1>1, <1>2
<1> QED
  BY <1>3

\* What 0 has, and n + 1 when n has it, every natural has.
LEMMA NaturalInduction ==
  ASSUME NEW T, 0 \in T, \A n \in Nat : n \in T => n + 1 \in T
  PROVE  Nat \subseteq T
<1> SUFFICES ASSUME Nat \ T # {} PROVE FALSE
  OBVIOUS
<1>1. PICK n \in Nat \ T : \A m \in Nat \ T : n <= m
  BY LeastNatural
<1> QED
  BY <1>1

\* Of some finite sets one has none of the others in it.
LEMMA SmallestSet ==
  ASSUME NEW B, B # {}, \A s \in B : IsFiniteSet(s)
  PROVE  \E s \in B : \A t \in B : ~ (t \subseteq s /\ t # s)
<1> DEFINE sizes == {Cardinality(s) : s \in B}
<1>1. sizes \subseteq Nat /\ sizes # {}
  BY FS_CardinalityType
<1>2. PICK n \in sizes : \A m \in sizes : n <= m
  BY <1>1, LeastNatural
<1>3. PICK s \in B : Cardinality(s) = n
  OBVIOUS
<1>4. ASSUME NEW t \in B, t \subseteq s, t # s PROVE FALSE
  <2>1. Cardinality(t) < Cardinality(s)
    <3>1. PICK x \in s : x \notin t
      BY <1>4
    <3>2. Cardinality(s \ {x}) = Cardinality(s) - 1 /\ IsFiniteSet(s \ {x})
      BY FS_RemoveElement
    <3>3. Cardinality(t) <= Cardinality(s \ {x})
      BY <1>4, <3>1, <3>2, FS_Subset
    <3> QED
      BY <3>2, <3>3, FS_CardinalityType
  <2> QED
    BY <1>1, <1>2, <1>3, <2>1
<1> QED
  BY <1>4

-----------------------------------------------------------------------------
(***************************************************************************)
(* Recursion over the subsets of a finite set, one chosen element less at  *)
(* a time: such a function exists, and it is the only one.                 *)
(***************************************************************************)
Picks(pick, S) == \A s \in SUBSET S : s # {} => pick[s] \in s

IsFold(g, S, base, step, pick) ==
  \A s \in SUBSET S :
    g[s] = IF s = {} THEN base ELSE step[pick[s]][g[s \ {pick[s]}]]

\* A fold over a finite set exists: for the empty set, and so for the next larger one.
LEMMA FoldExists ==
  ASSUME NEW S, IsFiniteSet(S), NEW V, NEW base \in V, NEW step, \A x \in S, v \in V : step[x][v] \in V,
         NEW pick, Picks(pick, S)
  PROVE  \E g \in [SUBSET S -> V] : IsFold(g, S, base, step, pick)
<1> DEFINE Small(n) == {s \in SUBSET S : Cardinality(s) <= n}
           Rest(s) == s \ {pick[s]}
           Good(g, n) == \A s \in Small(n) :
                           g[s] = IF s = {} THEN base ELSE step[pick[s]][g[Rest(s)]]
           T == {n \in Nat : \E g \in [Small(n) -> V] : Good(g, n)}
<1>1. \A s \in SUBSET S : IsFiniteSet(s) /\ Cardinality(s) \in Nat
  BY FS_Subset, FS_CardinalityType
<1>2. \A s \in SUBSET S : s # {} => /\ pick[s] \in S /\ Rest(s) \in SUBSET S
                                    /\ Cardinality(Rest(s)) = Cardinality(s) - 1
  BY <1>1, FS_RemoveElement DEF Picks
<1>3. 0 \in T
  <2> DEFINE g == [s \in Small(0) |-> base]
  <2>1. \A s \in Small(0) : s = {}
    BY <1>1, FS_EmptySet
  <2>2. g \in [Small(0) -> V] /\ Good(g, 0)
    BY <2>1
  <2> QED
    BY <2>2
<1>4. ASSUME NEW n \in Nat, n \in T PROVE n + 1 \in T
  <2>1. PICK g \in [Small(n) -> V] : Good(g, n)
    BY <1>4
  <2> DEFINE h == [s \in Small(n + 1) |-> IF s \in Small(n) THEN g[s]
                                          ELSE step[pick[s]][g[Rest(s)]]]
  <2>2. Small(n) \subseteq Small(n + 1)
    BY <1>1
  <2>3. \A s \in Small(n + 1) : s # {} => Rest(s) \in Small(n) /\ pick[s] \in S
    BY <1>1, <1>2
  <2>4. {} \in Small(n)
    BY FS_EmptySet
  <2> HIDE DEF Small, Rest
  <2>5. h \in [Small(n + 1) -> V]
    <3>1. ASSUME NEW s \in Small(n + 1), s \notin Small(n)
          PROVE  step[pick[s]][g[Rest(s)]] \in V
      BY <2>3, <2>4, <3>1
    <3> QED
      BY <3>1
  <2>6. \A s \in Small(n) : h[s] = g[s]
    BY <2>2
  <2>7. ASSUME NEW s \in Small(n + 1), s # {} PROVE h[s] = step[pick[s]][h[Rest(s)]]
    BY <2>1, <2>3, <2>6, <2>7
  <2>8. h[{}] = base
    BY <2>1, <2>4, <2>6
  <2>9. Good(h, n + 1)
    BY <2>7, <2>8
  <2>10. \E f \in [Small(n + 1) -> V] : Good(f, n + 1)
    <3> HIDE DEF h, Good
    <3> QED
      BY <2>5, <2>9
  <2> HIDE DEF h, Good
  <2> QED
    BY <2>10
<1>5. Cardinality(S) \in T
  <2> HIDE DEF T
  <2> QED
    BY <1>1, <1>3, <1>4, NaturalInduction
<1>6. Small(Cardinality(S)) = SUBSET S
  BY FS_Subset
<1>7. PICK g \in [SUBSET S -> V] : Good(g, Cardinality(S))
  BY <1>5, <1>6
<1> QED
  BY <1>6, <1>7 DEF IsFold

\* Two folds with one equation are the same.
LEMMA FoldUnique ==
  ASSUME NEW S, IsFiniteSet(S), NEW base, NEW step, NEW pick, Picks(pick, S),
         NEW g, NEW h, IsFold(g, S, base, step, pick), IsFold(h, S, base, step, pick)
  PROVE  \A s \in SUBSET S : g[s] = h[s]
<1> DEFINE B == {s \in SUBSET S : g[s] # h[s]}
<1> SUFFICES ASSUME B # {} PROVE FALSE
  OBVIOUS
<1>1. \A s \in B : IsFiniteSet(s)
  BY FS_Subset
<1>2. PICK s \in B : \A t \in B : ~ (t \subseteq s /\ t # s)
  <2> HIDE DEF B
  <2> QED
    BY <1>1, SmallestSet
<1>3. s # {} /\ pick[s] \in s
  BY DEF IsFold, Picks
<1>4. g[s \ {pick[s]}] = h[s \ {pick[s]}]
  BY <1>2, <1>3
<1> QED
  BY <1>3, <1>4 DEF IsFold

-----------------------------------------------------------------------------
(***************************************************************************)
(* Sums over a finite set do not depend on the order of the elements.      *)
(***************************************************************************)
IsSum(g, S, w, pick) ==
  \A s \in SUBSET S : s # {} => g[s] = w[pick[s]] + g[s \ {pick[s]}]

AnyOrder(g, S, w) == \A s \in SUBSET S : \A x \in s : g[s] = w[x] + g[s \ {x}]

\* A sum may take its elements in any order.
LEMMA AnyElement ==
  ASSUME NEW S, IsFiniteSet(S), NEW w \in [S -> Nat], NEW pick, Picks(pick, S),
         NEW g \in [SUBSET S -> Nat], IsSum(g, S, w, pick)
  PROVE  AnyOrder(g, S, w)
<1> SUFFICES \A s \in SUBSET S : \A x \in s : g[s] = w[x] + g[s \ {x}]
  BY DEF AnyOrder
<1> DEFINE B == {s \in SUBSET S : \E x \in s : g[s] # w[x] + g[s \ {x}]}
<1> SUFFICES ASSUME B # {} PROVE FALSE
  OBVIOUS
<1>1. \A s \in B : IsFiniteSet(s)
  BY FS_Subset
<1>2. PICK s \in B : \A t \in B : ~ (t \subseteq s /\ t # s)
  <2> HIDE DEF B
  <2> QED
    BY <1>1, SmallestSet
<1>3. PICK x \in s : g[s] # w[x] + g[s \ {x}]
  OBVIOUS
<1> DEFINE p == pick[s]
<1>4. p \in s /\ p # x /\ g[s] = w[p] + g[s \ {p}]
  BY <1>3 DEF Picks, IsSum
<1>5. s \ {p} \notin B /\ s \ {x} \notin B
  BY <1>2, <1>4
<1> HIDE DEF p
<1>6. g[s \ {p}] = w[x] + g[(s \ {p}) \ {x}]
  BY <1>4, <1>5
<1>7. g[s \ {x}] = w[p] + g[(s \ {x}) \ {p}]
  BY <1>4, <1>5
<1>8. (s \ {p}) \ {x} = (s \ {x}) \ {p}
  OBVIOUS
<1>9. w[x] \in Nat /\ w[p] \in Nat /\ g[(s \ {x}) \ {p}] \in Nat
  <2>1. (s \ {x}) \ {p} \in SUBSET S
    OBVIOUS
  <2> QED
    BY <1>4, <2>1
<1> DEFINE r == g[(s \ {x}) \ {p}]
<1>10. g[s] = w[p] + (w[x] + r) /\ g[s \ {x}] = w[p] + r
  BY <1>4, <1>6, <1>7, <1>8
<1>11. w[p] + (w[x] + r) = w[x] + (w[p] + r)
  <2> HIDE DEF r
  <2> QED
    BY <1>9 DEF r
<1> QED
  BY <1>3, <1>10, <1>11

-----------------------------------------------------------------------------
(***************************************************************************)
(* The least and the greatest of some numbers, and what is built step by   *)
(* step along a sequence.                                                  *)
(***************************************************************************)
\* The Min of some naturals is one of them.
LEMMA MinIsLeast ==
  ASSUME NEW T, T \subseteq Nat, T # {}
  PROVE  Min(T) \in T /\ \A m \in T : Min(T) <= m
BY LeastNatural DEF Min

\* Numbers up to some bound have a greatest.
LEMMA MaxIsGreatest ==
  ASSUME NEW N \in Nat, NEW T, T \subseteq 0..N, T # {}
  PROVE  Max(T) \in T /\ \A m \in T : m <= Max(T)
<1> DEFINE U == {N - m : m \in T}
<1>1. U \subseteq Nat /\ U # {}
  <2>1. \A m \in T : N - m \in Nat
    OBVIOUS
  <2> QED
    BY <2>1
<1>2. PICK u \in U : \A m \in U : u <= m
  <2> HIDE DEF U
  <2> QED
    BY <1>1, LeastNatural
<1>3. PICK x \in T : u = N - x
  OBVIOUS
<1>4. \A m \in T : m <= x
  <2> SUFFICES ASSUME NEW m \in T PROVE m <= x
    OBVIOUS
  <2>1. N - x <= N - m
    BY <1>2, <1>3
  <2> QED
    BY <2>1
<1> QED
  BY <1>3, <1>4 DEF Max

IsIteration(f, N, base, step) ==
  f[0] = base /\ \A i \in 1..N : f[i] = step[i][f[i - 1]]

\* N steps from a base lead somewhere.
LEMMA IterationExists ==
  ASSUME NEW N \in Nat, NEW V, NEW base \in V, NEW step, \A i \in 1..N, v \in V : step[i][v] \in V
  PROVE  \E f \in [0..N -> V] : IsIteration(f, N, base, step)
<1> DEFINE T == {n \in Nat : n <= N => \E f \in [0..n -> V] : IsIteration(f, n, base, step)}
<1>1. 0 \in T
  <2>1. [i \in 0..0 |-> base] \in [0..0 -> V] /\ IsIteration([i \in 0..0 |-> base], 0, base, step)
    BY DEF IsIteration
  <2> QED
    BY <2>1
<1>2. ASSUME NEW n \in Nat, n \in T PROVE n + 1 \in T
  <2> SUFFICES ASSUME n + 1 <= N
               PROVE  \E f \in [0..(n + 1) -> V] : IsIteration(f, n + 1, base, step)
    OBVIOUS
  <2>1. PICK f \in [0..n -> V] : IsIteration(f, n, base, step)
    BY <1>2
  <2> DEFINE h == [i \in 0..(n + 1) |-> IF i = n + 1 THEN step[n + 1][f[n]] ELSE f[i]]
  <2>2. h \in [0..(n + 1) -> V]
    <3>1. step[n + 1][f[n]] \in V
      OBVIOUS
    <3> QED
      BY <3>1
  <2>3. h[0] = base
    BY <2>1 DEF IsIteration
  <2>4. ASSUME NEW i \in 1..(n + 1) PROVE h[i] = step[i][h[i - 1]]
    <3>1. CASE i = n + 1
      <4>1. h[i - 1] = f[n]
        BY <3>1
      <4> QED
        BY <3>1, <4>1
    <3>2. CASE i # n + 1
      <4>1. i \in 1..n /\ h[i] = f[i] /\ h[i - 1] = f[i - 1]
        BY <3>2
      <4> QED
        BY <2>1, <4>1 DEF IsIteration
    <3> QED
      BY <3>1, <3>2
  <2> HIDE DEF h
  <2> QED
    BY <2>2, <2>3, <2>4 DEF IsIteration
<1>3. N \in T
  <2> HIDE DEF T
  <2> QED
    BY <1>1, <1>2, NaturalInduction
<1> QED
  BY <1>3

\* The parts of a concatenation, one after the other: f[i] is the first i of them.
Joins(f, seqs) ==
  f[0] = <<>> /\ \A i \in 1..Len(seqs) : f[i] = f[i - 1] \o seqs[i]

\* FlattenSeq joins its parts one by one.
LEMMA FlattenJoins ==
  ASSUME NEW V, NEW seqs, Len(seqs) \in Nat, \A i \in 1..Len(seqs) : seqs[i] \in Seq(V),
         Len(seqs) = 0 => seqs = <<>>
  PROVE  \E f \in [0..Len(seqs) -> Seq(V)] : Joins(f, seqs) /\ FlattenSeq(seqs) = f[Len(seqs)]
<1> DEFINE N == Len(seqs)
           step == [i \in 1..N |-> [v \in Seq(V) |-> v \o seqs[i]]]
           IsFlat(h) == h = [i \in 1..N |-> IF i = 1 THEN seqs[i] ELSE h[i - 1] \o seqs[i]]
<1>1. <<>> \in Seq(V)
  OBVIOUS
<1>2. \A i \in 1..N, v \in Seq(V) : step[i][v] \in Seq(V) /\ step[i][v] = v \o seqs[i]
  OBVIOUS
<1>3. PICK f \in [0..N -> Seq(V)] : IsIteration(f, N, <<>>, step)
  <2> HIDE DEF N, step
  <2> QED
    BY <1>1, <1>2, IterationExists DEF N
<1>4. ASSUME NEW i \in 1..N, NEW k \in 0..N, k = i - 1
      PROVE  f[i] = f[k] \o seqs[i]
  <2>1. f[i] = step[i][f[i - 1]]
    BY <1>3 DEF IsIteration
  <2>2. f[k] \in Seq(V)
    OBVIOUS
  <2>3. step[i][f[k]] = f[k] \o seqs[i]
    BY <1>2, <2>2
  <2> QED
    BY <1>4, <2>1, <2>3, Zenon
<1>5. Joins(f, seqs)
  <2>1. f[0] = <<>>
    BY <1>3 DEF IsIteration
  <2>2. ASSUME NEW i \in 1..N PROVE f[i] = f[i - 1] \o seqs[i]
    <3>1. i - 1 \in 0..N
      OBVIOUS
    <3> QED
      BY <1>4, <3>1, Zenon
  <2> QED
    BY <2>1, <2>2, Zenon DEF Joins
<1>6. CASE N = 0
  <2>1. FlattenSeq(seqs) = <<>> /\ f[N] = <<>>
    BY <1>3, <1>6 DEF IsIteration, FlattenSeq
  <2> QED
    BY <1>5, <2>1
<1>7. CASE N # 0
  <2> DEFINE g == [i \in 1..N |-> f[i]]
             h == CHOOSE d : IsFlat(d)
  <2>1. IsFlat(g)
    <3>1. ASSUME NEW i \in 1..N PROVE g[i] = IF i = 1 THEN seqs[i] ELSE g[i - 1] \o seqs[i]
      <4>1. PICK k \in 0..N : k = i - 1
        OBVIOUS
      <4>2. f[i] = f[k] \o seqs[i]
        BY <1>4, <4>1
      <4>3. CASE i = 1
        <5>1. f[k] = <<>>
          BY <1>3, <4>1, <4>3 DEF IsIteration
        <5>2. <<>> \o seqs[i] = seqs[i]
          OBVIOUS
        <5> QED
          BY <4>2, <4>3, <5>1, <5>2
      <4>4. CASE i # 1
        <5>1. g[k] = f[k]
          BY <4>1, <4>4
        <5>2. g[i] = f[i]
          OBVIOUS
        <5> HIDE DEF g
        <5> QED
          BY <4>1, <4>2, <4>4, <5>1, <5>2, Zenon
      <4> QED
        BY <4>3, <4>4
    <3>2. g = [i \in 1..N |-> g[i]]
      OBVIOUS
    <3> HIDE DEF g
    <3> QED
      BY <3>1, <3>2, Zenon
  <2>2. IsFlat(h)
    <3> HIDE DEF IsFlat
    <3> QED
      BY <2>1
  <2>3. FlattenSeq(seqs) = h[N]
    BY <1>7, Zenon DEF FlattenSeq
  <2>4. ASSUME NEW i \in 1..N
        PROVE  h[i] = IF i = 1 THEN seqs[i] ELSE h[i - 1] \o seqs[i]
    <3> HIDE DEF h
    <3>1. h[i] = [j \in 1..N |-> IF j = 1 THEN seqs[j] ELSE h[j - 1] \o seqs[j]][i]
      BY <2>2, Zenon
    <3> QED
      BY <3>1, Zenon
  <2> HIDE DEF h
  <2> DEFINE T == {n \in Nat : n \in 1..N => h[n] = f[n]}
  <2>5. 0 \in T
    OBVIOUS
  <2>6. ASSUME NEW n \in Nat, n \in T PROVE n + 1 \in T
    <3>1. SUFFICES ASSUME NEW m \in 1..N, m = n + 1 PROVE h[m] = f[m]
      OBVIOUS
    <3>2. n \in 0..N /\ n = m - 1
      BY <3>1
    <3>3. f[m] = f[n] \o seqs[m]
      BY <1>4, <3>2
    <3>4. CASE m = 1
      <4>1. f[n] = <<>>
        BY <1>3, <3>2, <3>4 DEF IsIteration
      <4>2. <<>> \o seqs[m] = seqs[m]
        OBVIOUS
      <4>3. h[m] = seqs[m]
        BY <2>4, <3>4
      <4> QED
        BY <3>3, <4>1, <4>2, <4>3
    <3>5. CASE m # 1
      <4>1. h[n] = f[n]
        BY <2>6, <3>2, <3>5
      <4>2. h[m] = h[n] \o seqs[m]
        BY <2>4, <3>2, <3>5, Zenon
      <4> QED
        BY <3>3, <4>1, <4>2, Zenon
    <3> QED
      BY <3>4, <3>5
  <2>7. N \in T
    <3> HIDE DEF T
    <3> QED
      BY <2>5, <2>6, NaturalInduction
  <2> QED
    BY <1>5, <1>7, <2>3, <2>7
<1> QED
  BY <1>6, <1>7

\* A concatenation is a sequence of what is in its parts.
LEMMA FlattenElements ==
  ASSUME NEW V, NEW seqs, Len(seqs) \in Nat, \A i \in 1..Len(seqs) : seqs[i] \in Seq(V),
         Len(seqs) = 0 => seqs = <<>>
  PROVE  /\ FlattenSeq(seqs) \in Seq(V)
         /\ \A x \in ToSet(FlattenSeq(seqs)) : \E i \in 1..Len(seqs) : x \in ToSet(seqs[i])
<1> DEFINE N == Len(seqs)
           Part(x) == \E i \in 1..N : x \in ToSet(seqs[i])
<1>1. PICK f \in [0..N -> Seq(V)] : Joins(f, seqs) /\ FlattenSeq(seqs) = f[N]
  BY FlattenJoins
<1> DEFINE T == {n \in Nat : n <= N => \A x \in ToSet(f[n]) : Part(x)}
<1>2. 0 \in T
  BY <1>1 DEF Joins, ToSet
<1>3. ASSUME NEW n \in Nat, n \in T PROVE n + 1 \in T
  <2> SUFFICES ASSUME n + 1 <= N PROVE \A x \in ToSet(f[n + 1]) : Part(x)
    OBVIOUS
  <2> PICK m \in 1..N : m = n + 1
    OBVIOUS
  <2>1. SUFFICES ASSUME NEW x \in ToSet(f[m]) PROVE Part(x)
    OBVIOUS
  <2>2. n \in 0..N /\ n = m - 1
    BY <2>1
  <2>3. f[m] = f[n] \o seqs[m]
    BY <1>1, <2>2, Zenon DEF Joins
  <2>4. f[n] \in Seq(V) /\ seqs[m] \in Seq(V)
    BY <2>2
  <2>5. x \in ToSet(f[n]) \/ x \in ToSet(seqs[m])
    <3>1. \A a, b \in Seq(V) : ToSet(a \o b) \subseteq ToSet(a) \cup ToSet(b)
      BY DEF ToSet
    <3> QED
      BY <2>1, <2>3, <2>4, <3>1
  <2>6. CASE x \in ToSet(f[n])
    BY <1>3, <2>2, <2>6
  <2>7. CASE x \in ToSet(seqs[m])
    BY <2>7
  <2> QED
    BY <2>5, <2>6, <2>7
<1>4. N \in T
  <2> HIDE DEF T
  <2> QED
    BY <1>2, <1>3, NaturalInduction
<1>5. f[N] \in Seq(V)
  OBVIOUS
<1> QED
  BY <1>1, <1>4, <1>5

\* Concatenation has the elements of both, and is associative.
LEMMA Concatenations ==
  ASSUME NEW V, NEW a \in Seq(V), NEW b \in Seq(V)
  PROVE  /\ a \o b \in Seq(V) /\ Len(a \o b) = Len(a) + Len(b)
         /\ ToSet(a \o b) = ToSet(a) \cup ToSet(b)
         /\ a \o <<>> = a /\ <<>> \o a = a
         /\ \A c \in Seq(V) : (a \o b) \o c = a \o (b \o c)
<1>1. a \o b \in Seq(V) /\ Len(a \o b) = Len(a) + Len(b) /\ a \o <<>> = a /\ <<>> \o a = a
  OBVIOUS
<1>2. ToSet(a \o b) \subseteq ToSet(a) \cup ToSet(b)
  BY DEF ToSet
<1>3. \A i \in DOMAIN a : i \in DOMAIN (a \o b) /\ (a \o b)[i] = a[i]
  OBVIOUS
<1>4. \A i \in DOMAIN b : Len(a) + i \in DOMAIN (a \o b) /\ (a \o b)[Len(a) + i] = b[i]
  OBVIOUS
<1>5. ToSet(a) \cup ToSet(b) \subseteq ToSet(a \o b)
  BY <1>3, <1>4 DEF ToSet
<1>6. \A c \in Seq(V) : (a \o b) \o c = a \o (b \o c)
  OBVIOUS
<1> QED
  BY <1>1, <1>2, <1>5, <1>6

Assoc(a, b, c) == (a \o b) \o c = a \o (b \o c)

\* Concatenation is associative.
LEMMA Associates ==
  ASSUME NEW V
  PROVE  \A a, b, c \in Seq(V) : Assoc(a, b, c)
BY Concatenations DEF Assoc

\* The concatenations of two lists of N parts differ in the ith part only.
DifferAt(i, N, V, seqs, other) ==
  \E a, b \in Seq(V) :
    /\ FlattenSeq(seqs) = (a \o seqs[i]) \o b
    /\ FlattenSeq(other) = (a \o other[i]) \o b
    /\ \A x \in ToSet(a) : \E k \in 1..N : k < i /\ x \in ToSet(seqs[k])

\* Two lists of parts that differ in one have concatenations that differ there.
LEMMA FlattenDiffer ==
  ASSUME NEW V, NEW N \in Nat, NEW seqs, NEW other, Len(seqs) = N, Len(other) = N, NEW i \in 1..N,
         \A k \in 1..N : seqs[k] \in Seq(V) /\ other[k] \in Seq(V),
         \A k \in 1..N : k # i => seqs[k] = other[k]
  PROVE  DifferAt(i, N, V, seqs, other)
<1>0. Len(seqs) # 0 /\ Len(other) # 0 /\ Len(seqs) \in Nat /\ Len(other) \in Nat
  OBVIOUS
<1>e. \A u, w \in Seq(V) : u \o w \in Seq(V) /\ ToSet(u \o w) = ToSet(u) \cup ToSet(w)
  BY Concatenations
<1>a. \A u, w, c \in Seq(V) : (u \o w) \o c = u \o (w \o c)
  BY Concatenations
<1>1. PICK f \in [0..N -> Seq(V)] : Joins(f, seqs) /\ FlattenSeq(seqs) = f[N]
  <2>1. \E f \in [0..Len(seqs) -> Seq(V)] : Joins(f, seqs) /\ FlattenSeq(seqs) = f[Len(seqs)]
    BY <1>0, FlattenJoins
  <2> QED
    BY <2>1, Zenon
<1>2. PICK g \in [0..N -> Seq(V)] : Joins(g, other) /\ FlattenSeq(other) = g[N]
  <2>1. \E g \in [0..Len(other) -> Seq(V)] : Joins(g, other) /\ FlattenSeq(other) = g[Len(other)]
    BY <1>0, FlattenJoins
  <2> QED
    BY <2>1, Zenon
<1>3. ASSUME NEW k \in 0..N, NEW m \in 1..N, m = k + 1
      PROVE  f[m] = f[k] \o seqs[m] /\ g[m] = g[k] \o other[m]
  <2>1. k = m - 1
    BY <1>3
  <2> QED
    BY <1>1, <1>2, <2>1, Zenon DEF Joins
<1> DEFINE Early(x) == \E k \in 1..N : k < i /\ x \in ToSet(seqs[k])
           Same == {n \in Nat : n < i => f[n] = g[n] /\ \A x \in ToSet(f[n]) : Early(x)}
<1>4. 0 \in Same
  <2>1. f[0] = <<>> /\ g[0] = <<>> /\ ToSet(<<>>) = {}
    BY <1>1, <1>2 DEF Joins, ToSet
  <2> HIDE DEF Early
  <2> QED
    BY <2>1
<1>r. \A x : \A k \in 1..N : k < i /\ x \in ToSet(seqs[k]) => Early(x)
  OBVIOUS
<1> HIDE DEF Early
<1>5. ASSUME NEW n \in Nat, n \in Same PROVE n + 1 \in Same
  <2> SUFFICES ASSUME n + 1 < i
               PROVE  f[n + 1] = g[n + 1] /\ \A x \in ToSet(f[n + 1]) : Early(x)
    OBVIOUS
  <2> PICK m \in 1..N : m = n + 1 /\ m < i
    OBVIOUS
  <2> SUFFICES f[m] = g[m] /\ \A x \in ToSet(f[m]) : Early(x)
    OBVIOUS
  <2>1. n \in 0..N /\ f[n] = g[n] /\ (\A x \in ToSet(f[n]) : Early(x)) /\ seqs[m] = other[m]
    BY <1>5
  <2>2. f[m] = f[n] \o seqs[m] /\ g[m] = g[n] \o other[m]
    BY <1>3, <2>1
  <2>3. ToSet(f[m]) = ToSet(f[n]) \cup ToSet(seqs[m])
    <3>1. f[n] \in Seq(V) /\ seqs[m] \in Seq(V)
      BY <2>1
    <3> QED
      BY <1>e, <2>2, <3>1
  <2>4. \A x \in ToSet(seqs[m]) : Early(x)
    BY <1>r
  <2>5. f[m] = g[m]
    BY <2>1, <2>2
  <2> QED
    BY <2>1, <2>3, <2>4, <2>5
<1>6. PICK p \in Nat : i = p + 1 /\ p < i /\ p \in 0..N
  <2>1. i - 1 \in Nat
    OBVIOUS
  <2> QED
    BY <2>1
<1>7. p \in Same
  <2> HIDE DEF Same
  <2> QED
    BY <1>4, <1>5, NaturalInduction
<1>8. f[p] = g[p] /\ \A x \in ToSet(f[p]) : Early(x)
  BY <1>6, <1>7
<1> HIDE DEF Same
<1> DEFINE a == f[p]
           After(n) == \E b \in Seq(V) : f[n] = (a \o seqs[i]) \o b /\ g[n] = (a \o other[i]) \o b
           T == {n \in Nat : n \in i..N => After(n)}
<1>9. a \in Seq(V) /\ f[i] = a \o seqs[i] /\ g[i] = a \o other[i]
  BY <1>3, <1>6, <1>8
<1>10. a \o seqs[i] \in Seq(V) /\ a \o other[i] \in Seq(V)
  BY <1>9, Concatenations
<1> HIDE DEF a
<1>11. After(i)
  <2>1. <<>> \in Seq(V) /\ f[i] = (a \o seqs[i]) \o <<>> /\ g[i] = (a \o other[i]) \o <<>>
    BY <1>9, <1>10, Concatenations
  <2> QED
    BY <2>1
<1> HIDE DEF After
<1>12. ASSUME NEW n \in Nat, n \in T PROVE n + 1 \in T
  <2> SUFFICES ASSUME n + 1 \in i..N PROVE After(n + 1)
    OBVIOUS
  <2> PICK m \in i..N : m = n + 1
    OBVIOUS
  <2> SUFFICES After(m)
    OBVIOUS
  <2>1. CASE m = i
    BY <1>11, <2>1, Zenon
  <2>2. CASE m # i
    <3>1. n \in i..N /\ n \in 0..N /\ m \in 1..N
      BY <2>2
    <3>2. PICK b \in Seq(V) : f[n] = (a \o seqs[i]) \o b /\ g[n] = (a \o other[i]) \o b
      BY <1>12, <3>1 DEF After
    <3>3. f[m] = f[n] \o seqs[m] /\ g[m] = g[n] \o seqs[m] /\ seqs[m] \in Seq(V)
      BY <1>3, <2>2, <3>1
    <3>4. b \o seqs[m] \in Seq(V)
      BY <1>e, <3>3
    <3> PICK u \in Seq(V) : u = a \o seqs[i]
      BY <1>10
    <3> PICK w \in Seq(V) : w = a \o other[i]
      BY <1>10
    <3> PICK z \in Seq(V) : z = seqs[m]
      BY <3>3
    <3>b. b \in Seq(V)
      BY <3>2
    <3>c. Assoc(u, b, z) /\ Assoc(w, b, z)
      BY <3>b, Associates
    <3>5. /\ ((a \o seqs[i]) \o b) \o seqs[m] = (a \o seqs[i]) \o (b \o seqs[m])
          /\ ((a \o other[i]) \o b) \o seqs[m] = (a \o other[i]) \o (b \o seqs[m])
      BY <3>c, Zenon DEF Assoc
    <3>6. f[m] = (a \o seqs[i]) \o (b \o seqs[m]) /\ g[m] = (a \o other[i]) \o (b \o seqs[m])
      BY <3>2, <3>3, <3>5, Zenon
    <3> QED
      BY <3>4, <3>6 DEF After
  <2> QED
    BY <2>1, <2>2
<1>13. N \in T
  <2>1. 0 \in T
    OBVIOUS
  <2> HIDE DEF T
  <2> QED
    BY <1>12, <2>1, NaturalInduction
<1>14. PICK b \in Seq(V) : f[N] = (a \o seqs[i]) \o b /\ g[N] = (a \o other[i]) \o b
  <2>1. N \in i..N
    OBVIOUS
  <2>2. After(N)
    BY <1>13, <2>1
  <2> QED
    BY <2>2 DEF After
<1>15. \A x \in ToSet(a) : Early(x)
  BY <1>8 DEF a
<1>16. FlattenSeq(seqs) = (a \o seqs[i]) \o b /\ FlattenSeq(other) = (a \o other[i]) \o b
  BY <1>1, <1>2, <1>14, Zenon
<1> QED
  BY <1>9, <1>15, <1>16, Zenon DEF Early, DifferAt

-----------------------------------------------------------------------------
(***************************************************************************)
(* The first occurrence of a symbol.                                       *)
(***************************************************************************)
\* The parts of a sequence are those between two places.
LEMMA SubSeqsOf ==
  ASSUME NEW t, NEW q
  PROVE  q \in SubSeqs(t) <=> \E i, j \in 0..Len(t) : q = SubSeq(t, i + 1, j)
BY DEF SubSeqs

\* The elements of a part are those of the sequence, from its first place on.
LEMMA PartIs ==
  ASSUME NEW V, NEW t \in Seq(V), NEW lo \in Nat, NEW hi \in 0..Len(t), lo >= 1
  PROVE  /\ SubSeq(t, lo, hi) \in Seq(V)
         /\ Len(SubSeq(t, lo, hi)) = IF lo <= hi THEN hi - lo + 1 ELSE 0
         /\ \A i \in 1..(hi - lo + 1) : SubSeq(t, lo, hi)[i] = t[lo + i - 1]
<1>1. \A i \in lo..hi : t[i] \in V
  OBVIOUS
<1>2. lo \in Int /\ hi \in Int
  OBVIOUS
<1> QED
  BY <1>1, <1>2, SubSeqProperties

\* A symbol is in a sequence when it is a part of it.
LEMMA OneSymbol ==
  ASSUME NEW V, NEW t \in Seq(V), NEW x
  PROVE  <<x>> \in SubSeqs(t) <=> x \in ToSet(t)
<1>1. ASSUME x \in ToSet(t) PROVE <<x>> \in SubSeqs(t)
  <2>1. PICK i \in 1..Len(t) : t[i] = x
    BY <1>1 DEF ToSet
  <2>2. PICK k \in 0..Len(t) : k + 1 = i
    <3>1. i - 1 \in 0..Len(t) /\ (i - 1) + 1 = i
      OBVIOUS
    <3> QED
      BY <3>1
  <2> DEFINE q == SubSeq(t, i, i)
  <2>3. q \in Seq(V) /\ Len(q) = 1 /\ q[1] = x
    <3>1. i \in Nat /\ i \in 0..Len(t) /\ i >= 1 /\ i - i + 1 = 1 /\ i + 1 - 1 = i /\ i <= i
      OBVIOUS
    <3> QED
      BY <2>1, <3>1, PartIs
  <2>4. q = <<x>>
    <3> HIDE DEF q
    <3> QED
      BY <2>3
  <2>5. i \in 0..Len(t)
    OBVIOUS
  <2>6. <<x>> = SubSeq(t, k + 1, i)
    BY <2>2, <2>4, Zenon
  <2> QED
    BY <2>5, <2>6, SubSeqsOf
<1>2. ASSUME <<x>> \in SubSeqs(t) PROVE x \in ToSet(t)
  <2>1. PICK i \in 0..Len(t), j \in 0..Len(t) : <<x>> = SubSeq(t, i + 1, j)
    BY <1>2, SubSeqsOf
  <2>2. PICK m \in Nat : m = i + 1 /\ m >= 1
    OBVIOUS
  <2>3. /\ Len(SubSeq(t, m, j)) = IF m <= j THEN j - m + 1 ELSE 0
        /\ \A k \in 1..(j - m + 1) : SubSeq(t, m, j)[k] = t[m + k - 1]
    BY <2>2, PartIs
  <2>4. <<x>> = SubSeq(t, m, j) /\ Len(<<x>>) = 1 /\ <<x>>[1] = x
    BY <2>1, <2>2
  <2>5. m = j
    BY <2>2, <2>3, <2>4
  <2>6. 1 \in 1..(j - m + 1) /\ m + 1 - 1 = m /\ m \in 1..Len(t)
    BY <2>2, <2>5
  <2>7. t[m] = x
    BY <2>3, <2>4, <2>6
  <2> QED
    BY <2>6, <2>7 DEF ToSet
<1> QED
  BY <1>1, <1>2

\* v takes the place of x between a and b.
TakesPlace(v, x, a, b) ==
  ReplaceFirstSubSeq(v, <<x>>, (a \o <<x>>) \o b) = (a \o v) \o b

\* The first of a symbol is replaced.
LEMMA ReplaceFirst ==
  ASSUME NEW V, NEW x \in V, NEW v \in Seq(V), NEW a \in Seq(V), NEW b \in Seq(V), x \notin ToSet(a)
  PROVE  TakesPlace(v, x, a, b)
<1> DEFINE t == (a \o <<x>>) \o b
<1>0. PICK p \in Nat : p = Len(a) + 1
  OBVIOUS
<1>1. /\ t \in Seq(V) /\ Len(t) = p + Len(b) /\ Len(a) \in Nat /\ Len(b) \in Nat /\ p \in 0..Len(t)
      /\ \A i \in 1..Len(a) : t[i] = a[i]
      /\ t[p] = x
      /\ SubSeq(t, 1, p - 1) = a /\ SubSeq(t, p + 1, Len(t)) = b
  BY <1>0
<1> HIDE DEF t
<1>2. ASSUME NEW j \in 0..Len(t) PROVE <<x>> \in SubSeqs(SubSeq(t, 1, j)) <=> j >= p
  <2> DEFINE q == SubSeq(t, 1, j)
  <2>1. /\ q \in Seq(V) /\ Len(q) = IF 1 <= j THEN j - 1 + 1 ELSE 0
        /\ \A i \in 1..(j - 1 + 1) : q[i] = t[1 + i - 1]
    BY <1>1, PartIs
  <2> HIDE DEF q
  <2>2. DOMAIN q = 1..j /\ \A i \in 1..j : q[i] = t[i]
    BY <2>1
  <2>3. <<x>> \in SubSeqs(q) <=> \E i \in 1..j : t[i] = x
    <3>1. x \in ToSet(q) <=> \E i \in 1..j : t[i] = x
      BY <2>2 DEF ToSet
    <3> QED
      BY <2>1, <3>1, OneSymbol
  <2>4. ASSUME j >= p PROVE \E i \in 1..j : t[i] = x
    BY <1>0, <1>1, <2>4
  <2>5. ASSUME j < p, NEW i \in 1..j PROVE t[i] # x
    <3>1. i \in 1..Len(a)
      BY <1>0, <1>1, <2>5
    <3>2. a[i] \in ToSet(a)
      BY <3>1 DEF ToSet
    <3> QED
      BY <1>1, <3>1, <3>2
  <2>6. j >= p \/ j < p
    BY <1>1
  <2> QED
    BY <1>1, <2>3, <2>4, <2>5, <2>6 DEF q
<1> DEFINE In(i) == <<x>> \in SubSeqs(SubSeq(t, 1, i))
           IsLast(i) == In(i) /\ \A j \in 0..i-1 : ~ In(j)
<1>2a. \A j \in 0..Len(t) : In(j) <=> j >= p
  BY <1>2
<1> HIDE DEF In
<1>3. IsLast(p)
  <2>1. \A j \in 0..(p - 1) : j \in 0..Len(t) /\ ~ (j >= p)
    BY <1>1
  <2> QED
    BY <1>1, <1>2a, <2>1
<1>4. ASSUME NEW i \in 0..Len(t), IsLast(i) PROVE i = p
  <2>1. i >= p
    BY <1>2a, <1>4
  <2>2. ASSUME i > p PROVE FALSE
    <3>1. p \in 0..(i - 1)
      BY <2>2
    <3> QED
      BY <1>1, <1>2a, <1>4, <3>1
  <2> QED
    BY <1>1, <2>1, <2>2
<1> HIDE DEF IsLast
<1>5. (CHOOSE i \in 0..Len(t) : IsLast(i)) = p
  BY <1>1, <1>3, <1>4
<1>6. IndexFirstSubSeq(<<x>>, t) = p
  <2>1. Len(<<x>>) = 1
    OBVIOUS
  <2>2. p - (1 - 1) = p
    BY <1>1
  <2>3. IndexFirstSubSeq(<<x>>, t) = (CHOOSE i \in 0..Len(t) : IsLast(i)) - (Len(<<x>>) - 1)
    BY Zenon DEF IndexFirstSubSeq, IsLast, In
  <2> QED
    BY <1>5, <2>1, <2>2, <2>3
<1>7. <<x>> \in SubSeqs(t)
  <2>1. x \in ToSet(t)
    BY <1>0, <1>1 DEF ToSet
  <2> QED
    BY <1>1, <2>1, OneSymbol
<1>8. ReplaceFirstSubSeq(v, <<x>>, t) = SubSeq(t, 1, p - 1) \o v \o SubSeq(t, p + Len(<<x>>), Len(t))
  BY <1>6, <1>7, Zenon DEF ReplaceFirstSubSeq, ReplaceSubSeqAt
<1>9. SubSeq(t, 1, p - 1) = a /\ SubSeq(t, p + Len(<<x>>), Len(t)) = b
  <2>1. Len(<<x>>) = 1
    OBVIOUS
  <2> QED
    BY <1>1, <2>1, Zenon
<1>10. ReplaceFirstSubSeq(v, <<x>>, t) = (a \o v) \o b
  BY <1>8, <1>9, Zenon
<1> QED
  BY <1>10, Zenon DEF t, TakesPlace

\* What is not there is not replaced.
LEMMA ReplaceNone ==
  ASSUME NEW V, NEW x, NEW v, NEW t \in Seq(V), x \notin ToSet(t)
  PROVE  ReplaceFirstSubSeq(v, <<x>>, t) = t
<1>1. <<x>> \notin SubSeqs(t)
  BY OneSymbol
<1> QED
  BY <1>1, Zenon DEF ReplaceFirstSubSeq

\* A symbol that is there is there for a first time.
LEMMA FirstOccurrence ==
  ASSUME NEW V, NEW x, NEW t \in Seq(V), x \in ToSet(t)
  PROVE  \E a, b \in Seq(V) : t = (a \o <<x>>) \o b /\ x \notin ToSet(a)
<1> DEFINE at == {i \in 1..Len(t) : t[i] = x}
<1>1. at # {} /\ at \subseteq Nat
  BY DEF ToSet
<1>2. PICK p \in at : \A i \in at : p <= i
  <2> HIDE DEF at
  <2> QED
    BY <1>1, LeastNatural
<1>3. PICK q \in 0..Len(t) : q = p - 1
  OBVIOUS
<1> DEFINE a == SubSeq(t, 1, q)
           b == SubSeq(t, p + 1, Len(t))
<1>4. /\ a \in Seq(V) /\ Len(a) = IF 1 <= q THEN q - 1 + 1 ELSE 0
      /\ \A i \in 1..(q - 1 + 1) : a[i] = t[1 + i - 1]
  BY PartIs
<1>5. b \in Seq(V)
  <2>1. p + 1 \in Nat /\ p + 1 >= 1 /\ Len(t) \in 0..Len(t)
    OBVIOUS
  <2> QED
    BY <2>1, PartIs
<1>6. SubSeq(t, 1, p) = a \o <<x>>
  <2>1. 1 \in 1..Len(t) /\ p \in 1..Len(t) /\ t[p] = x
    OBVIOUS
  <2>2. SubSeq(t, 1, p) = SubSeq(t, 1, p - 1) \o <<t[p]>>
    BY <2>1, SubSeqRecursiveSecond
  <2> QED
    BY <1>3, <2>1, <2>2, Zenon
<1>7. SubSeq(t, 1, p) \o b = t
  <2>1. 1 \in 1..Len(t)+1 /\ p \in (1 - 1)..Len(t) /\ Len(t) \in p..Len(t)
    OBVIOUS
  <2>2. SubSeq(t, 1, p) \o SubSeq(t, p + 1, Len(t)) = SubSeq(t, 1, Len(t))
    BY <2>1, ConcatAdjacentSubSeq
  <2> QED
    BY <2>2, SubSeqFull
<1>8. x \notin ToSet(a)
  <2> HIDE DEF a
  <2> SUFFICES ASSUME x \in ToSet(a) PROVE FALSE
    OBVIOUS
  <2>1. PICK i \in 1..q : a[i] = x
    BY <1>4 DEF ToSet
  <2>2. t[i] = x /\ i \in 1..Len(t) /\ i < p
    BY <1>3, <1>4, <2>1
  <2> QED
    BY <1>2, <2>2
<1> HIDE DEF a, b
<1> QED
  BY <1>4, <1>5, <1>6, <1>7, <1>8

\* A sequence in which it is replaced is one of the same symbols and those it is replaced by.
LEMMA Replaced ==
  ASSUME NEW V, NEW x \in V, NEW v \in Seq(V), NEW t \in Seq(V)
  PROVE  ReplaceFirstSubSeq(v, <<x>>, t) \in Seq(V)
<1>1. CASE x \in ToSet(t)
  <2>1. PICK a \in Seq(V), b \in Seq(V) : t = (a \o <<x>>) \o b /\ x \notin ToSet(a)
    BY <1>1, FirstOccurrence
  <2>2. ReplaceFirstSubSeq(v, <<x>>, t) = (a \o v) \o b
    <3>1. ReplaceFirstSubSeq(v, <<x>>, (a \o <<x>>) \o b) = (a \o v) \o b
      <4>1. TakesPlace(v, x, a, b)
        BY <2>1, ReplaceFirst
      <4> QED
        BY <4>1, Zenon DEF TakesPlace
    <3> QED
      BY <2>1, <3>1, Zenon
  <2>3. (a \o v) \o b \in Seq(V)
    OBVIOUS
  <2> QED
    BY <2>2, <2>3, Zenon
<1>2. CASE x \notin ToSet(t)
  BY <1>2, ReplaceNone
<1> QED
  BY <1>1, <1>2

\* A sequence is the concatenation of its symbols.
LEMMA FlattenSymbols ==
  ASSUME NEW V, NEW t \in Seq(V)
  PROVE  FlattenSeq([i \in 1..Len(t) |-> <<t[i]>>]) = t
<1> DEFINE N == Len(t)
           seqs == [i \in 1..N |-> <<t[i]>>]
<1>1. /\ N \in Nat /\ Len(seqs) = N /\ (Len(seqs) = 0 => seqs = <<>>)
      /\ \A i \in 1..N : seqs[i] \in Seq(V) /\ seqs[i] = <<t[i]>>
  OBVIOUS
<1> HIDE DEF seqs
<1>2. PICK f \in [0..N -> Seq(V)] : Joins(f, seqs) /\ FlattenSeq(seqs) = f[N]
  <2>1. \E f \in [0..Len(seqs) -> Seq(V)] : Joins(f, seqs) /\ FlattenSeq(seqs) = f[Len(seqs)]
    BY <1>1, FlattenJoins
  <2> QED
    BY <1>1, <2>1, Zenon
<1> DEFINE T == {n \in Nat : n <= N => Len(f[n]) = n /\ \A i \in 1..n : f[n][i] = t[i]}
<1>3. 0 \in T
  BY <1>2 DEF Joins
<1>4. ASSUME NEW n \in Nat, n \in T PROVE n + 1 \in T
  <2> SUFFICES ASSUME n + 1 <= N
               PROVE  Len(f[n + 1]) = n + 1 /\ \A i \in 1..(n + 1) : f[n + 1][i] = t[i]
    OBVIOUS
  <2> PICK m \in 1..N : m = n + 1
    OBVIOUS
  <2>1. n \in 0..N /\ n = m - 1 /\ f[n] \in Seq(V) /\ Len(f[n]) = n /\ \A i \in 1..n : f[n][i] = t[i]
    BY <1>4
  <2>2. f[m] = f[n] \o <<t[m]>>
    BY <1>1, <1>2, <2>1, Zenon DEF Joins
  <2>3. \A u \in Seq(V), y \in V : /\ Len(u \o <<y>>) = Len(u) + 1
                                   /\ \A i \in 1..Len(u) : (u \o <<y>>)[i] = u[i]
                                   /\ (u \o <<y>>)[Len(u) + 1] = y
    OBVIOUS
  <2>4. /\ Len(f[m]) = n + 1 /\ f[m][m] = t[m]
        /\ \A i \in 1..n : f[m][i] = f[n][i]
    <3>1. t[m] \in V
      OBVIOUS
    <3>2. /\ Len(f[n] \o <<t[m]>>) = n + 1
          /\ \A i \in 1..n : (f[n] \o <<t[m]>>)[i] = f[n][i]
          /\ (f[n] \o <<t[m]>>)[n + 1] = t[m]
      BY <2>1, <2>3, <3>1
    <3> QED
      BY <2>2, <3>2, Zenon
  <2>5. Len(f[m]) = m /\ \A i \in 1..m : f[m][i] = t[i]
    <3>1. \A i \in 1..m : i = m \/ i \in 1..n
      OBVIOUS
    <3> QED
      BY <2>1, <2>4, <3>1
  <2> QED
    BY <2>5
<1>5. N \in T
  <2> HIDE DEF T
  <2> QED
    BY <1>1, <1>3, <1>4, NaturalInduction
<1>6. f[N] = t
  <2>1. f[N] \in Seq(V) /\ Len(f[N]) = N /\ \A i \in 1..N : f[N][i] = t[i]
    BY <1>1, <1>5
  <2> QED
    BY <2>1
<1> QED
  BY <1>2, <1>6 DEF seqs

-----------------------------------------------------------------------------
(***************************************************************************)
(* Folds from the left, and sequences whose elements are all different.    *)
(***************************************************************************)
\* A fold from the left, over the places of a sequence: the last place is done last.
\* The steps are functions, whose arguments are in V.
IsLeftFold(g, N, V, base, step) ==
  /\ base \in V /\ \A i \in 1..N, v \in V : step[i][v] \in V
  /\ g[{}] = base
  /\ \A s \in SUBSET (1..N) : s # {} /\ g[s \ {Max(s)}] \in V => g[s] = step[Max(s)][g[s \ {Max(s)}]]

\* The last of the places 1..j is j, and without it they are those up to the one before.
LEMMA LastPlace ==
  ASSUME NEW N \in Nat, NEW j \in 1..N, NEW i \in 0..N, i = j - 1
  PROVE  /\ 1..j \in SUBSET (1..N) /\ 1..j # {} /\ (1..j) \ {j} = 1..i
         /\ Max(1..j) = j
<1>1. 1..j \subseteq 1..N /\ 1..j # {} /\ j \in 1..j
  OBVIOUS
<1>2. (1..j) \ {j} = 1..i
  OBVIOUS
<1>3. 1..j \subseteq 0..N
  OBVIOUS
<1>4. Max(1..j) \in 1..j /\ \A m \in 1..j : m <= Max(1..j)
  BY <1>1, <1>3, MaxIsGreatest
<1>5. Max(1..j) = j
  <2> PICK m \in 1..j : m = Max(1..j)
    BY <1>4
  <2>1. j <= m
    BY <1>1, <1>4
  <2> QED
    BY <2>1
<1> QED
  BY <1>1, <1>2, <1>5

\* A fold from the left over 1..N exists.
LEMMA LeftFoldExists ==
  ASSUME NEW N \in Nat, NEW V, NEW base \in V, NEW step, \A i \in 1..N, v \in V : step[i][v] \in V
  PROVE  \E g \in [SUBSET (1..N) -> V] : IsLeftFold(g, N, V, base, step)
<1> DEFINE Is == 1..N
           pick == [s \in SUBSET Is |-> Max(s)]
<1>1. IsFiniteSet(Is)
  BY FS_Interval
<1>2. \A s \in SUBSET Is : s # {} => Max(s) \in s
  <2> SUFFICES ASSUME NEW s \in SUBSET Is, s # {} PROVE Max(s) \in s
    OBVIOUS
  <2>1. s \subseteq 0..N
    OBVIOUS
  <2> QED
    BY <2>1, MaxIsGreatest
<1>3. Picks(pick, Is)
  BY <1>2 DEF Picks
<1>4. \A i \in Is, v \in V : step[i][v] \in V
  OBVIOUS
<1>5. \A s \in SUBSET Is : pick[s] = Max(s)
  OBVIOUS
<1> HIDE DEF Is, pick
<1>6. PICK g \in [SUBSET Is -> V] : IsFold(g, Is, base, step, pick)
  BY <1>1, <1>3, <1>4, FoldExists
<1>7. IsLeftFold(g, N, V, base, step)
  <2>1. {} \in SUBSET Is
    OBVIOUS
  <2> QED
    BY <1>5, <1>6, <2>1, Zenon DEF IsFold, IsLeftFold, Is
<1> QED
  BY <1>7 DEF Is

\* A fold from the left goes through the places one after the other.
LEMMA LeftFoldIterates ==
  ASSUME NEW N \in Nat, NEW V, NEW base, NEW step, NEW h, IsLeftFold(h, N, V, base, step)
  PROVE  \E p \in [0..N -> V] : IsIteration(p, N, base, step) /\ h[1..N] = p[N]
<1> DEFINE p == [i \in 0..N |-> h[1..i]]
<1>0. base \in V /\ \A i \in 1..N, v \in V : step[i][v] \in V
  BY DEF IsLeftFold
<1>1. h[1..0] = base
  <2>1. 1..0 = {}
    OBVIOUS
  <2> QED
    BY <2>1, Zenon DEF IsLeftFold
<1>2. ASSUME NEW j \in 1..N, NEW i \in 0..N, i = j - 1, h[1..i] \in V
      PROVE  h[1..j] = step[j][h[1..i]]
  <2>1. /\ 1..j \in SUBSET (1..N) /\ 1..j # {} /\ (1..j) \ {j} = 1..i
        /\ Max(1..j) = j
    BY <1>2, LastPlace
  <2>2. h[(1..j) \ {Max(1..j)}] = h[1..i]
    BY <2>1
  <2>3. h[1..j] = step[Max(1..j)][h[(1..j) \ {Max(1..j)}]]
    BY <1>2, <2>1, <2>2, Zenon DEF IsLeftFold
  <2> QED
    BY <2>1, <2>2, <2>3
<1> DEFINE T == {n \in Nat : n <= N => h[1..n] \in V}
<1>3. 0 \in T
  BY <1>0, <1>1
<1>4. ASSUME NEW n \in Nat, n \in T PROVE n + 1 \in T
  <2> SUFFICES ASSUME NEW j \in 1..N, j = n + 1 PROVE h[1..j] \in V
    OBVIOUS
  <2>1. n \in 0..N /\ n = j - 1 /\ h[1..n] \in V
    BY <1>4
  <2> QED
    BY <1>0, <1>2, <2>1
<1>5. \A n \in 0..N : h[1..n] \in V
  <2>1. Nat \subseteq T
    <3> HIDE DEF T
    <3> QED
      BY <1>3, <1>4, NaturalInduction
  <2> QED
    BY <2>1
<1>6. p \in [0..N -> V] /\ p[0] = base /\ p[N] = h[1..N]
  BY <1>0, <1>1, <1>5
<1>7. ASSUME NEW j \in 1..N PROVE p[j] = step[j][p[j - 1]]
  <2>1. PICK i \in 0..N : i = j - 1
    OBVIOUS
  <2>2. p[j] = h[1..j] /\ p[i] = h[1..i] /\ h[1..i] \in V
    BY <1>5
  <2> HIDE DEF p
  <2> QED
    BY <1>2, <2>1, <2>2, Zenon
<1> HIDE DEF p
<1> QED
  BY <1>6, <1>7 DEF IsIteration

\* No element of the sequence comes twice.
Distinct(q) == \A a, b \in 1..Len(q) : q[a] = q[b] => a = b

\* A place in a concatenation is one in the first sequence or in the second.
LEMMA ConcatenationParts ==
  ASSUME NEW V, NEW a \in Seq(V), NEW b \in Seq(V)
  PROVE  /\ \A i \in 1..Len(a) : (a \o b)[i] = a[i]
         /\ \A i \in 1..Len(b) : (a \o b)[Len(a) + i] = b[i]
         /\ \A c \in 1..Len(a \o b) : c \in 1..Len(a) \/ \E d \in 1..Len(b) : c = Len(a) + d
<1>1. \A i \in 1..Len(a) : (a \o b)[i] = a[i]
  OBVIOUS
<1>2. \A i \in 1..Len(b) : (a \o b)[Len(a) + i] = b[i]
  OBVIOUS
<1>3. Len(a) \in Nat /\ Len(b) \in Nat /\ Len(a \o b) = Len(a) + Len(b)
  OBVIOUS
<1>4. ASSUME NEW m \in Nat, NEW k \in Nat, NEW c \in 1..(m + k), c \notin 1..m
      PROVE  \E d \in 1..k : c = m + d
  <2>1. c - m \in 1..k /\ c = m + (c - m)
    BY <1>4
  <2> QED
    BY <2>1
<1>5. ASSUME NEW c \in 1..Len(a \o b), c \notin 1..Len(a)
      PROVE  \E d \in 1..Len(b) : c = Len(a) + d
  <2>1. c \in 1..(Len(a) + Len(b))
    BY <1>3, <1>5
  <2> QED
    BY <1>3, <1>4, <1>5, <2>1
<1> QED
  BY <1>1, <1>2, <1>5

\* Sequences without repetition that share nothing join to one without repetition.
LEMMA DistinctJoin ==
  ASSUME NEW V, NEW g \in Seq(V), NEW q \in Seq(V), Distinct(g), Distinct(q),
         \A x \in ToSet(g) : x \notin ToSet(q)
  PROVE  Distinct(g \o q)
<1>1. \A a \in 1..Len(g) : g[a] \in ToSet(g)
  BY DEF ToSet
<1>2. \A a \in 1..Len(q) : q[a] \in ToSet(q)
  BY DEF ToSet
<1> SUFFICES ASSUME NEW a \in 1..Len(g \o q), NEW b \in 1..Len(g \o q), (g \o q)[a] = (g \o q)[b]
             PROVE  a = b
  BY DEF Distinct
<1>3. /\ a \in 1..Len(g) \/ \E d \in 1..Len(q) : a = Len(g) + d
      /\ b \in 1..Len(g) \/ \E d \in 1..Len(q) : b = Len(g) + d
  BY ConcatenationParts
<1>p. /\ \A i \in 1..Len(g) : (g \o q)[i] = g[i]
      /\ \A i \in 1..Len(q) : (g \o q)[Len(g) + i] = q[i]
  BY ConcatenationParts
<1>4. CASE a \in 1..Len(g) /\ b \in 1..Len(g)
  <2>1. g[a] = g[b]
    BY <1>p, <1>4
  <2> QED
    BY <1>4, <2>1 DEF Distinct
<1>5. ASSUME NEW c \in 1..Len(q), a = Len(g) + c, NEW d \in 1..Len(q), b = Len(g) + d
      PROVE  a = b
  <2>1. q[c] = q[d]
    BY <1>p, <1>5
  <2>2. c = d
    BY <2>1 DEF Distinct
  <2> QED
    BY <1>5, <2>2
<1>6. ASSUME a \in 1..Len(g), NEW d \in 1..Len(q), b = Len(g) + d PROVE FALSE
  <2>1. g[a] = q[d]
    BY <1>p, <1>6
  <2> QED
    BY <1>1, <1>2, <1>6, <2>1
<1>7. ASSUME b \in 1..Len(g), NEW d \in 1..Len(q), a = Len(g) + d PROVE FALSE
  <2>1. g[b] = q[d]
    BY <1>p, <1>7
  <2> QED
    BY <1>1, <1>2, <1>7, <2>1
<1> QED
  BY <1>3, <1>4, <1>5, <1>6, <1>7

\* A product, as a name: the provers meet no multiplication where they need none.
Times(a, b) == a * b

\* One is neutral.
LEMMA TimesOne == \A n \in Nat : Times(n, 1) = n
BY DEF Times

\* Sequences of one length that share no element.
Rows(seqs, V, K) ==
  /\ \A i \in 1..Len(seqs) : seqs[i] \in Seq(V) /\ Len(seqs[i]) = K /\ Distinct(seqs[i])
  /\ \A i, j \in 1..Len(seqs) : i # j => ToSet(seqs[i]) \cap ToSet(seqs[j]) = {}

\* One after the other.
RowsJoined(flat, seqs, V, K) ==
  /\ flat \in Seq(V) /\ Len(flat) = Times(Len(seqs), K) /\ Distinct(flat)
  /\ \A x \in ToSet(flat) : \E i \in 1..Len(seqs) : x \in ToSet(seqs[i])

\* Rows of one length that share nothing join to as many elements, all different.
LEMMA FlattenApart ==
  ASSUME NEW V, NEW N \in Nat \ {0}, NEW K \in Nat, NEW seqs, Len(seqs) = N, Rows(seqs, V, K)
  PROVE  RowsJoined(FlattenSeq(seqs), seqs, V, K)
<1>0. /\ \A i \in 1..N : seqs[i] \in Seq(V) /\ Len(seqs[i]) = K /\ Distinct(seqs[i])
      /\ \A i, j \in 1..N : i # j => ToSet(seqs[i]) \cap ToSet(seqs[j]) = {}
  BY DEF Rows
<1>1. PICK f \in [0..N -> Seq(V)] : Joins(f, seqs) /\ FlattenSeq(seqs) = f[N]
  <2>1. Len(seqs) \in Nat /\ (Len(seqs) = 0 => seqs = <<>>) /\ \A i \in 1..Len(seqs) : seqs[i] \in Seq(V)
    BY <1>0
  <2>2. \E f \in [0..Len(seqs) -> Seq(V)] : Joins(f, seqs) /\ FlattenSeq(seqs) = f[Len(seqs)]
    BY <2>1, FlattenJoins
  <2> QED
    BY <2>2, Zenon
<1> DEFINE From(n, x) == \E i \in 1..n : x \in ToSet(seqs[i])
           Good(n) == /\ Len(f[n]) = Times(n, K) /\ Distinct(f[n])
                      /\ \A x \in ToSet(f[n]) : From(n, x)
           T == {n \in Nat : n <= N => Good(n)}
<1>2. 0 \in T
  <2>1. f[0] = <<>>
    BY <1>1 DEF Joins
  <2>2. Len(f[0]) = Times(0, K)
    BY <2>1 DEF Times
  <2> QED
    BY <2>1, <2>2 DEF Distinct, ToSet
<1>3. ASSUME NEW n \in Nat, n \in T PROVE n + 1 \in T
  <2> SUFFICES ASSUME NEW m \in 1..N, m = n + 1 PROVE Good(m)
    <3> HIDE DEF Good
    <3> QED
      OBVIOUS
  <2>1. n \in 0..N /\ n = m - 1
    OBVIOUS
  <2>2. f[m] = f[n] \o seqs[m]
    BY <1>1, <2>1, Zenon DEF Joins
  <2>4. Good(n)
    BY <1>3, <2>1
  <2> PICK g \in Seq(V) : g = f[n]
    BY <2>1
  <2> PICK q \in Seq(V) : q = seqs[m]
    BY <1>0
  <2>3. Len(q) = K /\ Distinct(q) /\ f[m] = g \o q
    BY <1>0, <2>2
  <2>5. Len(g) = Times(n, K) /\ Distinct(g) /\ \A x \in ToSet(g) : From(n, x)
    BY <2>4
  <2>6. Len(g \o q) = Len(g) + Len(q) /\ ToSet(g \o q) = ToSet(g) \cup ToSet(q)
    BY Concatenations
  <2>7. Len(f[m]) = Times(m, K)
    <3>2. Times(m, K) = Times(n, K) + K
      BY <2>1 DEF Times
    <3> QED
      BY <2>3, <2>5, <2>6, <3>2
  <2>8. \A x \in ToSet(f[m]) : From(m, x)
    <3>2. \A x : From(n, x) => From(m, x)
      BY <2>1
    <3>3. \A x \in ToSet(q) : From(m, x)
      OBVIOUS
    <3> HIDE DEF From
    <3> QED
      BY <2>3, <2>5, <2>6, <3>2, <3>3
  <2>9. \A x \in ToSet(g) : x \notin ToSet(q)
    <3> SUFFICES ASSUME NEW x \in ToSet(g) PROVE x \notin ToSet(q)
      OBVIOUS
    <3>1. PICK i \in 1..n : x \in ToSet(seqs[i])
      BY <2>5
    <3>2. i \in 1..N /\ i # m
      BY <2>1
    <3> QED
      BY <1>0, <3>1, <3>2
  <2>10. Distinct(g \o q)
    BY <2>3, <2>5, <2>9, DistinctJoin
  <2> QED
    BY <2>3, <2>7, <2>8, <2>10
<1>4. N \in T
  <2> HIDE DEF T
  <2> QED
    BY <1>2, <1>3, NaturalInduction
<1> QED
  BY <1>1, <1>4 DEF RowsJoined
=============================================================================
