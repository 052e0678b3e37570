----------------------------- MODULE RecoveryProofs -----------------------------
(* Theorems about the panel of an edited claim, for every vocabulary, every    *)
(* text and revision and every limit: the diff it is built from can be read    *)
(* back on both sides and keeps a longest common subsequence; marks, omitted   *)
(* blanks and counts lose nothing; and what it compares with was signed.  The  *)
(* recursions of Wording are functions over the tails of two texts: their      *)
(* values are found by the rank of a tail, how much of it is left.             *)
EXTENDS Recovery, TLAPS, FiniteSetTheorems, SequenceTheorems, WellFoundedInduction

-----------------------------------------------------------------------------
(* What a function defined by recursion over a finite grid is, and what holds of all sequences. *)

\* A set of numbers has a least.
LEMMA LeastNat ==
  ASSUME NEW T, T \subseteq Nat, T # {}
  PROVE  \E x \in T : \A y \in T : x <= y
<1> DEFINE R == OpToRel(<, Nat)
<1>1. IsWellFoundedOn(R, Nat)
  BY NatLessThanWellFounded
<1> HIDE DEF R
<1>2. PICK x \in T : \A y \in T : <<y, x>> \notin R
  BY <1>1, WFMin
<1>3. ASSUME NEW y \in T PROVE x <= y
  <2>1. ~(y < x)
    BY <1>2 DEF R, OpToRel
  <2> QED
    BY <2>1
<1> QED
  BY <1>3

\* Each set of things that have a rank has one of the lowest.
LEMMA Lowest ==
  ASSUME NEW D, NEW rank \in [D -> Nat], NEW Bad, Bad \subseteq D, Bad # {}
  PROVE  \E p \in Bad : \A q \in Bad : rank[p] <= rank[q]
<1> DEFINE Ranks == {rank[p] : p \in Bad}
<1>1. Ranks \subseteq Nat /\ Ranks # {}
  OBVIOUS
<1>2. PICK k \in Ranks : \A l \in Ranks : k <= l
  <2> HIDE DEF Ranks
  <2> QED
    BY <1>1, LeastNat
<1> QED
  BY <1>2

\* A step T of a recursion over D with values in A, by rank: the value at p
\* depends on no values but those of lower rank.
Recursive(D, bound, rank, A, T) ==
    /\ bound \in Nat /\ rank \in [D -> 0..bound]
    /\ A # {} /\ T \in [[D -> A] -> [D -> A]]
    /\ \A h, k \in [D -> A], p \in D :
          T[h][p] # T[k][p] => \E q \in D : rank[q] < rank[p] /\ h[q] # k[q]

\* Two that differ, differ at a lower rank.
LowerYet(D, rank, h, k) ==
    /\ rank \in [D -> Nat]
    /\ \A p \in D : h[p] # k[p] => \E q \in D : rank[q] < rank[p] /\ h[q] # k[q]

\* A recursion of that kind has a solution.
LEMMA Recursion ==
  ASSUME NEW D, NEW bound, NEW rank, NEW A, NEW T, Recursive(D, bound, rank, A, T)
  PROVE  \E h \in [D -> A] : T[h] = h
<1> bound \in Nat /\ rank \in [D -> 0..bound] /\ T \in [[D -> A] -> [D -> A]]
  BY DEF Recursive
<1> PICK start \in A : TRUE
  BY DEF Recursive
<1> DEFINE Solved(h, r) == \A p \in D : rank[p] < r => T[h][p] = h[p]
           Bad == {r \in Nat : \A h \in [D -> A] : ~Solved(h, r)}
<1>1. Bad = {}
  <2> SUFFICES ASSUME Bad # {} PROVE FALSE
    OBVIOUS
  <2>1. PICK r \in Bad : \A l \in Bad : r <= l
    <3>1. Bad \subseteq Nat
      OBVIOUS
    <3> HIDE DEF Bad
    <3> QED
      BY <3>1, LeastNat
  <2>2. CASE r = 0
    <3>1. [p \in D |-> start] \in [D -> A] /\ Solved([p \in D |-> start], r)
      BY <2>2
    <3> QED
      BY <3>1
  <2>3. CASE r # 0
    <3>1. r - 1 \in Nat /\ r - 1 \notin Bad
      BY <2>1, <2>3
    <3>2. PICK h \in [D -> A] : Solved(h, r - 1)
      BY <3>1
    <3>3. T[h] \in [D -> A]
      OBVIOUS
    <3>4. ASSUME NEW p \in D, rank[p] < r PROVE T[T[h]][p] = T[h][p]
      <4>1. ASSUME NEW q \in D, rank[q] < rank[p] PROVE T[h][q] = h[q]
        <5>1. rank[q] < r - 1
          BY <3>4, <4>1
        <5> QED
          BY <5>1, <3>2
      <4> QED
        BY <3>3, <4>1 DEF Recursive
    <3>5. Solved(T[h], r)
      BY <3>4
    <3> HIDE DEF Solved
    <3> QED
      BY <3>3, <3>5
  <2> QED
    BY <2>2, <2>3
<1>2. bound + 1 \in Nat
  OBVIOUS
<1>3. PICK h \in [D -> A] : Solved(h, bound + 1)
  BY <1>1, <1>2
<1>4. T[h] \in [D -> A] /\ \A p \in D : T[h][p] = h[p]
  BY <1>3
<1>5. T[h] = h
  BY <1>4
<1> QED
  BY <1>5

\* And no other.
LEMMA Unique ==
  ASSUME NEW D, NEW rank, NEW h, NEW k, LowerYet(D, rank, h, k)
  PROVE  \A p \in D : h[p] = k[p]
<1> rank \in [D -> Nat]
  BY DEF LowerYet
<1> DEFINE Bad == {p \in D : h[p] # k[p]}
<1>1. Bad = {}
  <2> SUFFICES ASSUME Bad # {} PROVE FALSE
    OBVIOUS
  <2>1. PICK p \in Bad : \A q \in Bad : rank[p] <= rank[q]
    <3>1. Bad \subseteq D
      OBVIOUS
    <3> HIDE DEF Bad
    <3> QED
      BY <3>1, Lowest
  <2>2. PICK q \in D : rank[q] < rank[p] /\ h[q] # k[q]
    BY <2>1 DEF LowerYet
  <2>3. q \in Bad /\ rank[p] \in Nat /\ rank[q] \in Nat
    BY <2>1, <2>2
  <2> QED
    BY <2>1, <2>2, <2>3
<1> QED
  BY <1>1

\* What holds of the first number and of the next of each holds of all.
LEMMA Count ==
  ASSUME NEW n \in Nat, NEW S, 0 \in S, \A i \in 1..n : i - 1 \in S => i \in S
  PROVE  \A i \in 0..n : i \in S
<1> DEFINE Bad == (0..n) \ S
<1> SUFFICES ASSUME Bad # {} PROVE FALSE
  OBVIOUS
<1>1. Bad \subseteq Nat
  OBVIOUS
<1>2. PICK i \in Bad : \A j \in Bad : i <= j
  <2> HIDE DEF Bad
  <2> QED
    BY <1>1, LeastNat
<1>3. i \in 1..n /\ i - 1 \in 0..n /\ i - 1 \notin Bad
  BY <1>2
<1> QED
  BY <1>2, <1>3

\* What holds of the empty sequence, and of s with x when it holds of s, holds of all.
LEMMA Growing ==
  ASSUME NEW V, NEW S, <<>> \in S, \A s \in Seq(V), x \in V : s \in S => Append(s, x) \in S
  PROVE  \A s \in Seq(V) : s \in S
<1> DEFINE Bad == Seq(V) \ S
           rank == [s \in Seq(V) |-> Len(s)]
<1> SUFFICES ASSUME Bad # {} PROVE FALSE
  OBVIOUS
<1>1. PICK s \in Bad : \A r \in Bad : Len(s) <= Len(r)
  <2>1. rank \in [Seq(V) -> Nat] /\ Bad \subseteq Seq(V)
    BY LenProperties
  <2>2. \E s \in Bad : \A r \in Bad : rank[s] <= rank[r]
    <3> HIDE DEF Bad, rank
    <3> QED
      BY <2>1, Lowest
  <2> QED
    BY <2>2
<1>2. PICK r \in Seq(V), x \in V : s = Append(r, x)
  BY SequenceEmptyOrAppend
<1>3. Len(r) < Len(s) /\ r \in S
  BY <1>1, <1>2, AppendProperties, LenProperties
<1> QED
  BY <1>2, <1>3

-----------------------------------------------------------------------------
(* Concatenation. *)

\* Nothing concatenates to nothing.
LEMMA FlattenEmpty == FlattenSeq(<<>>) = <<>>
  BY DEF FlattenSeq

\* The concatenation of a sequence of sequences, as it grows.
LEMMA FlattenRuns ==
  ASSUME NEW V, NEW ss \in Seq(Seq(V)), ss # <<>>
  PROVE  \E f \in [1..Len(ss) -> Seq(V)] :
            /\ FlattenSeq(ss) = f[Len(ss)]
            /\ \A i \in 1..Len(ss) : f[i] = IF i = 1 THEN ss[i] ELSE f[i-1] \o ss[i]
<1> DEFINE D == 1..Len(ss)
           T == [h \in [D -> Seq(V)] |-> [i \in D |-> IF i = 1 THEN ss[i] ELSE h[i-1] \o ss[i]]]
           rank == [i \in D |-> i]
           f == CHOOSE f : f = [i \in D |-> IF i = 1 THEN ss[i] ELSE f[i-1] \o ss[i]]
<1>1. Len(ss) \in Nat /\ Len(ss) >= 1 /\ \A i \in D : ss[i] \in Seq(V)
  OBVIOUS
<1>2. T \in [[D -> Seq(V)] -> [D -> Seq(V)]]
  <2>1. ASSUME NEW h \in [D -> Seq(V)], NEW i \in D, i # 1 PROVE h[i-1] \o ss[i] \in Seq(V)
    <3>1. i - 1 \in D
      BY <1>1, <2>1
    <3>2. h[i-1] \in Seq(V) /\ ss[i] \in Seq(V)
      BY <1>1, <3>1
    <3> QED
      BY <3>2, ConcatProperties
  <2> QED
    BY <1>1, <2>1
<1>3. Recursive(D, Len(ss), rank, Seq(V), T)
  <2>0. Len(ss) \in Nat /\ rank \in [D -> 0..Len(ss)] /\ Seq(V) # {}
    BY <1>1
  <2> SUFFICES ASSUME NEW h \in [D -> Seq(V)], NEW k \in [D -> Seq(V)], NEW i \in D, T[h][i] # T[k][i]
               PROVE  \E j \in D : rank[j] < rank[i] /\ h[j] # k[j]
    BY <1>2, <2>0 DEF Recursive
  <2>1. i # 1 /\ h[i-1] # k[i-1]
    OBVIOUS
  <2>2. i - 1 \in D /\ rank[i-1] < rank[i]
    BY <1>1, <2>1
  <2> QED
    BY <2>1, <2>2
<1>4. \E h \in [D -> Seq(V)] : T[h] = h
  <2> HIDE DEF D, T, rank
  <2> QED
    BY <1>3, Recursion
<1>5. PICK h \in [D -> Seq(V)] : h = [i \in D |-> IF i = 1 THEN ss[i] ELSE h[i-1] \o ss[i]]
  BY <1>4
<1>6. f = [i \in D |-> IF i = 1 THEN ss[i] ELSE f[i-1] \o ss[i]]
  BY <1>5
<1>7. FlattenSeq(ss) = f[Len(ss)]
  BY <1>1 DEF FlattenSeq
<1> HIDE DEF f
<1>8. f = h
  <2>1. rank \in [D -> Nat]
    BY <1>1
  <2>2. LowerYet(D, rank, f, h)
    <3> SUFFICES ASSUME NEW i \in D, f[i] # h[i] PROVE \E j \in D : rank[j] < rank[i] /\ f[j] # h[j]
      BY <2>1 DEF LowerYet
    <3>1. i # 1 /\ f[i-1] # h[i-1]
      BY <1>5, <1>6
    <3>2. i - 1 \in D /\ rank[i-1] < rank[i]
      BY <1>1, <3>1
    <3> QED
      BY <3>1, <3>2
  <2>3. \A i \in D : f[i] = h[i]
    <3> HIDE DEF D, rank
    <3> QED
      BY <2>2, Unique
  <2> QED
    BY <1>5, <1>6, <2>3
<1> QED
  BY <1>5, <1>7, <1>8

\* A concatenation has the elements of its parts.
LEMMA FlattenTyped ==
  ASSUME NEW V, NEW ss \in Seq(Seq(V))
  PROVE  FlattenSeq(ss) \in Seq(V)
<1>1. CASE ss = <<>>
  BY <1>1, FlattenEmpty, EmptySeq
<1>2. CASE ss # <<>>
  <2>1. Len(ss) \in 1..Len(ss)
    BY <1>2
  <2>2. PICK f \in [1..Len(ss) -> Seq(V)] : FlattenSeq(ss) = f[Len(ss)]
    BY <1>2, FlattenRuns
  <2>3. f[Len(ss)] \in Seq(V)
    BY <2>1
  <2> QED
    BY <2>2, <2>3
<1> QED
  BY <1>1, <1>2

\* One more sequence is concatenated at the end.
LEMMA FlattenAppend ==
  ASSUME NEW V, NEW ss \in Seq(Seq(V)), NEW s \in Seq(V)
  PROVE  FlattenSeq(Append(ss, s)) = FlattenSeq(ss) \o s
<1> DEFINE tt == Append(ss, s)
           n == Len(ss)
<1>1. n \in Nat /\ tt \in Seq(Seq(V)) /\ Len(tt) = n + 1 /\ tt # <<>> /\ tt[n+1] = s
      /\ \A i \in 1..n : tt[i] = ss[i]
  BY AppendProperties
<1> HIDE DEF tt
<1>2. PICK g \in [1..(n+1) -> Seq(V)] :
            /\ FlattenSeq(tt) = g[n+1]
            /\ \A i \in 1..(n+1) : g[i] = IF i = 1 THEN tt[i] ELSE g[i-1] \o tt[i]
  <2>1. \E g \in [1..Len(tt) -> Seq(V)] :
            /\ FlattenSeq(tt) = g[Len(tt)]
            /\ \A i \in 1..Len(tt) : g[i] = IF i = 1 THEN tt[i] ELSE g[i-1] \o tt[i]
    BY <1>1, FlattenRuns
  <2> QED
    BY <1>1, <2>1
<1>3. CASE ss = <<>>
  <2>1. FlattenSeq(tt) = s
    BY <1>1, <1>2, <1>3
  <2>2. FlattenSeq(ss) \o s = s
    BY <1>3, FlattenEmpty, ConcatEmptySeq
  <2> QED
    BY <2>1, <2>2 DEF tt
<1>4. CASE ss # <<>>
  <2>1. PICK f \in [1..n -> Seq(V)] :
            /\ FlattenSeq(ss) = f[n]
            /\ \A i \in 1..n : f[i] = IF i = 1 THEN ss[i] ELSE f[i-1] \o ss[i]
    BY <1>4, FlattenRuns
  <2>2. \A i \in 1..n : g[i] = f[i]
    <3> DEFINE D == 1..n
               rank == [i \in D |-> i]
    <3>1. rank \in [D -> Nat]
      BY <1>1
    <3>2. LowerYet(D, rank, g, f)
      <4> SUFFICES ASSUME NEW i \in D, g[i] # f[i] PROVE \E j \in D : rank[j] < rank[i] /\ g[j] # f[j]
        BY <3>1 DEF LowerYet
      <4>1. g[i] = IF i = 1 THEN tt[i] ELSE g[i-1] \o tt[i]
        <5>1. i \in 1..(n+1)
          BY <1>1
        <5> QED
          BY <5>1, <1>2
      <4>2. i # 1 /\ g[i-1] # f[i-1]
        BY <1>1, <2>1, <4>1
      <4>3. i - 1 \in D /\ rank[i-1] < rank[i]
        BY <1>1, <4>2
      <4> QED
        BY <4>2, <4>3
    <3>3. \A i \in D : g[i] = f[i]
      <4> HIDE DEF D, rank
      <4> QED
        BY <3>2, Unique
    <3> QED
      BY <3>3
  <2>3. n >= 1 /\ g[n+1] = g[n] \o tt[n+1]
    <3>1. n >= 1 /\ n + 1 \in 1..(n+1) /\ n + 1 # 1 /\ (n + 1) - 1 = n
      BY <1>1, <1>4
    <3> HIDE DEF n
    <3> QED
      BY <1>2, <3>1
  <2>4. g[n] = f[n]
    BY <1>1, <2>2, <2>3
  <2> QED
    BY <1>1, <1>2, <2>1, <2>3, <2>4 DEF tt
<1> QED
  BY <1>3, <1>4

\* Or at the start.
LEMMA FlattenCons ==
  ASSUME NEW V, NEW ss \in Seq(Seq(V)), NEW s \in Seq(V)
  PROVE  FlattenSeq(<<s>> \o ss) = s \o FlattenSeq(ss)
<1> DEFINE S == {tt \in Seq(Seq(V)) : FlattenSeq(<<s>> \o tt) = s \o FlattenSeq(tt)}
<1>1. <<>> \in S
  <2>1. <<s>> \o <<>> = Append(<<>>, s)
    OBVIOUS
  <2>2. FlattenSeq(<<s>> \o <<>>) = FlattenSeq(<<>>) \o s
    BY <2>1, FlattenAppend, EmptySeq
  <2>3. FlattenSeq(<<>>) \o s = s /\ s \o FlattenSeq(<<>>) = s
    BY FlattenEmpty, ConcatEmptySeq
  <2> QED
    BY <2>2, <2>3, EmptySeq
<1>2. ASSUME NEW tt \in Seq(Seq(V)), NEW t \in Seq(V), tt \in S PROVE Append(tt, t) \in S
  <2>1. <<s>> \o tt \in Seq(Seq(V)) /\ Append(tt, t) \in Seq(Seq(V))
    OBVIOUS
  <2>2. <<s>> \o Append(tt, t) = Append(<<s>> \o tt, t)
    OBVIOUS
  <2>3. FlattenSeq(<<s>> \o Append(tt, t)) = (s \o FlattenSeq(tt)) \o t
    BY <1>2, <2>1, <2>2, FlattenAppend
  <2>4. (s \o FlattenSeq(tt)) \o t = s \o (FlattenSeq(tt) \o t)
    BY FlattenTyped, ConcatAssociative
  <2> QED
    BY <2>1, <2>3, <2>4, FlattenAppend
<1>3. \A tt \in Seq(Seq(V)) : tt \in S
  <2> HIDE DEF S
  <2> QED
    BY <1>1, <1>2, Growing
<1> QED
  BY <1>3

-----------------------------------------------------------------------------
(* What a concatenation makes of each of its parts, and the texts of steps. *)

\* The concatenation of what g makes of each.
EachBy(s, g) == [i \in DOMAIN s |-> g[s[i]]]

Mapped(s, g) == FlattenSeq(EachBy(s, g))

\* What is made of each is concatenated to one sequence.
LEMMA MapTyped ==
  ASSUME NEW A, NEW V, NEW s \in Seq(A), NEW g \in [A -> Seq(V)]
  PROVE  EachBy(s, g) \in Seq(Seq(V)) /\ Mapped(s, g) \in Seq(V)
<1>1. DOMAIN s = 1..Len(s) /\ Len(s) \in Nat
  OBVIOUS
<1>2. \A i \in 1..Len(s) : g[s[i]] \in Seq(V)
  OBVIOUS
<1>3. EachBy(s, g) \in Seq(Seq(V))
  BY <1>1, <1>2, IsASeq DEF EachBy
<1> QED
  BY <1>3, FlattenTyped DEF Mapped

LEMMA MapEmpty ==
  ASSUME NEW g
  PROVE  Mapped(<<>>, g) = <<>>
<1>1. [i \in DOMAIN <<>> |-> g[<<>>[i]]] = <<>>
  OBVIOUS
<1> QED
  BY <1>1, FlattenEmpty DEF Mapped, EachBy

\* One more at the end adds what is made of it.
LEMMA MapAppend ==
  ASSUME NEW A, NEW V, NEW s \in Seq(A), NEW x \in A, NEW g \in [A -> Seq(V)]
  PROVE  Mapped(Append(s, x), g) = Mapped(s, g) \o g[x]
<1>0. Append(s, x) \in Seq(A) /\ g[x] \in Seq(V)
  OBVIOUS
<1>1. EachBy(s, g) \in Seq(Seq(V)) /\ EachBy(Append(s, x), g) \in Seq(Seq(V))
  BY <1>0, MapTyped
<1>2. EachBy(Append(s, x), g) = Append(EachBy(s, g), g[x])
  <2> DEFINE l == EachBy(Append(s, x), g)
             r == Append(EachBy(s, g), g[x])
  <2>1. l \in Seq(Seq(V)) /\ r \in Seq(Seq(V))
    BY <1>0, <1>1
  <2>2. Len(l) = Len(s) + 1 /\ Len(r) = Len(l) /\ Len(s) \in Nat
    BY <1>0, <1>1 DEF EachBy
  <2>3. ASSUME NEW i \in 1..Len(l) PROVE l[i] = r[i]
    BY <1>0, <1>1, <2>2 DEF EachBy
  <2> HIDE DEF l, r
  <2>4. l = r
    BY <2>1, <2>2, <2>3, SeqEqual
  <2> QED
    BY <2>4 DEF l, r
<1> QED
  BY <1>0, <1>1, <1>2, FlattenAppend DEF Mapped

\* And one more at the start.
LEMMA MapCons ==
  ASSUME NEW A, NEW V, NEW s \in Seq(A), NEW x \in A, NEW g \in [A -> Seq(V)]
  PROVE  Mapped(Cons(x, s), g) = g[x] \o Mapped(s, g)
<1>0. Cons(x, s) \in Seq(A) /\ g[x] \in Seq(V)
  BY DEF Cons
<1>1. EachBy(s, g) \in Seq(Seq(V)) /\ EachBy(Cons(x, s), g) \in Seq(Seq(V))
  BY <1>0, MapTyped
<1>2. EachBy(Cons(x, s), g) = <<g[x]>> \o EachBy(s, g)
  <2> DEFINE l == EachBy(Cons(x, s), g)
             r == <<g[x]>> \o EachBy(s, g)
  <2>1. l \in Seq(Seq(V)) /\ r \in Seq(Seq(V))
    BY <1>0, <1>1 DEF Cons
  <2>2. Len(l) = Len(s) + 1 /\ Len(r) = Len(l) /\ Len(s) \in Nat
    BY <1>0, <1>1 DEF EachBy, Cons
  <2>3. ASSUME NEW i \in 1..Len(l) PROVE l[i] = r[i]
    BY <1>0, <1>1, <2>2 DEF EachBy, Cons
  <2> HIDE DEF l, r
  <2>4. l = r
    BY <2>1, <2>2, <2>3, SeqEqual
  <2> QED
    BY <2>4 DEF l, r
<1> QED
  BY <1>0, <1>1, <1>2, FlattenCons DEF Mapped, Cons

AStep(X) == [op: {"equal", "remove", "add"}, text: X]

Chosen(X, ops) == [s \in AStep(X) |-> IF s.op \in ops THEN <<s.text>> ELSE <<>>]

\* The texts of some kinds of steps are such a concatenation.
LEMMA TextsMapped ==
  ASSUME NEW X, NEW ops
  PROVE  /\ Chosen(X, ops) \in [AStep(X) -> Seq(X)]
         /\ \A steps \in Seq(AStep(X)) : TextsOf(steps, ops) = Mapped(steps, Chosen(X, ops))
<1>1. Chosen(X, ops) \in [AStep(X) -> Seq(X)]
  BY DEF Chosen, AStep
<1>2. ASSUME NEW steps \in Seq(AStep(X)) PROVE TextsOf(steps, ops) = Mapped(steps, Chosen(X, ops))
  <2>1. DOMAIN steps = 1..Len(steps)
    OBVIOUS
  <2>2. ASSUME NEW i \in DOMAIN steps PROVE steps[i] \in AStep(X)
    BY <2>1, ElementOfSeq
  <2>3. [i \in DOMAIN steps |-> IF steps[i].op \in ops THEN <<steps[i].text>> ELSE <<>>]
        = [i \in DOMAIN steps |-> Chosen(X, ops)[steps[i]]]
    BY <2>2 DEF Chosen
  <2> QED
    BY <2>3 DEF TextsOf, Mapped, EachBy
<1> QED
  BY <1>1, <1>2

LEMMA TextsTyped ==
  ASSUME NEW X, NEW ops, NEW steps \in Seq(AStep(X))
  PROVE  TextsOf(steps, ops) \in Seq(X)
<1> DEFINE g == Chosen(X, ops)
           A == AStep(X)
<1>1. g \in [A -> Seq(X)] /\ steps \in Seq(A) /\ TextsOf(steps, ops) = Mapped(steps, g)
  BY TextsMapped
<1> HIDE DEF g, A
<1>2. Mapped(steps, g) \in Seq(X)
  BY <1>1, MapTyped
<1> QED
  BY <1>1, <1>2

LEMMA TextsEmpty ==
  ASSUME NEW ops
  PROVE  TextsOf(<<>>, ops) = <<>>
  BY TextsMapped, MapEmpty, EmptySeq

\* A step at the start adds its text, if it is of those kinds.
LEMMA TextsCons ==
  ASSUME NEW X, NEW ops, NEW steps \in Seq(AStep(X)), NEW s \in AStep(X)
  PROVE  TextsOf(Cons(s, steps), ops) = Chosen(X, ops)[s] \o TextsOf(steps, ops)
<1> DEFINE g == Chosen(X, ops)
           A == AStep(X)
<1>1. g \in [A -> Seq(X)] /\ \A t \in Seq(A) : TextsOf(t, ops) = Mapped(t, g)
  BY TextsMapped
<1>2. Cons(s, steps) \in Seq(A) /\ steps \in Seq(A) /\ s \in A
  BY DEF Cons
<1> HIDE DEF g, A
<1>3. Mapped(Cons(s, steps), g) = g[s] \o Mapped(steps, g)
  BY <1>1, <1>2, MapCons
<1>4. TextsOf(Cons(s, steps), ops) = g[s] \o TextsOf(steps, ops)
  BY <1>1, <1>2, <1>3
<1> QED
  BY <1>4 DEF g

\* And so does one at the end.
LEMMA TextsAppend ==
  ASSUME NEW X, NEW ops, NEW steps \in Seq(AStep(X)), NEW s \in AStep(X)
  PROVE  TextsOf(Append(steps, s), ops) = TextsOf(steps, ops) \o Chosen(X, ops)[s]
<1> DEFINE g == Chosen(X, ops)
           A == AStep(X)
<1>1. g \in [A -> Seq(X)] /\ \A t \in Seq(A) : TextsOf(t, ops) = Mapped(t, g)
  BY TextsMapped
<1>2. Append(steps, s) \in Seq(A) /\ steps \in Seq(A) /\ s \in A
  OBVIOUS
<1> HIDE DEF g, A
<1>3. Mapped(Append(steps, s), g) = Mapped(steps, g) \o g[s]
  BY <1>1, <1>2, MapAppend
<1>4. TextsOf(Append(steps, s), ops) = TextsOf(steps, ops) \o g[s]
  BY <1>1, <1>2, <1>3
<1> QED
  BY <1>4 DEF g

-----------------------------------------------------------------------------
(* The table and the walk, entry by entry. *)

\* How much of two tails there is.
Togo(a, b) == [p \in Grid(a, b) |-> (Len(a) + Len(b) + 2) - (p[1] + p[2])]

LEMMA Tails ==
  ASSUME NEW X, NEW a \in Seq(X), NEW b \in Seq(X), NEW i \in 1..(Len(a) + 1), NEW j \in 1..(Len(b) + 1)
  PROVE  /\ <<i, j>> \in Grid(a, b)
         /\ Togo(a, b)[<<i, j>>] = (Len(a) + Len(b) + 2) - (i + j)
  BY DEF Togo, Grid

LEMMA TailsOf ==
  ASSUME NEW a, NEW b, NEW p \in Grid(a, b)
  PROVE  \E i \in 1..(Len(a) + 1), j \in 1..(Len(b) + 1) : p = <<i, j>>
  BY DEF Grid

\* The rank of two tails is a number.
LEMMA TogoTyped ==
  ASSUME NEW X, NEW a \in Seq(X), NEW b \in Seq(X)
  PROVE  /\ Len(a) + Len(b) \in Nat
         /\ Togo(a, b) \in [Grid(a, b) -> 0..(Len(a) + Len(b))]
         /\ Togo(a, b) \in [Grid(a, b) -> Nat]
<1>1. Len(a) \in Nat /\ Len(b) \in Nat
  OBVIOUS
<1>2. ASSUME NEW p \in Grid(a, b) PROVE Togo(a, b)[p] \in 0..(Len(a) + Len(b))
  <2>1. PICK i \in 1..(Len(a) + 1), j \in 1..(Len(b) + 1) : p = <<i, j>>
    BY TailsOf
  <2>2. Togo(a, b)[p] = (Len(a) + Len(b) + 2) - (i + j)
    BY <2>1, Tails
  <2>3. i \in Int /\ j \in Int /\ 1 <= i /\ i <= Len(a) + 1 /\ 1 <= j /\ j <= Len(b) + 1
    BY <1>1
  <2> QED
    BY <1>1, <2>2, <2>3
<1>3. Togo(a, b) = [p \in Grid(a, b) |-> Togo(a, b)[p]]
  BY DEF Togo
<1>4. Togo(a, b) \in [Grid(a, b) -> 0..(Len(a) + Len(b))]
  BY <1>2, <1>3
<1>5. Len(a) + Len(b) \in Nat /\ Togo(a, b) \in [Grid(a, b) -> Nat]
  BY <1>1, <1>4
<1> QED
  BY <1>4, <1>5

\* Of two tails, the ones one shorter on either side or on both.
LEMMA ShorterTails ==
  ASSUME NEW X, NEW a \in Seq(X), NEW b \in Seq(X), NEW i \in 1..(Len(a) + 1), NEW j \in 1..(Len(b) + 1)
  PROVE  /\ i <= Len(a) => /\ i \in DOMAIN a /\ a[i] \in X /\ i + 1 \in 1..(Len(a) + 1)
                           /\ <<i+1, j>> \in Grid(a, b)
                           /\ Togo(a, b)[<<i+1, j>>] < Togo(a, b)[<<i, j>>]
         /\ j <= Len(b) => /\ j \in DOMAIN b /\ b[j] \in X /\ j + 1 \in 1..(Len(b) + 1)
                           /\ <<i, j+1>> \in Grid(a, b)
                           /\ Togo(a, b)[<<i, j+1>>] < Togo(a, b)[<<i, j>>]
         /\ i <= Len(a) /\ j <= Len(b) => /\ <<i+1, j+1>> \in Grid(a, b)
                                          /\ Togo(a, b)[<<i+1, j+1>>] < Togo(a, b)[<<i, j>>]
<1>1. Len(a) \in Nat /\ Len(b) \in Nat /\ i \in Int /\ j \in Int
  OBVIOUS
<1>2. Togo(a, b)[<<i, j>>] = (Len(a) + Len(b) + 2) - (i + j)
  BY Tails
<1>3. ASSUME i <= Len(a)
      PROVE  /\ i \in DOMAIN a /\ a[i] \in X /\ i + 1 \in 1..(Len(a) + 1) /\ <<i+1, j>> \in Grid(a, b)
             /\ Togo(a, b)[<<i+1, j>>] < Togo(a, b)[<<i, j>>]
  <2>1. i \in DOMAIN a /\ a[i] \in X /\ i + 1 \in 1..(Len(a) + 1)
    BY <1>1, <1>3
  <2>2. <<i+1, j>> \in Grid(a, b) /\ Togo(a, b)[<<i+1, j>>] = (Len(a) + Len(b) + 2) - (i + 1 + j)
    BY <2>1, Tails
  <2> QED
    BY <1>1, <1>2, <2>1, <2>2
<1>4. ASSUME j <= Len(b)
      PROVE  /\ j \in DOMAIN b /\ b[j] \in X /\ j + 1 \in 1..(Len(b) + 1) /\ <<i, j+1>> \in Grid(a, b)
             /\ Togo(a, b)[<<i, j+1>>] < Togo(a, b)[<<i, j>>]
  <2>1. j \in DOMAIN b /\ b[j] \in X /\ j + 1 \in 1..(Len(b) + 1)
    BY <1>1, <1>4
  <2>2. <<i, j+1>> \in Grid(a, b) /\ Togo(a, b)[<<i, j+1>>] = (Len(a) + Len(b) + 2) - (i + (j + 1))
    BY <2>1, Tails
  <2> QED
    BY <1>1, <1>2, <2>1, <2>2
<1>5. ASSUME i <= Len(a), j <= Len(b)
      PROVE  <<i+1, j+1>> \in Grid(a, b) /\ Togo(a, b)[<<i+1, j+1>>] < Togo(a, b)[<<i, j>>]
  <2>1. i + 1 \in 1..(Len(a) + 1) /\ j + 1 \in 1..(Len(b) + 1)
    BY <1>3, <1>4, <1>5
  <2>2. PICK x \in 1..(Len(a) + 1), y \in 1..(Len(b) + 1) : x = i + 1 /\ y = j + 1
    BY <2>1
  <2>3. <<x, y>> \in Grid(a, b) /\ Togo(a, b)[<<x, y>>] = (Len(a) + Len(b) + 2) - (x + y)
    BY Tails
  <2> QED
    BY <1>1, <1>2, <2>2, <2>3
<1> QED
  BY <1>3, <1>4, <1>5

TableAt(a, b, f, i, j) ==
    IF i > Len(a) \/ j > Len(b) THEN 0
    ELSE IF a[i] = b[j] THEN f[<<i+1, j+1>>] + 1
    ELSE IF f[<<i+1, j>>] >= f[<<i, j+1>>] THEN f[<<i+1, j>>] ELSE f[<<i, j+1>>]

Entry(a, b, f, p) == TableAt(a, b, f, p[1], p[2])

\* What the table holds at each pair of tails.
LEMMA TableEntries ==
  ASSUME NEW X, NEW a \in Seq(X), NEW b \in Seq(X)
  PROVE  /\ lcs(a, b) \in [Grid(a, b) -> Nat]
         /\ \A i \in 1..(Len(a) + 1), j \in 1..(Len(b) + 1) :
               lcs(a, b)[<<i, j>>] = TableAt(a, b, lcs(a, b), i, j)
<1> DEFINE D == Grid(a, b)
           r == Togo(a, b)
           T == [h \in [D -> Nat] |-> [p \in D |-> Entry(a, b, h, p)]]
           f == CHOOSE f : f = [p \in D |-> Entry(a, b, f, p)]
           sz == Len(a) + Len(b)
<1>1. Len(a) \in Nat /\ Len(b) \in Nat
  OBVIOUS
<1>2. T \in [[D -> Nat] -> [D -> Nat]]
  <2>1. ASSUME NEW h \in [D -> Nat], NEW p \in D PROVE Entry(a, b, h, p) \in Nat
    <3>1. PICK i \in 1..(Len(a) + 1), j \in 1..(Len(b) + 1) : p = <<i, j>>
      BY TailsOf
    <3>2. /\ <<i+1, j>> \in D => h[<<i+1, j>>] \in Nat
          /\ <<i, j+1>> \in D => h[<<i, j+1>>] \in Nat
          /\ <<i+1, j+1>> \in D => h[<<i+1, j+1>>] \in Nat
      OBVIOUS
    <3>3. Entry(a, b, h, p) = TableAt(a, b, h, i, j)
      BY <3>1 DEF Entry
    <3>4. /\ i <= Len(a) => h[<<i+1, j>>] \in Nat
          /\ j <= Len(b) => h[<<i, j+1>>] \in Nat
          /\ i <= Len(a) /\ j <= Len(b) => h[<<i+1, j+1>>] \in Nat
      BY <3>2, ShorterTails
    <3>5. i \in Nat /\ j \in Nat
      OBVIOUS
    <3>6. TableAt(a, b, h, i, j) \in Nat
      <4> HIDE DEF D
      <4> QED
        BY <1>1, <3>4, <3>5 DEF TableAt
    <3> QED
      BY <3>3, <3>6
  <2> QED
    BY <2>1
<1>3. ASSUME NEW h, NEW k, NEW p \in D, Entry(a, b, h, p) # Entry(a, b, k, p)
      PROVE  \E q \in D : r[q] < r[p] /\ h[q] # k[q]
  <2>1. PICK i \in 1..(Len(a) + 1), j \in 1..(Len(b) + 1) : p = <<i, j>>
    BY TailsOf
  <2>2. Entry(a, b, h, p) = TableAt(a, b, h, i, j) /\ Entry(a, b, k, p) = TableAt(a, b, k, i, j)
    BY <2>1 DEF Entry
  <2>3. \/ i <= Len(a) /\ h[<<i+1, j>>] # k[<<i+1, j>>]
        \/ j <= Len(b) /\ h[<<i, j+1>>] # k[<<i, j+1>>]
        \/ i <= Len(a) /\ j <= Len(b) /\ h[<<i+1, j+1>>] # k[<<i+1, j+1>>]
    BY <1>1, <1>3, <2>2 DEF TableAt
  <2> QED
    BY <2>1, <2>3, ShorterTails
<1>4. Recursive(D, sz, r, Nat, T)
  <2>1. \A h, k \in [D -> Nat], p \in D : T[h][p] # T[k][p] => \E q \in D : r[q] < r[p] /\ h[q] # k[q]
    BY <1>3
  <2>2. sz \in Nat /\ r \in [D -> 0..sz] /\ Nat # {}
    BY TogoTyped
  <2> QED
    BY <1>2, <2>1, <2>2 DEF Recursive
<1>5. PICK h \in [D -> Nat] : h = [p \in D |-> Entry(a, b, h, p)]
  <2>1. \E h \in [D -> Nat] : T[h] = h
    <3> HIDE DEF D, T, r, sz
    <3> QED
      BY <1>4, Recursion
  <2> QED
    BY <2>1
<1>6. lcs(a, b) = f
  BY DEF lcs, Entry, TableAt
<1>7. f = [p \in D |-> Entry(a, b, f, p)]
  BY <1>5
<1> HIDE DEF f
<1>8. f = h
  <2>1. LowerYet(D, r, f, h)
    <3>1. r \in [D -> Nat]
      BY TogoTyped
    <3>2. \A p \in D : f[p] # h[p] => Entry(a, b, f, p) # Entry(a, b, h, p)
      BY <1>5, <1>7
    <3> QED
      BY <1>3, <3>1, <3>2 DEF LowerYet
  <2>2. \A p \in D : f[p] = h[p]
    <3> HIDE DEF D, r
    <3> QED
      BY <2>1, Unique
  <2> QED
    BY <1>5, <1>7, <2>2
<1>9. ASSUME NEW i \in 1..(Len(a) + 1), NEW j \in 1..(Len(b) + 1) PROVE f[<<i, j>>] = TableAt(a, b, f, i, j)
  <2>1. <<i, j>> \in D
    BY Tails
  <2>2. Entry(a, b, f, <<i, j>>) = TableAt(a, b, f, i, j)
    BY DEF Entry
  <2> QED
    BY <1>7, <2>1, <2>2
<1> QED
  BY <1>5, <1>6, <1>8, <1>9

StepAt(a, b, removes, f, i, j) ==
    IF i > Len(a)
    THEN IF j > Len(b) THEN <<>> ELSE Cons(Step("add", b[j]), f[<<i, j+1>>])
    ELSE IF j > Len(b) THEN Cons(Step("remove", a[i]), f[<<i+1, j>>])
    ELSE IF a[i] = b[j] THEN Cons(Step("equal", a[i]), f[<<i+1, j+1>>])
    ELSE IF <<i, j>> \in removes THEN Cons(Step("remove", a[i]), f[<<i+1, j>>])
    ELSE Cons(Step("add", b[j]), f[<<i, j+1>>])

Onward(a, b, removes, f, p) ==
    IF p[1] > Len(a)
    THEN IF p[2] > Len(b) THEN <<>> ELSE Cons(Step("add", b[p[2]]), f[<<p[1], p[2]+1>>])
    ELSE IF p[2] > Len(b) THEN Cons(Step("remove", a[p[1]]), f[<<p[1]+1, p[2]>>])
    ELSE IF a[p[1]] = b[p[2]] THEN Cons(Step("equal", a[p[1]]), f[<<p[1]+1, p[2]+1>>])
    ELSE IF p \in removes THEN Cons(Step("remove", a[p[1]]), f[<<p[1]+1, p[2]>>])
    ELSE Cons(Step("add", b[p[2]]), f[<<p[1], p[2]+1>>])

LEMMA ConsStep ==
  ASSUME NEW X, NEW op \in {"equal", "remove", "add"}, NEW x \in X, NEW s \in Seq(AStep(X))
  PROVE  Cons(Step(op, x), s) \in Seq(AStep(X))
<1>1. Step(op, x) \in AStep(X)
  BY DEF Step, AStep
<1> QED
  BY <1>1 DEF Cons

\* The walk from each pair of tails, and the walk from the first.
LEMMA WalkSteps ==
  ASSUME NEW X, NEW a \in Seq(X), NEW b \in Seq(X), NEW removes
  PROVE  \E f \in [Grid(a, b) -> Seq(AStep(X))] :
            /\ Walk(a, b, removes) = f[<<1, 1>>]
            /\ \A i \in 1..(Len(a) + 1), j \in 1..(Len(b) + 1) :
                  f[<<i, j>>] = StepAt(a, b, removes, f, i, j)
<1> DEFINE D == Grid(a, b)
           A == Seq(AStep(X))
           r == Togo(a, b)
           T == [h \in [D -> A] |-> [p \in D |-> Onward(a, b, removes, h, p)]]
           f == CHOOSE f : f = [p \in D |-> Onward(a, b, removes, f, p)]
           sz == Len(a) + Len(b)
<1>1. Len(a) \in Nat /\ Len(b) \in Nat
  OBVIOUS
<1>0. ASSUME NEW h, NEW i \in 1..(Len(a) + 1), NEW j \in 1..(Len(b) + 1)
      PROVE  Onward(a, b, removes, h, <<i, j>>) = StepAt(a, b, removes, h, i, j)
  BY DEF Onward, StepAt
<1>2. T \in [[D -> A] -> [D -> A]]
  <2>1. ASSUME NEW h \in [D -> A], NEW p \in D PROVE Onward(a, b, removes, h, p) \in A
    <3>1. PICK i \in 1..(Len(a) + 1), j \in 1..(Len(b) + 1) : p = <<i, j>>
      BY TailsOf
    <3>2. /\ i <= Len(a) => h[<<i+1, j>>] \in A /\ a[i] \in X
          /\ j <= Len(b) => h[<<i, j+1>>] \in A /\ b[j] \in X
          /\ i <= Len(a) /\ j <= Len(b) => h[<<i+1, j+1>>] \in A
      BY ShorterTails
    <3>3. i \in Nat /\ j \in Nat /\ <<>> \in A
      OBVIOUS
    <3>4. StepAt(a, b, removes, h, i, j) \in A
      <4>1. ~(i > Len(a)) => i <= Len(a)
        BY <1>1, <3>3
      <4>2. ~(j > Len(b)) => j <= Len(b)
        BY <1>1, <3>3
      <4> QED
        BY <3>2, <3>3, <4>1, <4>2, ConsStep DEF StepAt
    <3> QED
      BY <1>0, <3>1, <3>4
  <2> QED
    BY <2>1
<1>3. ASSUME NEW h, NEW k, NEW p \in D, Onward(a, b, removes, h, p) # Onward(a, b, removes, k, p)
      PROVE  \E q \in D : r[q] < r[p] /\ h[q] # k[q]
  <2>1. PICK i \in 1..(Len(a) + 1), j \in 1..(Len(b) + 1) : p = <<i, j>>
    BY TailsOf
  <2>2. StepAt(a, b, removes, h, i, j) # StepAt(a, b, removes, k, i, j)
    BY <1>0, <1>3, <2>1
  <2>3. \/ i <= Len(a) /\ h[<<i+1, j>>] # k[<<i+1, j>>]
        \/ j <= Len(b) /\ h[<<i, j+1>>] # k[<<i, j+1>>]
        \/ i <= Len(a) /\ j <= Len(b) /\ h[<<i+1, j+1>>] # k[<<i+1, j+1>>]
    BY <1>1, <2>2 DEF StepAt
  <2> QED
    BY <2>1, <2>3, ShorterTails
<1>4. Recursive(D, sz, r, A, T)
  <2>1. \A h, k \in [D -> A], p \in D : T[h][p] # T[k][p] => \E q \in D : r[q] < r[p] /\ h[q] # k[q]
    BY <1>3
  <2>2. sz \in Nat /\ r \in [D -> 0..sz]
    BY TogoTyped
  <2>3. <<>> \in A
    OBVIOUS
  <2> QED
    BY <1>2, <2>1, <2>2, <2>3 DEF Recursive
<1>5. PICK h \in [D -> A] : h = [p \in D |-> Onward(a, b, removes, h, p)]
  <2>1. \E h \in [D -> A] : T[h] = h
    <3> HIDE DEF D, T, r, sz, A
    <3> QED
      BY <1>4, Recursion
  <2> QED
    BY <2>1
<1>6. Walk(a, b, removes) = f[<<1, 1>>]
  BY DEF Walk, Onward
<1>7. f = [p \in D |-> Onward(a, b, removes, f, p)]
  BY <1>5
<1> HIDE DEF f
<1>8. f = h
  <2>1. LowerYet(D, r, f, h)
    <3>1. r \in [D -> Nat]
      BY TogoTyped
    <3>2. \A p \in D : f[p] # h[p] => Onward(a, b, removes, f, p) # Onward(a, b, removes, h, p)
      BY <1>5, <1>7
    <3> QED
      BY <1>3, <3>1, <3>2 DEF LowerYet
  <2>2. \A p \in D : f[p] = h[p]
    <3> HIDE DEF D, r
    <3> QED
      BY <2>1, Unique
  <2> QED
    BY <1>5, <1>7, <2>2
<1>9. ASSUME NEW i \in 1..(Len(a) + 1), NEW j \in 1..(Len(b) + 1)
      PROVE  h[<<i, j>>] = StepAt(a, b, removes, h, i, j)
  <2>1. <<i, j>> \in D
    BY Tails
  <2> QED
    BY <1>0, <1>5, <2>1
<1> QED
  BY <1>6, <1>8, <1>9

-----------------------------------------------------------------------------
(* What a walk reads. *)

\* What holds of two tails when it holds of the shorter ones.
PassedOn(a, b, S) ==
    \A i \in 1..(Len(a) + 1), j \in 1..(Len(b) + 1) :
        /\ i <= Len(a) => <<i+1, j>> \in S
        /\ j <= Len(b) => <<i, j+1>> \in S
        /\ i <= Len(a) /\ j <= Len(b) => <<i+1, j+1>> \in S
        => <<i, j>> \in S

\* It holds of all tails.
LEMMA TailInduction ==
  ASSUME NEW X, NEW a \in Seq(X), NEW b \in Seq(X), NEW S, PassedOn(a, b, S)
  PROVE  \A i \in 1..(Len(a) + 1), j \in 1..(Len(b) + 1) : <<i, j>> \in S
<1> DEFINE D == Grid(a, b)
           rank == Togo(a, b)
           Bad == D \ S
<1>1. Bad = {}
  <2> SUFFICES ASSUME Bad # {} PROVE FALSE
    OBVIOUS
  <2>1. rank \in [D -> Nat] /\ Bad \subseteq D
    BY TogoTyped
  <2>2. PICK p \in Bad : \A q \in Bad : rank[p] <= rank[q]
    <3> HIDE DEF Bad, D, rank
    <3> QED
      BY <2>1, Lowest
  <2>3. PICK i \in 1..(Len(a) + 1), j \in 1..(Len(b) + 1) : p = <<i, j>>
    BY TailsOf
  <2>4. ASSUME NEW q \in D, rank[q] < rank[p] PROVE q \in S
    <3>1. rank[q] \in Nat /\ rank[p] \in Nat
      BY <2>1
    <3> HIDE DEF rank
    <3> QED
      BY <2>2, <2>4, <3>1
  <2>5. /\ i <= Len(a) => <<i+1, j>> \in S
        /\ j <= Len(b) => <<i, j+1>> \in S
        /\ i <= Len(a) /\ j <= Len(b) => <<i+1, j+1>> \in S
    BY <2>3, <2>4, ShorterTails
  <2> QED
    BY <2>3, <2>5 DEF PassedOn
<1> QED
  BY <1>1, Tails

\* What the first step of a walk adds to either text.
LEMMA TextsStep ==
  ASSUME NEW X, NEW ops, NEW op \in {"equal", "remove", "add"}, NEW x \in X, NEW s \in Seq(AStep(X))
  PROVE  /\ op \in ops => TextsOf(Cons(Step(op, x), s), ops) = <<x>> \o TextsOf(s, ops)
         /\ op \notin ops => TextsOf(Cons(Step(op, x), s), ops) = TextsOf(s, ops)
<1> DEFINE st == Step(op, x)
<1>1. st \in AStep(X) /\ st.op = op /\ st.text = x
  BY DEF Step, AStep
<1> HIDE DEF st
<1>2. TextsOf(s, ops) \in Seq(X)
  BY TextsTyped
<1>3. <<>> \o TextsOf(s, ops) = TextsOf(s, ops)
  BY <1>2, ConcatEmptySeq
<1>4. TextsOf(Cons(st, s), ops) = Chosen(X, ops)[st] \o TextsOf(s, ops)
  BY <1>1, TextsCons
<1>5. Chosen(X, ops)[st] = IF op \in ops THEN <<x>> ELSE <<>>
  BY <1>1 DEF Chosen
<1> QED
  BY <1>3, <1>4, <1>5 DEF st

\* Both texts can be read off a walk.
LEMMA WalkReads ==
  ASSUME NEW X, NEW a \in Seq(X), NEW b \in Seq(X), NEW removes
  PROVE  /\ Walk(a, b, removes) \in Seq(AStep(X))
         /\ TextsOf(Walk(a, b, removes), {"equal", "remove"}) = a
         /\ TextsOf(Walk(a, b, removes), {"equal", "add"}) = b
<1> DEFINE ER == {"equal", "remove"}
           EA == {"equal", "add"}
<1>0. "equal" \in ER /\ "remove" \in ER /\ "add" \notin ER /\ "equal" \in EA /\ "add" \in EA /\ "remove" \notin EA
  OBVIOUS
<1> HIDE DEF ER, EA
<1>7. ASSUME NEW x \in X, NEW s \in Seq(AStep(X))
      PROVE  /\ TextsOf(Cons(Step("equal", x), s), ER) = <<x>> \o TextsOf(s, ER)
             /\ TextsOf(Cons(Step("equal", x), s), EA) = <<x>> \o TextsOf(s, EA)
             /\ TextsOf(Cons(Step("remove", x), s), ER) = <<x>> \o TextsOf(s, ER)
             /\ TextsOf(Cons(Step("remove", x), s), EA) = TextsOf(s, EA)
             /\ TextsOf(Cons(Step("add", x), s), ER) = TextsOf(s, ER)
             /\ TextsOf(Cons(Step("add", x), s), EA) = <<x>> \o TextsOf(s, EA)
  BY <1>0, TextsStep
<1>1. PICK f \in [Grid(a, b) -> Seq(AStep(X))] :
            /\ Walk(a, b, removes) = f[<<1, 1>>]
            /\ \A i \in 1..(Len(a) + 1), j \in 1..(Len(b) + 1) :
                  f[<<i, j>>] = StepAt(a, b, removes, f, i, j)
  BY WalkSteps
<1> DEFINE Reads(i, j) == /\ TextsOf(f[<<i, j>>], ER) = SubSeq(a, i, Len(a))
                          /\ TextsOf(f[<<i, j>>], EA) = SubSeq(b, j, Len(b))
           S == {p \in Grid(a, b) : Reads(p[1], p[2])}
<1>2. Len(a) \in Nat /\ Len(b) \in Nat
  OBVIOUS
<1>3. ASSUME NEW i \in 1..(Len(a) + 1), NEW j \in 1..(Len(b) + 1),
             i <= Len(a) => Reads(i + 1, j),
             j <= Len(b) => Reads(i, j + 1),
             i <= Len(a) /\ j <= Len(b) => Reads(i + 1, j + 1)
      PROVE  Reads(i, j)
  <2>1. i \in Nat /\ j \in Nat /\ <<i, j>> \in Grid(a, b)
    BY Tails
  <2>2. f[<<i, j>>] = StepAt(a, b, removes, f, i, j)
    BY <1>1
  <2>3. CASE i > Len(a) /\ j > Len(b)
    <3>1. f[<<i, j>>] = <<>>
      BY <2>2, <2>3 DEF StepAt
    <3>2. SubSeq(a, i, Len(a)) = <<>> /\ SubSeq(b, j, Len(b)) = <<>>
      BY <1>2, <2>1, <2>3, SubSeqEmpty
    <3>3. \A ops : TextsOf(<<>>, ops) = <<>>
      BY TextsEmpty
    <3> QED
      BY <3>1, <3>2, <3>3
  <2>4. ASSUME i <= Len(a), f[<<i, j>>] = Cons(Step("remove", a[i]), f[<<i+1, j>>]) PROVE Reads(i, j)
    <3>1. a[i] \in X /\ f[<<i+1, j>>] \in Seq(AStep(X))
      BY <2>4, ShorterTails
    <3>2. /\ TextsOf(f[<<i, j>>], ER) = <<a[i]>> \o TextsOf(f[<<i+1, j>>], ER)
          /\ TextsOf(f[<<i, j>>], EA) = TextsOf(f[<<i+1, j>>], EA)
      BY <2>4, <3>1, <1>7
    <3>3. SubSeq(a, i, Len(a)) = <<a[i]>> \o SubSeq(a, i + 1, Len(a))
      BY <1>2, <2>1, <2>4, SubSeqRecursiveFirst
    <3> QED
      BY <1>3, <2>4, <3>2, <3>3
  <2>5. ASSUME j <= Len(b), f[<<i, j>>] = Cons(Step("add", b[j]), f[<<i, j+1>>]) PROVE Reads(i, j)
    <3>1. b[j] \in X /\ f[<<i, j+1>>] \in Seq(AStep(X))
      BY <2>5, ShorterTails
    <3>2. /\ TextsOf(f[<<i, j>>], ER) = TextsOf(f[<<i, j+1>>], ER)
          /\ TextsOf(f[<<i, j>>], EA) = <<b[j]>> \o TextsOf(f[<<i, j+1>>], EA)
      BY <2>5, <3>1, <1>7
    <3>3. SubSeq(b, j, Len(b)) = <<b[j]>> \o SubSeq(b, j + 1, Len(b))
      BY <1>2, <2>1, <2>5, SubSeqRecursiveFirst
    <3> QED
      BY <1>3, <2>5, <3>2, <3>3
  <2>6. ASSUME i <= Len(a), j <= Len(b), a[i] = b[j],
               f[<<i, j>>] = Cons(Step("equal", a[i]), f[<<i+1, j+1>>])
        PROVE  Reads(i, j)
    <3>1. a[i] \in X /\ f[<<i+1, j+1>>] \in Seq(AStep(X))
      BY <2>6, ShorterTails
    <3>2. /\ TextsOf(f[<<i, j>>], ER) = <<a[i]>> \o TextsOf(f[<<i+1, j+1>>], ER)
          /\ TextsOf(f[<<i, j>>], EA) = <<b[j]>> \o TextsOf(f[<<i+1, j+1>>], EA)
      BY <2>6, <3>1, <1>7
    <3>3. SubSeq(a, i, Len(a)) = <<a[i]>> \o SubSeq(a, i + 1, Len(a))
      BY <1>2, <2>1, <2>6, SubSeqRecursiveFirst
    <3>4. SubSeq(b, j, Len(b)) = <<b[j]>> \o SubSeq(b, j + 1, Len(b))
      BY <1>2, <2>1, <2>6, SubSeqRecursiveFirst
    <3> QED
      BY <1>3, <2>6, <3>2, <3>3, <3>4
  <2> HIDE DEF Reads
  <2> QED
    BY <1>2, <2>1, <2>2, <2>3, <2>4, <2>5, <2>6 DEF StepAt
<1>4. PassedOn(a, b, S)
  <2> SUFFICES ASSUME NEW i \in 1..(Len(a) + 1), NEW j \in 1..(Len(b) + 1),
                      i <= Len(a) => <<i+1, j>> \in S,
                      j <= Len(b) => <<i, j+1>> \in S,
                      i <= Len(a) /\ j <= Len(b) => <<i+1, j+1>> \in S
               PROVE  <<i, j>> \in S
    BY DEF PassedOn
  <2>1. <<i, j>> \in Grid(a, b)
    BY Tails
  <2>2. /\ i <= Len(a) => Reads(i + 1, j)
        /\ j <= Len(b) => Reads(i, j + 1)
        /\ i <= Len(a) /\ j <= Len(b) => Reads(i + 1, j + 1)
    <3> HIDE DEF Reads
    <3> QED
      OBVIOUS
  <2>3. Reads(i, j)
    <3> HIDE DEF Reads
    <3> QED
      BY <1>3, <2>2
  <2> HIDE DEF Reads
  <2> QED
    BY <2>1, <2>3
<1>5. Reads(1, 1)
  <2>1. <<1, 1>> \in S
    <3>1. 1 \in 1..(Len(a) + 1) /\ 1 \in 1..(Len(b) + 1)
      BY <1>2
    <3> HIDE DEF S
    <3> QED
      BY <1>4, <3>1, TailInduction
  <2> HIDE DEF Reads
  <2> QED
    BY <2>1
<1>6. SubSeq(a, 1, Len(a)) = a /\ SubSeq(b, 1, Len(b)) = b
  BY SubSeqFull
<1>8. f[<<1, 1>>] \in Seq(AStep(X))
  <2>1. <<1, 1>> \in Grid(a, b)
    BY <1>2, Tails
  <2> QED
    BY <2>1
<1> QED
  BY <1>1, <1>5, <1>6, <1>8 DEF ER, EA

-----------------------------------------------------------------------------
(* What two texts have in common. *)

\* The entries at the places of a set.
Picks(s, I) == FlattenSeq([i \in DOMAIN s |-> IF i \in I THEN <<s[i]>> ELSE <<>>])

LEMMA PicksTyped ==
  ASSUME NEW X, NEW s \in Seq(X), NEW I
  PROVE  /\ [i \in DOMAIN s |-> IF i \in I THEN <<s[i]>> ELSE <<>>] \in Seq(Seq(X))
         /\ Picks(s, I) \in Seq(X)
<1>1. DOMAIN s = 1..Len(s) /\ Len(s) \in Nat
  OBVIOUS
<1>2. \A i \in 1..Len(s) : (IF i \in I THEN <<s[i]>> ELSE <<>>) \in Seq(X)
  OBVIOUS
<1>3. [i \in DOMAIN s |-> IF i \in I THEN <<s[i]>> ELSE <<>>] \in Seq(Seq(X))
  BY <1>1, <1>2, IsASeq
<1> QED
  BY <1>3, FlattenTyped DEF Picks

LEMMA PicksEmpty ==
  ASSUME NEW I
  PROVE  Picks(<<>>, I) = <<>>
<1>1. [i \in DOMAIN <<>> |-> IF i \in I THEN <<(<<>>)[i]>> ELSE <<>>] = <<>>
  OBVIOUS
<1> QED
  BY <1>1, FlattenEmpty DEF Picks

\* The last place is picked or not.
LEMMA PicksAppend ==
  ASSUME NEW X, NEW s \in Seq(X), NEW x \in X, NEW I
  PROVE  /\ Len(s) + 1 \in I => Picks(Append(s, x), I) = Append(Picks(s, I), x)
         /\ Len(s) + 1 \notin I => Picks(Append(s, x), I) = Picks(s, I)
<1> DEFINE K(t) == [i \in DOMAIN t |-> IF i \in I THEN <<t[i]>> ELSE <<>>]
           y == IF Len(s) + 1 \in I THEN <<x>> ELSE <<>>
           l == K(Append(s, x))
           r == Append(K(s), y)
<1>0. Append(s, x) \in Seq(X) /\ y \in Seq(X) /\ Len(s) \in Nat
  OBVIOUS
<1>1. K(s) \in Seq(Seq(X)) /\ l \in Seq(Seq(X)) /\ Picks(s, I) \in Seq(X)
  BY <1>0, PicksTyped
<1>2. r \in Seq(Seq(X)) /\ Len(l) = Len(s) + 1 /\ Len(r) = Len(l)
  BY <1>0, <1>1
<1>3. ASSUME NEW i \in 1..Len(l) PROVE l[i] = r[i]
  BY <1>0, <1>1, <1>2
<1>4. l = r
  <2> HIDE DEF l, r
  <2> QED
    BY <1>1, <1>2, <1>3, SeqEqual
<1>5. FlattenSeq(r) = FlattenSeq(K(s)) \o y
  <2> DEFINE k == K(s)
  <2> HIDE DEF k, y
  <2> QED
    BY <1>0, <1>1, FlattenAppend
<1>6. Picks(Append(s, x), I) = Picks(s, I) \o y
  BY <1>4, <1>5 DEF Picks
<1> QED
  BY <1>1, <1>6, ConcatEmptySeq, AppendIsConcat

\* No place picks nothing.
LEMMA PicksNone ==
  ASSUME NEW X, NEW s \in Seq(X), NEW I, \A i \in I : i \notin 1..Len(s)
  PROVE  Picks(s, I) = <<>>
<1> DEFINE S == {t \in Seq(X) : (\A i \in I : i \notin 1..Len(t)) => Picks(t, I) = <<>>}
<1>1. <<>> \in S
  BY PicksEmpty, EmptySeq
<1>2. ASSUME NEW t \in Seq(X), NEW x \in X, t \in S PROVE Append(t, x) \in S
  <2>1. Append(t, x) \in Seq(X) /\ Len(Append(t, x)) = Len(t) + 1 /\ Len(t) \in Nat
    OBVIOUS
  <2>2. ASSUME \A i \in I : i \notin 1..(Len(t) + 1) PROVE Picks(Append(t, x), I) = <<>>
    <3>1. \A i \in I : i \notin 1..Len(t)
      BY <2>1, <2>2
    <3>2. Len(t) + 1 \notin I
      BY <2>1, <2>2
    <3> QED
      BY <1>2, <3>1, <3>2, PicksAppend
  <2> QED
    BY <2>1, <2>2
<1>3. \A t \in Seq(X) : t \in S
  <2> HIDE DEF S
  <2> QED
    BY <1>1, <1>2, Growing
<1> QED
  BY <1>3

\* What is picked starts with the entry at its first place.
LEMMA PicksFirst ==
  ASSUME NEW X, NEW s \in Seq(X), NEW I, NEW k \in 1..Len(s), I \subseteq Nat, \A i \in I : i > k
  PROVE  Picks(s, {k} \cup I) = <<s[k]>> \o Picks(s, I)
<1> DEFINE J == {k} \cup I
<1>0. k \in J /\ \A i \in Nat : i # k => (i \in J <=> i \in I)
  OBVIOUS
<1>4. \A i \in J : i \in Nat /\ i >= k
  OBVIOUS
<1> HIDE DEF J
<1> DEFINE S == {t \in Seq(X) : k \in 1..Len(t) => Picks(t, J) = <<t[k]>> \o Picks(t, I)}
<1>1. <<>> \in S
  BY EmptySeq
<1>2. ASSUME NEW t \in Seq(X), NEW x \in X, t \in S PROVE Append(t, x) \in S
  <2> DEFINE u == Append(t, x)
             n == Len(t)
  <2>1. u \in Seq(X) /\ Len(u) = n + 1 /\ n \in Nat /\ \A i \in 1..n : u[i] = t[i]
    OBVIOUS
  <2>2. u[n+1] = x
    OBVIOUS
  <2> SUFFICES ASSUME k \in 1..(n+1) PROVE Picks(u, J) = <<u[k]>> \o Picks(u, I)
    BY <2>1
  <2>3. CASE k = n + 1
    <3>1. n + 1 \notin I /\ \A i \in I : i \notin 1..n
      BY <2>1, <2>3
    <3>2. Picks(t, I) = <<>> /\ Picks(u, I) = <<>>
      BY <3>1, PicksNone, PicksAppend
    <3>3. \A i \in J : i \notin 1..n
      BY <1>4, <2>1, <2>3
    <3>4. Picks(t, J) = <<>>
      BY <3>3, PicksNone
    <3>5. Picks(u, J) = Append(Picks(t, J), x)
      <4>1. Len(t) + 1 \in J
        BY <1>0, <2>3
      <4> HIDE DEF n
      <4> QED
        BY <4>1, PicksAppend
    <3> QED
      BY <2>2, <2>3, <3>2, <3>4, <3>5
  <2>4. CASE k # n + 1
    <3>1. k \in 1..n
      BY <2>1, <2>4
    <3>2. Picks(t, J) = <<t[k]>> \o Picks(t, I) /\ Picks(t, I) \in Seq(X) /\ t[k] \in X
      <4>1. Picks(t, I) \in Seq(X)
        BY PicksTyped
      <4> QED
        BY <1>2, <3>1, <4>1
    <3>3. CASE n + 1 \in I
      <4>1. Picks(u, J) = Append(<<t[k]>> \o Picks(t, I), x) /\ Picks(u, I) = Append(Picks(t, I), x)
        <5>1. Len(t) + 1 \in J /\ Len(t) + 1 \in I
          BY <1>0, <2>1, <2>4, <3>3
        <5>2. Picks(u, J) = Append(Picks(t, J), x) /\ Picks(u, I) = Append(Picks(t, I), x)
          BY <5>1, PicksAppend
        <5> QED
          BY <3>2, <5>2
      <4>2. Append(<<t[k]>> \o Picks(t, I), x) = <<t[k]>> \o Append(Picks(t, I), x)
        BY <3>2
      <4> QED
        BY <2>1, <3>1, <4>1, <4>2
    <3>4. CASE n + 1 \notin I
      <4>1. n + 1 \notin J
        BY <1>0, <2>1, <2>4, <3>4
      <4>2. Picks(u, J) = <<t[k]>> \o Picks(t, I) /\ Picks(u, I) = Picks(t, I)
        BY <3>2, <3>4, <4>1, PicksAppend
      <4> QED
        BY <2>1, <3>1, <4>2
    <3> QED
      BY <3>3, <3>4
  <2> QED
    BY <2>3, <2>4
<1>3. \A t \in Seq(X) : t \in S
  <2> HIDE DEF S
  <2> QED
    BY <1>1, <1>2, Growing
<1> QED
  BY <1>3 DEF J

LEMMA ConsInjective ==
  ASSUME NEW X, NEW x \in X, NEW y \in X, NEW s \in Seq(X), NEW t \in Seq(X), Cons(x, s) = Cons(y, t)
  PROVE  x = y /\ s = t /\ Len(Cons(x, s)) = Len(s) + 1
<1>0. Cons(x, s) = <<x>> \o s /\ Cons(y, t) = <<y>> \o t
  BY DEF Cons
<1>1. Len(Cons(x, s)) = Len(s) + 1 /\ Len(Cons(y, t)) = Len(t) + 1 /\ Len(s) \in Nat /\ Len(t) \in Nat
  BY DEF Cons
<1>2. Len(s) = Len(t)
  BY <1>1
<1>3. (<<x>> \o s)[1] = x /\ (<<y>> \o t)[1] = y
  OBVIOUS
<1>4. \A i \in 1..Len(s) : (<<x>> \o s)[i+1] = s[i]
  OBVIOUS
<1>5. \A i \in 1..Len(t) : (<<y>> \o t)[i+1] = t[i]
  OBVIOUS
<1>6. \A i \in 1..Len(s) : s[i] = t[i]
  BY <1>0, <1>2, <1>4, <1>5
<1>7. s = t
  BY <1>2, <1>6, SeqEqual
<1> QED
  BY <1>0, <1>1, <1>3, <1>7

\* A pick that is not empty has a first place, and a rest.
LEMMA PicksSplit ==
  ASSUME NEW X, NEW s \in Seq(X), NEW I \in SUBSET (1..Len(s)), I # {}
  PROVE  \E k \in I, R \in SUBSET I : (\A l \in I : k <= l) /\ (\A l \in R : l > k) /\ Picks(s, I) = Cons(s[k], Picks(s, R))
<1>1. I \subseteq Nat
  OBVIOUS
<1>2. PICK k \in I : \A l \in I : k <= l
  BY <1>1, LeastNat
<1> DEFINE R == I \ {k}
<1>3. R \subseteq Nat /\ k \in 1..Len(s) /\ (\A l \in R : l > k) /\ {k} \cup R = I
  BY <1>1, <1>2
<1>5. R \in SUBSET I
  OBVIOUS
<1> HIDE DEF R
<1>4. Picks(s, {k} \cup R) = <<s[k]>> \o Picks(s, R)
  BY <1>3, PicksFirst
<1> QED
  BY <1>2, <1>3, <1>4, <1>5 DEF Cons

\* The table bounds what two tails can have in common.
LEMMA TableBounds ==
  ASSUME NEW X, NEW a \in Seq(X), NEW b \in Seq(X)
  PROVE  \A i \in 1..(Len(a) + 1), j \in 1..(Len(b) + 1) :
            \A I \in SUBSET (i..Len(a)), J \in SUBSET (j..Len(b)) :
               Picks(a, I) = Picks(b, J) => Len(Picks(a, I)) <= lcs(a, b)[<<i, j>>]
<1> DEFINE t == lcs(a, b)
           Bounded(i, j) == \A I \in SUBSET (i..Len(a)), J \in SUBSET (j..Len(b)) :
                               Picks(a, I) = Picks(b, J) => Len(Picks(a, I)) <= t[<<i, j>>]
           S == {p \in Grid(a, b) : Bounded(p[1], p[2])}
<1>1. Len(a) \in Nat /\ Len(b) \in Nat
  OBVIOUS
<1>2. ASSUME NEW i \in 1..(Len(a) + 1), NEW j \in 1..(Len(b) + 1),
             i <= Len(a) => Bounded(i + 1, j),
             j <= Len(b) => Bounded(i, j + 1),
             i <= Len(a) /\ j <= Len(b) => Bounded(i + 1, j + 1)
      PROVE  Bounded(i, j)
  <2> SUFFICES ASSUME NEW I \in SUBSET (i..Len(a)), NEW J \in SUBSET (j..Len(b)), Picks(a, I) = Picks(b, J)
               PROVE  Len(Picks(a, I)) <= t[<<i, j>>]
    OBVIOUS
  <2>1. i \in Nat /\ j \in Nat /\ <<i, j>> \in Grid(a, b) /\ t \in [Grid(a, b) -> Nat]
    BY Tails, TableEntries
  <2>2. t[<<i, j>>] = TableAt(a, b, t, i, j)
    BY TableEntries
  <2>3. t[<<i, j>>] \in Nat
    BY <2>1
  <2>4. Picks(a, I) \in Seq(X) /\ I \in SUBSET (1..Len(a)) /\ J \in SUBSET (1..Len(b))
    <3>1. Picks(a, I) \in Seq(X)
      BY PicksTyped
    <3> QED
      BY <1>1, <2>1, <3>1
  <2>5. CASE I = {} \/ J = {}
    <3>1. Picks(a, I) = <<>>
      <4>1. \A x \in {} : x \notin 1..Len(a) /\ x \notin 1..Len(b)
        OBVIOUS
      <4>2. Picks(a, {}) = <<>> /\ Picks(b, {}) = <<>>
        BY <4>1, PicksNone
      <4> QED
        BY <2>5, <4>2
    <3> QED
      BY <2>3, <3>1
  <2>6. CASE I # {} /\ J # {}
    <3>1. PICK k \in I, I1 \in SUBSET I : (\A l \in I : k <= l) /\ (\A l \in I1 : l > k) /\ Picks(a, I) = Cons(a[k], Picks(a, I1))
      BY <2>4, <2>6, PicksSplit
    <3>2. PICK h \in J, J1 \in SUBSET J : (\A l \in J : h <= l) /\ (\A l \in J1 : l > h) /\ Picks(b, J) = Cons(b[h], Picks(b, J1))
      BY <2>4, <2>6, PicksSplit
    <3>3. Picks(a, I1) \in Seq(X) /\ Picks(b, J1) \in Seq(X) /\ a[k] \in X /\ b[h] \in X
      <4>1. a[k] \in X /\ b[h] \in X
        BY <2>4
      <4> QED
        BY <4>1, PicksTyped
    <3>4. a[k] = b[h] /\ Picks(a, I1) = Picks(b, J1) /\ Len(Picks(a, I)) = Len(Picks(a, I1)) + 1
      <4> DEFINE x == Picks(a, I1)
                 y == Picks(b, J1)
      <4>1. Cons(a[k], x) = Cons(b[h], y) /\ Picks(a, I) = Cons(a[k], x)
        BY <3>1, <3>2
      <4>2. x \in Seq(X) /\ y \in Seq(X)
        BY <3>3
      <4> HIDE DEF x, y
      <4>3. a[k] = b[h] /\ x = y /\ Len(Cons(a[k], x)) = Len(x) + 1
        BY <3>3, <4>1, <4>2, ConsInjective
      <4>4. a[k] = b[h] /\ x = y /\ Len(Picks(a, I)) = Len(x) + 1
        BY <4>1, <4>3
      <4> QED
        BY <4>4 DEF x, y
    <3>5. i <= Len(a) /\ j <= Len(b) /\ k >= i /\ h >= j
      BY <1>1, <2>1
    <3>6. CASE a[i] = b[j]
      <4>1. I1 \in SUBSET ((i + 1)..Len(a)) /\ J1 \in SUBSET ((j + 1)..Len(b))
        BY <1>1, <2>1, <3>1, <3>2, <3>5
      <4>2. Bounded(i + 1, j + 1)
        BY <1>2, <3>5
      <4>3. Len(Picks(a, I1)) <= t[<<i+1, j+1>>]
        BY <3>4, <4>1, <4>2
      <4>4. t[<<i, j>>] = t[<<i+1, j+1>>] + 1 /\ t[<<i+1, j+1>>] \in Nat
        <5>1. <<i+1, j+1>> \in Grid(a, b)
          BY <3>5, ShorterTails
        <5>2. ~(i > Len(a)) /\ ~(j > Len(b))
          BY <1>1, <2>1, <3>5
        <5> QED
          BY <2>1, <2>2, <3>6, <5>1, <5>2 DEF TableAt
      <4>5. Len(Picks(a, I1)) \in Nat
        BY <3>3
      <4> HIDE DEF t
      <4> QED
        BY <3>4, <4>3, <4>4, <4>5
    <3>7. CASE a[i] # b[j]
      <4>1. t[<<i+1, j>>] \in Nat /\ t[<<i, j+1>>] \in Nat
        <5>1. <<i+1, j>> \in Grid(a, b) /\ <<i, j+1>> \in Grid(a, b)
          BY <3>5, ShorterTails
        <5> QED
          BY <2>1, <5>1
      <4>2. t[<<i, j>>] >= t[<<i+1, j>>] /\ t[<<i, j>>] >= t[<<i, j+1>>]
        <5>1. ~(i > Len(a)) /\ ~(j > Len(b))
          BY <1>1, <2>1, <3>5
        <5> HIDE DEF t
        <5> QED
          BY <2>2, <3>7, <4>1, <5>1 DEF TableAt
      <4>3. Len(Picks(a, I)) \in Nat
        BY <2>4
      <4>4. CASE k # i
        <5>1. I \in SUBSET ((i + 1)..Len(a))
          BY <1>1, <2>1, <3>1, <3>5, <4>4
        <5>2. Bounded(i + 1, j)
          BY <1>2, <3>5
        <5>3. Len(Picks(a, I)) <= t[<<i+1, j>>]
          BY <5>1, <5>2
        <5> HIDE DEF t
        <5> QED
          BY <2>3, <4>1, <4>2, <4>3, <5>3
      <4>5. CASE k = i
        <5>0. h # j
          BY <3>4, <3>7, <4>5
        <5>1. J \in SUBSET ((j + 1)..Len(b))
          BY <1>1, <2>1, <3>2, <3>5, <5>0
        <5>2. Bounded(i, j + 1)
          BY <1>2, <3>5
        <5>3. Len(Picks(a, I)) <= t[<<i, j+1>>]
          BY <5>1, <5>2
        <5> HIDE DEF t
        <5> QED
          BY <2>3, <4>1, <4>2, <4>3, <5>3
      <4> QED
        BY <4>4, <4>5
    <3> QED
      BY <3>6, <3>7
  <2> QED
    BY <2>5, <2>6
<1> HIDE DEF Bounded
<1>3. PassedOn(a, b, S)
  <2> SUFFICES ASSUME NEW i \in 1..(Len(a) + 1), NEW j \in 1..(Len(b) + 1),
                      i <= Len(a) => <<i+1, j>> \in S,
                      j <= Len(b) => <<i, j+1>> \in S,
                      i <= Len(a) /\ j <= Len(b) => <<i+1, j+1>> \in S
               PROVE  <<i, j>> \in S
    BY DEF PassedOn
  <2>1. <<i, j>> \in Grid(a, b)
    BY Tails
  <2>2. /\ i <= Len(a) => Bounded(i + 1, j)
        /\ j <= Len(b) => Bounded(i, j + 1)
        /\ i <= Len(a) /\ j <= Len(b) => Bounded(i + 1, j + 1)
    OBVIOUS
  <2>3. Bounded(i, j)
    BY <1>2, <2>2
  <2> QED
    BY <2>1, <2>3
<1>4. ASSUME NEW i \in 1..(Len(a) + 1), NEW j \in 1..(Len(b) + 1) PROVE Bounded(i, j)
  <2>1. <<i, j>> \in S
    <3> HIDE DEF S
    <3> QED
      BY <1>3, TailInduction
  <2> QED
    BY <2>1
<1> QED
  BY <1>4 DEF Bounded

-----------------------------------------------------------------------------
(* That a walk along the table keeps the most. *)

\* Where the texts differ, the walk goes where more is left in common.
Follows(a, b, removes) ==
    \A i \in 1..Len(a), j \in 1..Len(b) :
        /\ <<i, j>> \in removes => lcs(a, b)[<<i+1, j>>] >= lcs(a, b)[<<i, j+1>>]
        /\ <<i, j>> \notin removes => lcs(a, b)[<<i, j+1>>] >= lcs(a, b)[<<i+1, j>>]

\* Such a walk keeps as much as the table says can be kept.
LEMMA WalkKeeps ==
  ASSUME NEW X, NEW a \in Seq(X), NEW b \in Seq(X), NEW removes, Follows(a, b, removes)
  PROVE  Len(TextsOf(Walk(a, b, removes), {"equal"})) = lcs(a, b)[<<1, 1>>]
<1> DEFINE t == lcs(a, b)
           E == {"equal"}
<1>0. "equal" \in E /\ "remove" \notin E /\ "add" \notin E
  OBVIOUS
<1> HIDE DEF E
<1>1. PICK f \in [Grid(a, b) -> Seq(AStep(X))] :
            /\ Walk(a, b, removes) = f[<<1, 1>>]
            /\ \A i \in 1..(Len(a) + 1), j \in 1..(Len(b) + 1) :
                  f[<<i, j>>] = StepAt(a, b, removes, f, i, j)
  BY WalkSteps
<1> DEFINE Keeps(i, j) == Len(TextsOf(f[<<i, j>>], E)) = t[<<i, j>>]
           S == {p \in Grid(a, b) : Keeps(p[1], p[2])}
<1>2. Len(a) \in Nat /\ Len(b) \in Nat
  OBVIOUS
<1>3. ASSUME NEW x \in X, NEW s \in Seq(AStep(X))
      PROVE  /\ Len(TextsOf(Cons(Step("equal", x), s), E)) = Len(TextsOf(s, E)) + 1
             /\ Len(TextsOf(Cons(Step("remove", x), s), E)) = Len(TextsOf(s, E))
             /\ Len(TextsOf(Cons(Step("add", x), s), E)) = Len(TextsOf(s, E))
  <2>1. /\ TextsOf(Cons(Step("equal", x), s), E) = <<x>> \o TextsOf(s, E)
        /\ TextsOf(Cons(Step("remove", x), s), E) = TextsOf(s, E)
        /\ TextsOf(Cons(Step("add", x), s), E) = TextsOf(s, E)
    BY <1>0, TextsStep
  <2>2. TextsOf(s, E) \in Seq(X)
    BY TextsTyped
  <2> QED
    BY <2>1, <2>2
<1>4. ASSUME NEW i \in 1..(Len(a) + 1), NEW j \in 1..(Len(b) + 1),
             i <= Len(a) => Keeps(i + 1, j),
             j <= Len(b) => Keeps(i, j + 1),
             i <= Len(a) /\ j <= Len(b) => Keeps(i + 1, j + 1)
      PROVE  Keeps(i, j)
  <2>1. i \in Nat /\ j \in Nat
    OBVIOUS
  <2>2. f[<<i, j>>] = StepAt(a, b, removes, f, i, j) /\ t[<<i, j>>] = TableAt(a, b, t, i, j)
    BY <1>1, TableEntries
  <2>3. CASE i > Len(a) /\ j > Len(b)
    <3>1. f[<<i, j>>] = <<>> /\ t[<<i, j>>] = 0
      BY <2>2, <2>3 DEF StepAt, TableAt
    <3>2. TextsOf(<<>>, E) = <<>>
      BY TextsEmpty
    <3> QED
      BY <3>1, <3>2
  <2>4. CASE i > Len(a) /\ j <= Len(b)
    <3>1. f[<<i, j>>] = Cons(Step("add", b[j]), f[<<i, j+1>>]) /\ t[<<i, j>>] = 0
      BY <1>2, <2>1, <2>2, <2>4 DEF StepAt, TableAt
    <3>2. b[j] \in X /\ f[<<i, j+1>>] \in Seq(AStep(X)) /\ j + 1 \in 1..(Len(b) + 1)
      BY <2>4, ShorterTails
    <3>3. Len(TextsOf(f[<<i, j>>], E)) = Len(TextsOf(f[<<i, j+1>>], E))
      BY <1>3, <3>1, <3>2
    <3>4. t[<<i, j+1>>] = 0
      <4>1. t[<<i, j+1>>] = TableAt(a, b, t, i, j + 1)
        BY <3>2, TableEntries
      <4> QED
        BY <2>4, <4>1 DEF TableAt
    <3> QED
      BY <1>4, <2>4, <3>1, <3>3, <3>4
  <2>5. CASE i <= Len(a) /\ j > Len(b)
    <3>1. f[<<i, j>>] = Cons(Step("remove", a[i]), f[<<i+1, j>>]) /\ t[<<i, j>>] = 0
      BY <1>2, <2>1, <2>2, <2>5 DEF StepAt, TableAt
    <3>2. a[i] \in X /\ f[<<i+1, j>>] \in Seq(AStep(X)) /\ i + 1 \in 1..(Len(a) + 1)
      BY <2>5, ShorterTails
    <3>3. Len(TextsOf(f[<<i, j>>], E)) = Len(TextsOf(f[<<i+1, j>>], E))
      BY <1>3, <3>1, <3>2
    <3>4. t[<<i+1, j>>] = 0
      <4>1. t[<<i+1, j>>] = TableAt(a, b, t, i + 1, j)
        BY <3>2, TableEntries
      <4> QED
        BY <2>5, <4>1 DEF TableAt
    <3> QED
      BY <1>4, <2>5, <3>1, <3>3, <3>4
  <2>6. CASE i <= Len(a) /\ j <= Len(b)
    <3>1. /\ a[i] \in X /\ b[j] \in X /\ f[<<i+1, j>>] \in Seq(AStep(X))
          /\ f[<<i, j+1>>] \in Seq(AStep(X)) /\ f[<<i+1, j+1>>] \in Seq(AStep(X))
      BY <2>6, ShorterTails
    <3>2. t[<<i+1, j>>] \in Nat /\ t[<<i, j+1>>] \in Nat /\ t[<<i+1, j+1>>] \in Nat
      <4>1. t \in [Grid(a, b) -> Nat]
        BY TableEntries
      <4> HIDE DEF t
      <4> QED
        BY <2>6, <4>1, ShorterTails
    <3>3. ~(i > Len(a)) /\ ~(j > Len(b)) /\ i \in 1..Len(a) /\ j \in 1..Len(b)
      BY <1>2, <2>1, <2>6
    <3>4. /\ <<i, j>> \in removes => t[<<i+1, j>>] >= t[<<i, j+1>>]
          /\ <<i, j>> \notin removes => t[<<i, j+1>>] >= t[<<i+1, j>>]
      BY <3>3 DEF Follows
    <3> HIDE DEF t
    <3>5. CASE a[i] = b[j]
      <4>1. f[<<i, j>>] = Cons(Step("equal", a[i]), f[<<i+1, j+1>>]) /\ t[<<i, j>>] = t[<<i+1, j+1>>] + 1
        BY <2>2, <3>3, <3>5 DEF StepAt, TableAt
      <4>2. Len(TextsOf(f[<<i, j>>], E)) = Len(TextsOf(f[<<i+1, j+1>>], E)) + 1
        BY <1>3, <3>1, <4>1
      <4> QED
        BY <1>4, <2>6, <4>1, <4>2
    <3>6. CASE a[i] # b[j] /\ <<i, j>> \in removes
      <4>1. f[<<i, j>>] = Cons(Step("remove", a[i]), f[<<i+1, j>>])
        BY <2>2, <3>3, <3>6 DEF StepAt
      <4>2. t[<<i, j>>] = t[<<i+1, j>>]
        BY <2>2, <3>2, <3>3, <3>4, <3>6 DEF TableAt
      <4>3. Len(TextsOf(f[<<i, j>>], E)) = Len(TextsOf(f[<<i+1, j>>], E))
        BY <1>3, <3>1, <4>1
      <4> QED
        BY <1>4, <2>6, <4>2, <4>3
    <3>7. CASE a[i] # b[j] /\ <<i, j>> \notin removes
      <4>1. f[<<i, j>>] = Cons(Step("add", b[j]), f[<<i, j+1>>])
        BY <2>2, <3>3, <3>7 DEF StepAt
      <4>2. t[<<i, j>>] = t[<<i, j+1>>]
        BY <2>2, <3>2, <3>3, <3>4, <3>7 DEF TableAt
      <4>3. Len(TextsOf(f[<<i, j>>], E)) = Len(TextsOf(f[<<i, j+1>>], E))
        BY <1>3, <3>1, <4>1
      <4> QED
        BY <1>4, <2>6, <4>2, <4>3
    <3> QED
      BY <3>5, <3>6, <3>7
  <2> QED
    BY <1>2, <2>1, <2>3, <2>4, <2>5, <2>6
<1> HIDE DEF Keeps
<1>5. PassedOn(a, b, S)
  <2> SUFFICES ASSUME NEW i \in 1..(Len(a) + 1), NEW j \in 1..(Len(b) + 1),
                      i <= Len(a) => <<i+1, j>> \in S,
                      j <= Len(b) => <<i, j+1>> \in S,
                      i <= Len(a) /\ j <= Len(b) => <<i+1, j+1>> \in S
               PROVE  <<i, j>> \in S
    BY DEF PassedOn
  <2>1. <<i, j>> \in Grid(a, b)
    BY Tails
  <2>2. /\ i <= Len(a) => Keeps(i + 1, j)
        /\ j <= Len(b) => Keeps(i, j + 1)
        /\ i <= Len(a) /\ j <= Len(b) => Keeps(i + 1, j + 1)
    OBVIOUS
  <2>3. Keeps(i, j)
    BY <1>4, <2>2
  <2> QED
    BY <2>1, <2>3
<1>6. Keeps(1, 1)
  <2>1. <<1, 1>> \in S
    <3>1. 1 \in 1..(Len(a) + 1) /\ 1 \in 1..(Len(b) + 1)
      BY <1>2
    <3> HIDE DEF S
    <3> QED
      BY <1>5, <3>1, TailInduction
  <2> QED
    BY <2>1
<1> QED
  BY <1>1, <1>6 DEF Keeps, E

\* So that no diff keeps more.
LEMMA WalkFaithful ==
  ASSUME NEW X, NEW a \in Seq(X), NEW b \in Seq(X), NEW removes, Follows(a, b, removes)
  PROVE  Faithful(Walk(a, b, removes), a, b)
<1>1. ASSUME NEW x \in Subsequences(a) \cap Subsequences(b)
      PROVE  Len(x) <= Len(TextsOf(Walk(a, b, removes), {"equal"}))
  <2>1. PICK I \in SUBSET DOMAIN a : x = Picks(a, I)
    BY DEF Subsequences, Picks
  <2>2. PICK J \in SUBSET DOMAIN b : x = Picks(b, J)
    BY DEF Subsequences, Picks
  <2>3. DOMAIN a = 1..Len(a) /\ DOMAIN b = 1..Len(b) /\ 1 \in 1..(Len(a) + 1) /\ 1 \in 1..(Len(b) + 1)
    OBVIOUS
  <2>4. Len(x) <= lcs(a, b)[<<1, 1>>]
    BY <2>1, <2>2, <2>3, TableBounds
  <2> QED
    BY <2>4, WalkKeeps
<1> QED
  BY <1>1, WalkReads DEF Faithful

\* The panel's diff and the preview's.
LEMMA DiffsFaithful ==
  ASSUME NEW X, NEW a \in Seq(X), NEW b \in Seq(X)
  PROVE  Faithful(script(a, b), a, b) /\ Faithful(wordingDiff(a, b), a, b)
<1>1. ASSUME NEW i \in 1..Len(a), NEW j \in 1..Len(b)
      PROVE  /\ <<i, j>> \in Pairs(a, b)
             /\ lcs(a, b)[<<i+1, j>>] \in Nat /\ lcs(a, b)[<<i, j+1>>] \in Nat
  <2>1. i \in 1..(Len(a) + 1) /\ j \in 1..(Len(b) + 1) /\ i <= Len(a) /\ j <= Len(b)
    OBVIOUS
  <2>2. <<i+1, j>> \in Grid(a, b) /\ <<i, j+1>> \in Grid(a, b)
    BY <2>1, ShorterTails
  <2>3. lcs(a, b) \in [Grid(a, b) -> Nat]
    BY TableEntries
  <2>4. <<i, j>> \in Pairs(a, b)
    BY DEF Pairs
  <2> QED
    BY <2>2, <2>3, <2>4
<1> DEFINE R1 == {p \in Pairs(a, b) : lcs(a, b)[<<p[1]+1, p[2]>>] >= lcs(a, b)[<<p[1], p[2]+1>>]}
           R2 == {p \in Pairs(a, b) : lcs(a, b)[<<p[1], p[2]+1>>] < lcs(a, b)[<<p[1]+1, p[2]>>]}
<1>2. Follows(a, b, R1) /\ Follows(a, b, R2)
  <2> SUFFICES ASSUME NEW i \in 1..Len(a), NEW j \in 1..Len(b)
               PROVE  /\ <<i, j>> \in R1 => lcs(a, b)[<<i+1, j>>] >= lcs(a, b)[<<i, j+1>>]
                      /\ <<i, j>> \notin R1 => lcs(a, b)[<<i, j+1>>] >= lcs(a, b)[<<i+1, j>>]
                      /\ <<i, j>> \in R2 => lcs(a, b)[<<i+1, j>>] >= lcs(a, b)[<<i, j+1>>]
                      /\ <<i, j>> \notin R2 => lcs(a, b)[<<i, j+1>>] >= lcs(a, b)[<<i+1, j>>]
    BY DEF Follows
  <2> DEFINE x == lcs(a, b)[<<i+1, j>>]
             y == lcs(a, b)[<<i, j+1>>]
  <2>1. (<<i, j>> \in R1 <=> x >= y) /\ (<<i, j>> \in R2 <=> y < x) /\ x \in Nat /\ y \in Nat
    BY <1>1
  <2> HIDE DEF R1, R2, x, y
  <2>2. /\ <<i, j>> \in R1 => x >= y
        /\ <<i, j>> \notin R1 => y >= x
        /\ <<i, j>> \in R2 => x >= y
        /\ <<i, j>> \notin R2 => y >= x
    BY <2>1
  <2> QED
    BY <2>2 DEF x, y
<1>3. script(a, b) = Walk(a, b, R1) /\ wordingDiff(a, b) = Walk(a, b, R2)
  BY DEF script, wordingDiff
<1> HIDE DEF R1, R2
<1> QED
  BY <1>2, <1>3, WalkFaithful

-----------------------------------------------------------------------------
(* The parts inside a hunk. *)

\* What k makes of the steps of some kinds is what g makes of their texts.
MakesOf(X, V, ops, k, g) ==
    /\ g \in [X -> Seq(V)] /\ k \in [AStep(X) -> Seq(V)]
    /\ \A s \in AStep(X) : k[s] = IF s.op \in ops THEN g[s.text] ELSE <<>>

\* What is made of the texts of the steps of some kinds is made of those steps.
LEMMA Fusion ==
  ASSUME NEW X, NEW V, NEW ops, NEW g, NEW k, MakesOf(X, V, ops, k, g)
  PROVE  \A steps \in Seq(AStep(X)) : Mapped(steps, k) = Mapped(TextsOf(steps, ops), g)
<1> DEFINE A == AStep(X)
           S == {st \in Seq(A) : Mapped(st, k) = Mapped(TextsOf(st, ops), g)}
<1> g \in [X -> Seq(V)] /\ k \in [AStep(X) -> Seq(V)]
  BY DEF MakesOf
<1>1. <<>> \in S
  BY MapEmpty, TextsEmpty, EmptySeq
<1>2. ASSUME NEW st \in Seq(A), NEW s \in A, st \in S PROVE Append(st, s) \in S
  <2>1. Append(st, s) \in Seq(A) /\ TextsOf(st, ops) \in Seq(X) /\ s.text \in X
    <3>1. s.text \in X
      BY DEF AStep
    <3> QED
      BY <3>1, TextsTyped
  <2>2. Mapped(Append(st, s), k) = Mapped(st, k) \o k[s]
    <3> HIDE DEF A
    <3>1. k \in [A -> Seq(V)]
      BY DEF A
    <3> QED
      BY <3>1, MapAppend
  <2>3. TextsOf(Append(st, s), ops) = TextsOf(st, ops) \o Chosen(X, ops)[s]
    BY TextsAppend
  <2>4. Mapped(st, k) \in Seq(V)
    <3> HIDE DEF A
    <3>1. k \in [A -> Seq(V)]
      BY DEF A
    <3> QED
      BY <3>1, MapTyped
  <2>5. CASE s.op \in ops
    <3>1. TextsOf(Append(st, s), ops) = Append(TextsOf(st, ops), s.text)
      <4>1. Chosen(X, ops)[s] = <<s.text>>
        BY <2>5 DEF Chosen
      <4> QED
        BY <2>1, <2>3, <4>1
    <3>2. Mapped(Append(TextsOf(st, ops), s.text), g) = Mapped(TextsOf(st, ops), g) \o g[s.text]
      <4> DEFINE t == TextsOf(st, ops)
                 x == s.text
      <4>1. t \in Seq(X) /\ x \in X
        BY <2>1
      <4> HIDE DEF t, x
      <4>2. Mapped(Append(t, x), g) = Mapped(t, g) \o g[x]
        BY <4>1, MapAppend
      <4> QED
        BY <4>2 DEF t, x
    <3>3. k[s] = g[s.text]
      BY <2>5 DEF MakesOf
    <3> QED
      BY <1>2, <2>1, <2>2, <3>1, <3>2, <3>3
  <2>6. CASE s.op \notin ops
    <3>1. TextsOf(Append(st, s), ops) = TextsOf(st, ops)
      <4>1. Chosen(X, ops)[s] = <<>>
        BY <2>6 DEF Chosen
      <4> QED
        BY <2>1, <2>3, <4>1, ConcatEmptySeq
    <3>2. Mapped(Append(st, s), k) = Mapped(st, k)
      <4>1. k[s] = <<>>
        BY <2>6 DEF MakesOf
      <4> QED
        BY <2>2, <2>4, <4>1, ConcatEmptySeq
    <3> QED
      BY <1>2, <2>1, <3>1, <3>2
  <2> QED
    BY <2>5, <2>6
<1>3. \A st \in Seq(A) : st \in S
  <2> HIDE DEF S, A
  <2> QED
    BY <1>1, <1>2, Growing
<1> QED
  BY <1>3

\* The words of parts, from left to right.
PartWords(V) == [s \in AStep(Seq(V)) |-> s.text]

\* A step pushed on the parts adds its text to their words (markwords.go: push).
LEMMA Pushed ==
  ASSUME NEW V, NEW parts \in Seq(AStep(Seq(V))), NEW s \in AStep(V)
  PROVE  /\ push(parts, s) \in Seq(AStep(Seq(V)))
         /\ Mapped(push(parts, s), PartWords(V)) = Append(Mapped(parts, PartWords(V)), s.text)
<1> DEFINE A == AStep(Seq(V))
           g == PartWords(V)
           n == Len(parts)
<1>1. g \in [A -> Seq(V)] /\ \A x \in A : g[x] = x.text
  BY DEF PartWords, AStep
<1>2. s.text \in V /\ s.op \in {"equal", "remove", "add"}
  BY DEF AStep
<1>3. Mapped(parts, g) \in Seq(V)
  <2> HIDE DEF A, g
  <2>1. parts \in Seq(A)
    BY DEF A
  <2> QED
    BY <1>1, <2>1, MapTyped
<1>4. CASE parts # <<>> /\ Last(parts).op = s.op
  <2>1. PICK front \in Seq(A), x \in A : parts = Append(front, x)
    BY <1>4, SequenceEmptyOrAppend
  <2>2. n = Len(front) + 1 /\ Len(front) \in Nat /\ n \in 1..n /\ parts[n] = x /\ \A i \in 1..Len(front) : parts[i] = front[i]
    BY <2>1
  <2> DEFINE y == [x EXCEPT !.text = Append(@, s.text)]
  <2>3. y \in A /\ y.text = Append(x.text, s.text) /\ x.text \in Seq(V)
    <3>1. x.text \in Seq(V)
      BY DEF AStep
    <3>2. Append(x.text, s.text) \in Seq(V)
      BY <1>2, <3>1
    <3>3. ASSUME NEW t \in Seq(V) PROVE [x EXCEPT !.text = t] \in A /\ [x EXCEPT !.text = t].text = t
      BY DEF AStep
    <3> QED
      BY <3>1, <3>2, <3>3
  <2>4. push(parts, s) = Append(front, y)
    <3>1. push(parts, s) = [parts EXCEPT ![n] = y]
      BY <1>4, <2>2 DEF push
    <3> DEFINE l == [parts EXCEPT ![n] = y]
               r == Append(front, y)
    <3>2. l \in Seq(A) /\ r \in Seq(A) /\ Len(l) = n /\ Len(r) = n
      BY <2>2, <2>3, ExceptSeq
    <3>3. ASSUME NEW i \in 1..Len(l) PROVE l[i] = r[i]
      BY <2>2, <2>3, <3>2
    <3>4. l = r
      <4> HIDE DEF l, r
      <4> QED
        BY <3>2, <3>3, SeqEqual
    <3> QED
      BY <3>1, <3>4
  <2>5. Mapped(front, g) \in Seq(V) /\ Mapped(parts, g) = Mapped(front, g) \o x.text
        /\ Mapped(Append(front, y), g) = Mapped(front, g) \o Append(x.text, s.text)
    <3> HIDE DEF A, g, y
    <3>1. Mapped(front, g) \in Seq(V)
      BY <1>1, MapTyped
    <3>2. Mapped(Append(front, x), g) = Mapped(front, g) \o g[x]
      BY <1>1, MapAppend
    <3>3. Mapped(Append(front, y), g) = Mapped(front, g) \o g[y]
      BY <1>1, <2>3, MapAppend
    <3> QED
      BY <1>1, <2>1, <2>3, <3>1, <3>2, <3>3
  <2>6. Mapped(front, g) \o Append(x.text, s.text) = Append(Mapped(front, g) \o x.text, s.text)
    <3> DEFINE p == Mapped(front, g)
               q == x.text
               w == s.text
    <3>1. p \in Seq(V) /\ q \in Seq(V) /\ w \in V
      BY <1>2, <2>3, <2>5
    <3> HIDE DEF p, q, w
    <3>2. p \o Append(q, w) = Append(p \o q, w)
      BY <3>1
    <3> QED
      BY <3>2 DEF p, q, w
  <2>7. Append(front, y) \in Seq(A)
    BY <2>3
  <2> QED
    BY <2>4, <2>5, <2>6, <2>7
<1>5. CASE ~(parts # <<>> /\ Last(parts).op = s.op)
  <2> DEFINE y == Step(s.op, <<s.text>>)
  <2>1. push(parts, s) = Append(parts, y)
    BY <1>5 DEF push
  <2>2. y \in A /\ y.text = <<s.text>>
    BY <1>2 DEF Step, AStep
  <2>3. Mapped(Append(parts, y), g) = Mapped(parts, g) \o g[y]
    <3> HIDE DEF A, g, y
    <3>1. parts \in Seq(A)
      BY DEF A
    <3> QED
      BY <1>1, <2>2, <3>1, MapAppend
  <2>4. Append(parts, y) \in Seq(A)
    BY <2>2
  <2>5. Mapped(parts, g) \o <<s.text>> = Append(Mapped(parts, g), s.text)
    BY <1>2, <1>3
  <2> QED
    BY <1>1, <2>1, <2>2, <2>3, <2>4, <2>5
<1> QED
  BY <1>4, <1>5

\* The parts of one side of two aligned passages are its words.
LEMMA PartsRead ==
  ASSUME NEW V, NEW steps \in Seq(AStep(V)), NEW op
  PROVE  /\ Parts(steps, op) \in Seq(AStep(Seq(V)))
         /\ Mapped(Parts(steps, op), PartWords(V)) = TextsOf(steps, {"equal", op})
<1> DEFINE n == Len(steps)
           D == 0..n
           A == Seq(AStep(Seq(V)))
           ops == {"equal", op}
           r == [i \in D |-> i]
           Next1(h, i) == IF i = 0 THEN <<>> ELSE IF steps[i].op \in ops THEN push(h[i-1], steps[i]) ELSE h[i-1]
           T == [h \in [D -> A] |-> [i \in D |-> Next1(h, i)]]
           f == CHOOSE f : f = [i \in D |-> Next1(f, i)]
<1>1. n \in Nat /\ n \in D /\ 0 \in D /\ \A i \in 1..n : i \in D /\ i - 1 \in D /\ steps[i] \in AStep(V)
  <2>1. n \in Nat
    OBVIOUS
  <2>2. \A i \in 1..n : steps[i] \in AStep(V)
    BY ElementOfSeq
  <2> QED
    BY <2>1, <2>2
<1>2. T \in [[D -> A] -> [D -> A]]
  <2>1. ASSUME NEW h \in [D -> A], NEW i \in D PROVE Next1(h, i) \in A
    <3>1. CASE i = 0
      BY <3>1
    <3>2. CASE i # 0
      <4>1. i \in 1..n /\ h[i-1] \in A /\ steps[i] \in AStep(V)
        <5>1. i \in 1..n
          BY <1>1, <3>2
        <5> QED
          BY <1>1, <5>1
      <4>2. push(h[i-1], steps[i]) \in A
        BY <4>1, Pushed
      <4> QED
        BY <3>2, <4>1, <4>2
    <3> QED
      BY <3>1, <3>2
  <2> QED
    BY <2>1
<1>3. ASSUME NEW h, NEW k, NEW i \in D, Next1(h, i) # Next1(k, i)
      PROVE  \E j \in D : r[j] < r[i] /\ h[j] # k[j]
  <2>1. i # 0 /\ h[i-1] # k[i-1]
    BY <1>3
  <2>2. i - 1 \in D /\ r[i-1] < r[i]
    BY <1>1, <2>1
  <2> QED
    BY <2>1, <2>2
<1>4. Recursive(D, n, r, A, T)
  <2>1. \A h, k \in [D -> A], i \in D : T[h][i] # T[k][i] => \E j \in D : r[j] < r[i] /\ h[j] # k[j]
    BY <1>3
  <2>2. n \in Nat /\ r \in [D -> 0..n]
    BY <1>1
  <2>3. <<>> \in A
    OBVIOUS
  <2> QED
    BY <1>2, <2>1, <2>2, <2>3 DEF Recursive
<1>5. PICK h \in [D -> A] : h = [i \in D |-> Next1(h, i)]
  <2>1. \E h \in [D -> A] : T[h] = h
    <3> HIDE DEF D, T, r, A, n
    <3> QED
      BY <1>4, Recursion
  <2> QED
    BY <2>1
<1>6. Parts(steps, op) = f[n]
  BY DEF Parts
<1>7. f = [i \in D |-> Next1(f, i)]
  BY <1>5
<1> HIDE DEF f
<1>8. f = h
  <2>1. LowerYet(D, r, f, h)
    <3>1. r \in [D -> Nat]
      BY <1>1
    <3>2. \A i \in D : f[i] # h[i] => Next1(f, i) # Next1(h, i)
      BY <1>5, <1>7
    <3> HIDE DEF Next1
    <3> QED
      BY <1>3, <3>1, <3>2 DEF LowerYet
  <2>2. \A i \in D : f[i] = h[i]
    <3> HIDE DEF D, r
    <3> QED
      BY <2>1, Unique
  <2> QED
    BY <1>5, <1>7, <2>2
<1> DEFINE pre(i) == SubSeq(steps, 1, i)
           S == {i \in D : Mapped(h[i], PartWords(V)) = TextsOf(pre(i), ops)}
<1>9. 0 \in S
  <2>1. pre(0) = <<>> /\ h[0] = <<>>
    BY <1>1, <1>5, SubSeqEmpty
  <2> QED
    BY <1>1, <2>1, MapEmpty, TextsEmpty
<1>10. ASSUME NEW i \in 1..n, i - 1 \in S PROVE i \in S
  <2>1. h[i] = (IF steps[i].op \in ops THEN push(h[i-1], steps[i]) ELSE h[i-1]) /\ h[i-1] \in A
    <3>1. i \in D /\ i - 1 \in D /\ i # 0
      BY <1>1
    <3> QED
      BY <1>5, <3>1
  <2>2. pre(i) = Append(pre(i - 1), steps[i]) /\ pre(i - 1) \in Seq(AStep(V))
    <3>1. pre(i) = SubSeq(steps, 1, i - 1) \o <<steps[i]>>
      BY <1>1, SubSeqRecursiveSecond
    <3>2. pre(i - 1) \in Seq(AStep(V))
      BY <1>1, SubSeqProperties
    <3> QED
      BY <1>1, <3>1, <3>2, AppendIsConcat
  <2>3. TextsOf(pre(i), ops) = TextsOf(pre(i - 1), ops) \o Chosen(V, ops)[steps[i]]
    <3> DEFINE p == pre(i - 1)
    <3> HIDE DEF p
    <3> QED
      BY <1>1, <2>2, TextsAppend DEF p
  <2>4. TextsOf(pre(i - 1), ops) \in Seq(V)
    <3> DEFINE p == pre(i - 1)
    <3>1. p \in Seq(AStep(V))
      BY <2>2
    <3> HIDE DEF p
    <3>2. TextsOf(p, ops) \in Seq(V)
      BY <3>1, TextsTyped
    <3> QED
      BY <3>2 DEF p
  <2>5. i \in D /\ steps[i] \in AStep(V)
    BY <1>1
  <2>6. CASE steps[i].op \in ops
    <3>1. Chosen(V, ops)[steps[i]] = <<steps[i].text>> /\ steps[i].text \in V
      BY <2>5, <2>6 DEF Chosen, AStep
    <3>2. Mapped(h[i], PartWords(V)) = Append(Mapped(h[i-1], PartWords(V)), steps[i].text)
      BY <2>1, <2>5, <2>6, Pushed
    <3> HIDE DEF pre, ops
    <3> QED
      BY <1>10, <2>3, <2>4, <2>5, <3>1, <3>2, AppendIsConcat
  <2>7. CASE steps[i].op \notin ops
    <3>1. Chosen(V, ops)[steps[i]] = <<>>
      BY <2>5, <2>7 DEF Chosen
    <3> HIDE DEF pre, ops
    <3> QED
      BY <1>10, <2>1, <2>3, <2>4, <2>5, <2>7, <3>1, ConcatEmptySeq
  <2> QED
    BY <2>6, <2>7
<1>11. n \in S
  <2>1. \A i \in 0..n : i \in S
    <3> HIDE DEF S
    <3> QED
      BY <1>1, <1>9, <1>10, Count
  <2> QED
    BY <1>1, <2>1
<1>12. pre(n) = steps
  BY SubSeqFull
<1>13. h[n] \in A
  BY <1>1
<1> QED
  BY <1>6, <1>8, <1>11, <1>12, <1>13

-----------------------------------------------------------------------------
(* Hunks, their marks, and what they say. *)

\* The hunks of a panel.
HunksOf(V) == {h \in [op: {"equal", "remove", "add"}, words: Seq(V), parts: Seq(AStep(Seq(V)))] : Marked(h)}

SideOf(V, other) == [h \in HunksOf(V) |-> IF h.op = other THEN <<>> ELSE h.words]

\* What hunks say of a side is a concatenation over them.
LEMMA SideMapped ==
  ASSUME NEW V, NEW other
  PROVE  /\ SideOf(V, other) \in [HunksOf(V) -> Seq(V)]
         /\ \A hunks \in Seq(HunksOf(V)) : Side(hunks, other) = Mapped(hunks, SideOf(V, other))
<1>1. SideOf(V, other) \in [HunksOf(V) -> Seq(V)]
  BY DEF SideOf, HunksOf
<1>2. ASSUME NEW hunks \in Seq(HunksOf(V)) PROVE Side(hunks, other) = Mapped(hunks, SideOf(V, other))
  <2>1. DOMAIN hunks = 1..Len(hunks)
    OBVIOUS
  <2>2. ASSUME NEW i \in DOMAIN hunks PROVE hunks[i] \in HunksOf(V)
    BY <2>1, ElementOfSeq
  <2>3. [i \in DOMAIN hunks |-> IF hunks[i].op = other THEN <<>> ELSE hunks[i].words]
        = [i \in DOMAIN hunks |-> SideOf(V, other)[hunks[i]]]
    BY <2>2 DEF SideOf
  <2> QED
    BY <2>3 DEF Side, Mapped, EachBy
<1> QED
  BY <1>1, <1>2

LEMMA AHunk ==
  ASSUME NEW V, NEW op \in {"equal", "remove", "add"}, NEW words \in Seq(V)
  PROVE  /\ Hunk(op, words) \in HunksOf(V)
         /\ Hunk(op, words).op = op /\ Hunk(op, words).words = words
  BY DEF Hunk, HunksOf, Marked

\* A hunk takes the parts of its side as marks.
LEMMA Marks ==
  ASSUME NEW V, NEW h \in HunksOf(V), NEW steps \in Seq(AStep(V)), NEW op,
         TextsOf(steps, {"equal", op}) = h.words
  PROVE  /\ [h EXCEPT !.parts = Parts(steps, op)] \in HunksOf(V)
         /\ [h EXCEPT !.parts = Parts(steps, op)].op = h.op
         /\ [h EXCEPT !.parts = Parts(steps, op)].words = h.words
<1> DEFINE P == Parts(steps, op)
           A == AStep(Seq(V))
<1>1. P \in Seq(A) /\ Mapped(P, PartWords(V)) = h.words
  BY PartsRead
<1> HIDE DEF P
<1>2. FlattenSeq([i \in DOMAIN P |-> P[i].text]) = h.words
  <2>1. ASSUME NEW i \in DOMAIN P PROVE P[i].text = PartWords(V)[P[i]]
    <3>1. P[i] \in A
      <4> HIDE DEF A
      <4> QED
        BY <1>1
    <3> QED
      BY <3>1 DEF PartWords
  <2>2. [i \in DOMAIN P |-> P[i].text] = EachBy(P, PartWords(V))
    BY <2>1 DEF EachBy
  <2> QED
    BY <1>1, <2>2 DEF Mapped
<1>3. h \in [op: {"equal", "remove", "add"}, words: Seq(V), parts: Seq(A)]
  BY DEF HunksOf
<1> DEFINE k == [h EXCEPT !.parts = P]
<1>4. k \in [op: {"equal", "remove", "add"}, words: Seq(V), parts: Seq(A)]
      /\ k.op = h.op /\ k.words = h.words /\ k.parts = P
  <2> HIDE DEF A
  <2> QED
    BY <1>1, <1>3
<1>5. Marked(k)
  <2> HIDE DEF k
  <2> QED
    BY <1>2, <1>4 DEF Marked
<1>6. k \in HunksOf(V)
  BY <1>4, <1>5 DEF HunksOf
<1> QED
  BY <1>4, <1>6 DEF P

\* No marks are a side's either.
LEMMA NoMarks ==
  ASSUME NEW V, NEW h \in HunksOf(V)
  PROVE  /\ [h EXCEPT !.parts = <<>>] \in HunksOf(V)
         /\ [h EXCEPT !.parts = <<>>].op = h.op
         /\ [h EXCEPT !.parts = <<>>].words = h.words
<1> DEFINE A == AStep(Seq(V))
           k == [h EXCEPT !.parts = <<>>]
<1>1. h \in [op: {"equal", "remove", "add"}, words: Seq(V), parts: Seq(A)] /\ <<>> \in Seq(A)
  BY EmptySeq DEF HunksOf
<1>2. k \in [op: {"equal", "remove", "add"}, words: Seq(V), parts: Seq(A)]
      /\ k.op = h.op /\ k.words = h.words /\ k.parts = <<>>
  <2> HIDE DEF A
  <2> QED
    BY <1>1
<1> HIDE DEF k
<1>3. k \in HunksOf(V)
  BY <1>2 DEF HunksOf, Marked
<1> QED
  BY <1>2, <1>3 DEF k

SameBut(h, k, H) == k \in H /\ k.op = h.op /\ k.words = h.words

\* Aligned or not, a removal and its addition keep their words.
LEMMA MarkedPair ==
  ASSUME NEW V, NEW x \in HunksOf(V), NEW y \in HunksOf(V)
  PROVE  /\ SameBut(x, [x EXCEPT !.parts = markPair(x.words, y.words)[1]], HunksOf(V))
         /\ SameBut(y, [y EXCEPT !.parts = markPair(x.words, y.words)[2]], HunksOf(V))
<1> DEFINE a == x.words
           b == y.words
           st == script(a, b)
           p == markPair(a, b)
<1>1. a \in Seq(V) /\ b \in Seq(V)
  BY DEF HunksOf
<1>2. \E R : st = Walk(a, b, R)
  BY DEF script
<1>3. /\ st \in Seq(AStep(V))
      /\ TextsOf(st, {"equal", "remove"}) = a
      /\ TextsOf(st, {"equal", "add"}) = b
  <2> HIDE DEF st, a, b
  <2> QED
    BY <1>1, <1>2, WalkReads
<1>4. \/ p[1] = Parts(st, "remove") /\ p[2] = Parts(st, "add")
      \/ p[1] = <<>> /\ p[2] = <<>>
  BY DEF markPair
<1> HIDE DEF st, p
<1>5. CASE p[1] = Parts(st, "remove") /\ p[2] = Parts(st, "add")
  <2> QED
    BY <1>3, <1>5, Marks DEF p, SameBut
<1>6. CASE p[1] = <<>> /\ p[2] = <<>>
  <2> QED
    BY <1>6, NoMarks DEF p, SameBut
<1> QED
  BY <1>4, <1>5, <1>6

\* So marking changes nothing either side says (markwords.go).
LEMMA MarkedHunks ==
  ASSUME NEW V, NEW hunks \in Seq(HunksOf(V))
  PROVE  /\ MarkWords(hunks) \in Seq(HunksOf(V))
         /\ \A other : Side(MarkWords(hunks), other) = Side(hunks, other)
<1> DEFINE m == MarkWords(hunks)
           H == HunksOf(V)
<1>1. DOMAIN hunks = 1..Len(hunks) /\ Len(hunks) \in Nat /\ \A i \in 1..Len(hunks) : hunks[i] \in H
  <2>1. \A i \in 1..Len(hunks) : hunks[i] \in H
    BY ElementOfSeq
  <2> QED
    BY <2>1
<1>2. DOMAIN m = 1..Len(hunks)
  BY <1>1 DEF MarkWords
<1>3. ASSUME NEW i \in 1..Len(hunks)
      PROVE  SameBut(hunks[i], m[i], H)
  <2>1. CASE hunks[i].op = "remove" /\ i < Len(hunks) /\ hunks[i+1].op = "add"
    <3>1. m[i] = [hunks[i] EXCEPT !.parts = markPair(hunks[i].words, hunks[i+1].words)[1]]
      BY <1>1, <2>1 DEF MarkWords
    <3> DEFINE x == hunks[i]
               y == hunks[i+1]
    <3>2. x \in H /\ y \in H
      BY <1>1, <2>1
    <3> HIDE DEF x, y
    <3>3. SameBut(x, [x EXCEPT !.parts = markPair(x.words, y.words)[1]], H)
      BY <3>2, MarkedPair
    <3> QED
      BY <3>1, <3>3 DEF x, y
  <2>2. CASE ~(hunks[i].op = "remove" /\ i < Len(hunks) /\ hunks[i+1].op = "add")
             /\ hunks[i].op = "add" /\ i > 1 /\ hunks[i-1].op = "remove"
    <3>1. m[i] = [hunks[i] EXCEPT !.parts = markPair(hunks[i-1].words, hunks[i].words)[2]]
      BY <1>1, <2>2 DEF MarkWords
    <3> DEFINE x == hunks[i-1]
               y == hunks[i]
    <3>2. x \in H /\ y \in H
      BY <1>1, <2>2
    <3> HIDE DEF x, y
    <3>3. SameBut(y, [y EXCEPT !.parts = markPair(x.words, y.words)[2]], H)
      BY <3>2, MarkedPair
    <3> QED
      BY <3>1, <3>3 DEF x, y
  <2>3. CASE ~(hunks[i].op = "remove" /\ i < Len(hunks) /\ hunks[i+1].op = "add")
             /\ ~(hunks[i].op = "add" /\ i > 1 /\ hunks[i-1].op = "remove")
    <3>1. m[i] = hunks[i]
      BY <1>1, <2>3 DEF MarkWords
    <3> QED
      BY <1>1, <3>1 DEF SameBut
  <2> QED
    BY <2>1, <2>2, <2>3
<1>4. m \in Seq(H)
  <2>1. m = [i \in 1..Len(hunks) |-> m[i]]
    BY <1>1 DEF MarkWords
  <2> HIDE DEF m, H
  <2>2. \A i \in 1..Len(hunks) : m[i] \in H
    BY <1>3 DEF SameBut
  <2>3. [i \in 1..Len(hunks) |-> m[i]] \in Seq(H)
    BY <1>1, <2>2, IsASeq
  <2> QED
    BY <2>1, <2>3
<1>5. ASSUME NEW other PROVE Side(m, other) = Side(hunks, other)
  <2> HIDE DEF m
  <2>1. [i \in DOMAIN m |-> IF m[i].op = other THEN <<>> ELSE m[i].words]
        = [i \in DOMAIN hunks |-> IF hunks[i].op = other THEN <<>> ELSE hunks[i].words]
    BY <1>1, <1>2, <1>3 DEF SameBut
  <2> QED
    BY <2>1 DEF Side
<1> QED
  BY <1>4, <1>5

\* The hunks that render to something.
Visible(V) == [h \in HunksOf(V) |-> IF h.words = <<>> THEN <<>> ELSE <<h>>]

LEMMA VisibleMapped ==
  ASSUME NEW V
  PROVE  /\ Visible(V) \in [HunksOf(V) -> Seq(HunksOf(V))]
         /\ \A m \in Seq(HunksOf(V)) :
               FlattenSeq([i \in DOMAIN m |-> IF m[i].words = <<>> THEN <<>> ELSE <<m[i]>>]) = Mapped(m, Visible(V))
<1>1. Visible(V) \in [HunksOf(V) -> Seq(HunksOf(V))]
  BY DEF Visible
<1>2. ASSUME NEW m \in Seq(HunksOf(V))
      PROVE  FlattenSeq([i \in DOMAIN m |-> IF m[i].words = <<>> THEN <<>> ELSE <<m[i]>>]) = Mapped(m, Visible(V))
  <2>1. DOMAIN m = 1..Len(m)
    OBVIOUS
  <2>2. ASSUME NEW i \in DOMAIN m PROVE m[i] \in HunksOf(V)
    BY <2>1, ElementOfSeq
  <2>3. [i \in DOMAIN m |-> IF m[i].words = <<>> THEN <<>> ELSE <<m[i]>>] = [i \in DOMAIN m |-> Visible(V)[m[i]]]
    BY <2>2 DEF Visible
  <2> QED
    BY <2>3 DEF Mapped, EachBy
<1> QED
  BY <1>1, <1>2

\* A hunk with no words says nothing of either side.
LEMMA VisibleSide ==
  ASSUME NEW V, NEW other
  PROVE  \A m \in Seq(HunksOf(V)) : Side(Mapped(m, Visible(V)), other) = Side(m, other)
<1> DEFINE H == HunksOf(V)
           g == Visible(V)
           k == SideOf(V, other)
           S == {m \in Seq(H) : Mapped(Mapped(m, g), k) = Mapped(m, k)}
<1>0. g \in [H -> Seq(H)]
  BY VisibleMapped
<1>1. k \in [H -> Seq(V)]
  BY SideMapped
<1>2. \A h \in H : (h.words = <<>> => g[h] = <<>> /\ k[h] = <<>>) /\ (h.words # <<>> => g[h] = <<h>>)
  BY DEF Visible, SideOf
<1>3. \A m \in Seq(H) : Side(m, other) = Mapped(m, k)
  BY SideMapped
<1> HIDE DEF H, g, k
<1>4. <<>> \in S
  BY MapEmpty, EmptySeq
<1>5. ASSUME NEW m \in Seq(H), NEW h \in H, m \in S PROVE Append(m, h) \in S
  <2>1. Append(m, h) \in Seq(H)
    OBVIOUS
  <2>2. Mapped(m, g) \in Seq(H)
    BY <1>0, MapTyped
  <2>3. Mapped(m, k) \in Seq(V)
    BY <1>1, MapTyped
  <2>4. Mapped(Append(m, h), g) = Mapped(m, g) \o g[h]
    BY <1>0, MapAppend
  <2>5. Mapped(Append(m, h), k) = Mapped(m, k) \o k[h]
    BY <1>1, MapAppend
  <2>6. CASE h.words = <<>>
    <3>1. Mapped(Append(m, h), g) = Mapped(m, g)
      BY <1>2, <2>2, <2>4, <2>6, ConcatEmptySeq
    <3>2. Mapped(Append(m, h), k) = Mapped(m, k)
      BY <1>2, <2>3, <2>5, <2>6, ConcatEmptySeq
    <3> QED
      BY <1>5, <2>1, <3>1, <3>2
  <2>7. CASE h.words # <<>>
    <3> DEFINE u == Mapped(m, g)
    <3>1. Mapped(Append(m, h), g) = Append(u, h)
      BY <1>2, <2>2, <2>4, <2>7, AppendIsConcat
    <3>2. Mapped(Append(u, h), k) = Mapped(u, k) \o k[h]
      <4>1. u \in Seq(H)
        BY <2>2
      <4> HIDE DEF u
      <4> QED
        BY <1>1, <4>1, MapAppend
    <3> QED
      BY <1>5, <2>1, <2>5, <3>1, <3>2
  <2> QED
    BY <2>6, <2>7
<1>6. \A m \in Seq(H) : m \in S
  <2> HIDE DEF S
  <2> QED
    BY <1>4, <1>5, Growing
<1>7. ASSUME NEW m \in Seq(H) PROVE Side(Mapped(m, g), other) = Side(m, other)
  <2>1. Mapped(m, g) \in Seq(H)
    BY <1>0, MapTyped
  <2> QED
    BY <1>3, <1>6, <2>1
<1> QED
  BY <1>7 DEF H, g

ABlock(V) == [words: Seq(V), last: BOOLEAN]

WordsOf(V) == [x \in ABlock(V) |-> x.words]

\* The passages of a text say the text.
LEMMA BlocksOfText ==
  ASSUME NEW V, NEW t \in Seq(Seq(V))
  PROVE  /\ splitBlocks(t) \in Seq(ABlock(V))
         /\ WordsOf(V) \in [ABlock(V) -> Seq(V)]
         /\ Mapped(splitBlocks(t), WordsOf(V)) = FlattenSeq(t)
<1>1. DOMAIN t = 1..Len(t) /\ Len(t) \in Nat /\ \A i \in 1..Len(t) : t[i] \in Seq(V)
  OBVIOUS
<1>2. \A i \in 1..Len(t) : [words |-> t[i], last |-> i = Len(t)] \in ABlock(V)
  BY <1>1 DEF ABlock
<1> DEFINE sb == splitBlocks(t)
<1>3. /\ sb = [i \in 1..Len(t) |-> sb[i]] /\ DOMAIN sb = 1..Len(t)
      /\ \A i \in 1..Len(t) : sb[i] \in ABlock(V) /\ sb[i].words = t[i]
  BY <1>1, <1>2 DEF splitBlocks
<1> HIDE DEF sb
<1>4. sb \in Seq(ABlock(V))
  BY <1>1, <1>3, IsASeq
<1>5. WordsOf(V) \in [ABlock(V) -> Seq(V)] /\ \A x \in ABlock(V) : WordsOf(V)[x] = x.words
  BY DEF WordsOf, ABlock
<1>6. EachBy(sb, WordsOf(V)) = t
  <2>1. \A i \in 1..Len(t) : WordsOf(V)[sb[i]] = t[i]
    BY <1>3, <1>5
  <2>2. t = [i \in 1..Len(t) |-> t[i]]
    BY <1>1
  <2>3. EachBy(sb, WordsOf(V)) = [i \in 1..Len(t) |-> t[i]]
    BY <1>3, <2>1 DEF EachBy
  <2> QED
    BY <2>2, <2>3
<1> QED
  BY <1>4, <1>5, <1>6 DEF Mapped, sb

\* The hunks of the steps from one text's passages to the other's.
LEMMA StepHunks ==
  ASSUME NEW V, NEW steps \in Seq(AStep(ABlock(V))), NEW before \in Seq(Seq(V)), NEW after \in Seq(Seq(V)),
         TextsOf(steps, {"equal", "remove"}) = splitBlocks(before),
         TextsOf(steps, {"equal", "add"}) = splitBlocks(after)
  PROVE  LET hunks == [i \in DOMAIN steps |-> Hunk(steps[i].op, steps[i].text.words)]
         IN /\ hunks \in Seq(HunksOf(V))
            /\ Side(hunks, "add") = FlattenSeq(before)
            /\ Side(hunks, "remove") = FlattenSeq(after)
<1> DEFINE B == ABlock(V)
           A == AStep(B)
           hunks == [i \in DOMAIN steps |-> Hunk(steps[i].op, steps[i].text.words)]
           ks(other) == [s \in A |-> IF s.op = other THEN <<>> ELSE s.text.words]
           w == WordsOf(V)
<1>1. DOMAIN steps = 1..Len(steps) /\ Len(steps) \in Nat /\ \A i \in 1..Len(steps) : steps[i] \in A
  <2>1. \A i \in 1..Len(steps) : steps[i] \in A
    BY ElementOfSeq
  <2> QED
    BY <2>1
<1>2. \A s \in A : s.op \in {"equal", "remove", "add"} /\ s.text \in B /\ s.text.words \in Seq(V)
  BY DEF AStep, ABlock
<1>3. hunks \in Seq(HunksOf(V))
  <2>1. ASSUME NEW i \in 1..Len(steps) PROVE Hunk(steps[i].op, steps[i].text.words) \in HunksOf(V)
    <3> DEFINE o == steps[i].op
               ws == steps[i].text.words
    <3>1. o \in {"equal", "remove", "add"} /\ ws \in Seq(V)
      BY <1>1, <1>2
    <3> HIDE DEF o, ws
    <3>2. Hunk(o, ws) \in HunksOf(V)
      BY <3>1, AHunk
    <3> QED
      BY <3>2 DEF o, ws
  <2> QED
    BY <1>1, <2>1, IsASeq
<1>4. ASSUME NEW other
      PROVE  Side(hunks, other) = Mapped(steps, ks(other)) /\ ks(other) \in [A -> Seq(V)]
  <2>1. [i \in DOMAIN hunks |-> IF hunks[i].op = other THEN <<>> ELSE hunks[i].words]
        = [i \in DOMAIN steps |-> ks(other)[steps[i]]]
    BY <1>1 DEF Hunk
  <2>2. ks(other) \in [A -> Seq(V)]
    BY <1>2
  <2> QED
    BY <2>1, <2>2 DEF Side, Mapped, EachBy
<1>5. w \in [B -> Seq(V)] /\ \A x \in B : w[x] = x.words
  BY BlocksOfText DEF WordsOf
<1>6. \A s \in A : ks("add")[s] = IF s.op \in {"equal", "remove"} THEN w[s.text] ELSE <<>>
  BY <1>2, <1>5
<1>7. \A s \in A : ks("remove")[s] = IF s.op \in {"equal", "add"} THEN w[s.text] ELSE <<>>
  BY <1>2, <1>5
<1>8. Mapped(steps, ks("add")) = Mapped(splitBlocks(before), w)
  <2> DEFINE k == ks("add")
             ops == {"equal", "remove"}
  <2>1. MakesOf(B, V, ops, k, w)
    BY <1>4, <1>5, <1>6 DEF MakesOf
  <2>2. TextsOf(steps, ops) = splitBlocks(before)
    OBVIOUS
  <2> HIDE DEF k, w, ops, B
  <2>3. \A st \in Seq(AStep(B)) : Mapped(st, k) = Mapped(TextsOf(st, ops), w)
    BY <2>1, Fusion
  <2>4. steps \in Seq(AStep(B))
    BY DEF B
  <2> QED
    BY <2>2, <2>3, <2>4 DEF k
<1>9. Mapped(steps, ks("remove")) = Mapped(splitBlocks(after), w)
  <2> DEFINE k == ks("remove")
             ops == {"equal", "add"}
  <2>1. MakesOf(B, V, ops, k, w)
    BY <1>4, <1>5, <1>7 DEF MakesOf
  <2>2. TextsOf(steps, ops) = splitBlocks(after)
    OBVIOUS
  <2> HIDE DEF k, w, ops, B
  <2>3. \A st \in Seq(AStep(B)) : Mapped(st, k) = Mapped(TextsOf(st, ops), w)
    BY <2>1, Fusion
  <2>4. steps \in Seq(AStep(B))
    BY DEF B
  <2> QED
    BY <2>2, <2>3, <2>4 DEF k
<1> HIDE DEF ks
<1> QED
  BY <1>3, <1>4, <1>8, <1>9, BlocksOfText

\* What one hunk says.
LEMMA SideOne ==
  ASSUME NEW V, NEW h \in HunksOf(V), NEW other
  PROVE  /\ <<h>> \in Seq(HunksOf(V)) /\ Side(<<>>, other) = <<>>
         /\ Side(<<h>>, other) = IF h.op = other THEN <<>> ELSE h.words
<1> DEFINE H == HunksOf(V)
           g == SideOf(V, other)
<1>1. g \in [H -> Seq(V)] /\ \A m \in Seq(H) : Side(m, other) = Mapped(m, g)
  BY SideMapped
<1>2. g[h] = (IF h.op = other THEN <<>> ELSE h.words) /\ g[h] \in Seq(V)
  BY <1>1 DEF SideOf
<1> HIDE DEF g, H
<1>3. <<h>> = Append(<<>>, h) /\ <<>> \in Seq(H) /\ <<h>> \in Seq(H) /\ h \in H
  BY DEF H
<1>4. Mapped(Append(<<>>, h), g) = Mapped(<<>>, g) \o g[h]
  <2> DEFINE z == <<>>
  <2>1. z \in Seq(H)
    BY <1>3
  <2> HIDE DEF z
  <2>2. Mapped(Append(z, h), g) = Mapped(z, g) \o g[h]
    BY <1>1, <1>3, <2>1, MapAppend
  <2> QED
    BY <2>2 DEF z
<1>5. Mapped(<<>>, g) = <<>> /\ <<>> \o g[h] = g[h]
  BY <1>2, MapEmpty, ConcatEmptySeq
<1> QED
  BY <1>1, <1>2, <1>3, <1>4, <1>5 DEF H

\* What one more hunk adds.
LEMMA SideAppend ==
  ASSUME NEW V, NEW s \in Seq(HunksOf(V)), NEW k \in HunksOf(V), NEW other
  PROVE  /\ Append(s, k) \in Seq(HunksOf(V))
         /\ k.op = other => Side(Append(s, k), other) = Side(s, other)
         /\ k.op # other => Side(Append(s, k), other) = Side(s, other) \o k.words
<1> DEFINE H == HunksOf(V)
           g == SideOf(V, other)
<1>1. g \in [H -> Seq(V)] /\ \A m \in Seq(H) : Side(m, other) = Mapped(m, g)
  BY SideMapped
<1>2. g[k] = IF k.op = other THEN <<>> ELSE k.words
  BY DEF SideOf
<1>3. Append(s, k) \in Seq(H) /\ s \in Seq(H) /\ k \in H
  OBVIOUS
<1> HIDE DEF g, H
<1>4. Mapped(Append(s, k), g) = Mapped(s, g) \o g[k]
  BY <1>1, <1>3, MapAppend
<1>5. Mapped(s, g) \in Seq(V)
  BY <1>1, <1>3, MapTyped
<1> QED
  BY <1>1, <1>2, <1>3, <1>4, <1>5, ConcatEmptySeq DEF H

\* What both sides of hunks say.
Says(V, hunks, before, after) ==
    hunks \in Seq(HunksOf(V)) /\ Side(hunks, "add") = before /\ Side(hunks, "remove") = after

\* The hunks of two texts say both, compared, coarse or equal (textdiff.go).
LEMMA BlocksSay ==
  ASSUME NEW V, NEW before \in Seq(Seq(V)), NEW after \in Seq(Seq(V))
  PROVE  Says(V, Blocks(before, after), FlattenSeq(before), FlattenSeq(after))
<1> DEFINE f == FlattenSeq(before)
           t == FlattenSeq(after)
           r == Hunk("remove", f)
           d == Hunk("add", t)
           e == Hunk("equal", f)
<1>1. f \in Seq(V) /\ t \in Seq(V) /\ f \o <<>> = f /\ <<>> \o t = t
  <2>1. f \in Seq(V) /\ t \in Seq(V)
    BY FlattenTyped
  <2> HIDE DEF f, t
  <2> QED
    BY <2>1, ConcatEmptySeq
<1>2. /\ r \in HunksOf(V) /\ r.op = "remove" /\ r.words = f
      /\ d \in HunksOf(V) /\ d.op = "add" /\ d.words = t
      /\ e \in HunksOf(V) /\ e.op = "equal" /\ e.words = f
  <2> HIDE DEF f, t
  <2> QED
    BY <1>1, AHunk
<1>3. (before = <<>> => f = <<>>) /\ (after = <<>> => t = <<>>)
  BY FlattenEmpty
<1> HIDE DEF r, d, e, f, t
<1>4. Says(V, <<>>, <<>>, <<>>)
  <2>1. <<>> \in Seq(HunksOf(V))
    OBVIOUS
  <2> QED
    BY <1>2, <2>1, SideOne DEF Says
<1>5. Says(V, <<r>>, f, <<>>) /\ Says(V, <<d>>, <<>>, t) /\ Says(V, <<e>>, f, f)
  BY <1>2, SideOne DEF Says
<1>6. Says(V, <<r>> \o <<d>>, f, t)
  <2> DEFINE s == <<r>>
  <2>1. <<r>> \o <<d>> = Append(s, d)
    BY <1>2
  <2>2. s \in Seq(HunksOf(V)) /\ Side(s, "add") = f /\ Side(s, "remove") = <<>>
    BY <1>5 DEF Says
  <2> HIDE DEF s
  <2>3. Append(s, d) \in Seq(HunksOf(V)) /\ Side(Append(s, d), "add") = f
        /\ Side(Append(s, d), "remove") = <<>> \o t
    <3>1. Append(s, d) \in Seq(HunksOf(V))
      BY <1>2, <2>2
    <3>2. Side(Append(s, d), "add") = Side(s, "add")
      BY <1>2, <2>2, SideAppend
    <3>3. Side(Append(s, d), "remove") = Side(s, "remove") \o d.words
      <4>1. d.op # "remove"
        BY <1>2
      <4> QED
        BY <1>2, <2>2, <4>1, SideAppend
    <3> QED
      BY <1>2, <2>2, <3>1, <3>2, <3>3
  <2> QED
    BY <1>1, <2>1, <2>3 DEF Says
<1>7. CASE before = after
  BY <1>3, <1>4, <1>5, <1>7 DEF Blocks, f, t, e
<1>8. CASE before # after /\ (Len(before) > MaxBlocks \/ Len(after) > MaxBlocks)
  <2>1. Blocks(before, after) = (IF before = <<>> THEN <<>> ELSE <<r>>) \o (IF after = <<>> THEN <<>> ELSE <<d>>)
    BY <1>8 DEF Blocks, coarse, r, d, f, t
  <2>2. <<r>> \o <<>> = <<r>> /\ <<>> \o <<d>> = <<d>>
    OBVIOUS
  <2>3. CASE before # <<>> /\ after # <<>>
    BY <1>6, <2>1, <2>3 DEF f, t
  <2>4. CASE before # <<>> /\ after = <<>>
    BY <1>3, <1>5, <2>1, <2>2, <2>4 DEF f, t
  <2>5. CASE before = <<>> /\ after # <<>>
    BY <1>3, <1>5, <2>1, <2>2, <2>5 DEF f, t
  <2> QED
    BY <1>8, <2>3, <2>4, <2>5
<1>9. CASE before # after /\ ~(Len(before) > MaxBlocks \/ Len(after) > MaxBlocks)
  <2> DEFINE a == splitBlocks(before)
             b == splitBlocks(after)
             st == script(a, b)
             B == ABlock(V)
  <2>1. a \in Seq(B) /\ b \in Seq(B)
    BY BlocksOfText
  <2>2. \E R : st = Walk(a, b, R)
    BY DEF script
  <2>3. st \in Seq(AStep(B)) /\ TextsOf(st, {"equal", "remove"}) = a /\ TextsOf(st, {"equal", "add"}) = b
    <3> HIDE DEF st, a, b, B
    <3> QED
      BY <2>1, <2>2, WalkReads
  <2>4. Blocks(before, after) = [i \in DOMAIN st |-> Hunk(st[i].op, st[i].text.words)]
    BY <1>9 DEF Blocks
  <2> HIDE DEF st
  <2> QED
    BY <2>3, <2>4, StepHunks DEF Says, f, t
<1> QED
  BY <1>7, <1>8, <1>9 DEF f, t

\* The panel of two texts says both.
LEMMA PassagesSay ==
  ASSUME NEW V, NEW before \in Seq(Seq(V)), NEW after \in Seq(Seq(V))
  PROVE  Says(V, Passages(before, after).hunks, FlattenSeq(before), FlattenSeq(after))
<1> DEFINE hs == Blocks(before, after)
           m == MarkWords(hs)
           H == HunksOf(V)
           p == Mapped(m, Visible(V))
<1>1. hs \in Seq(H) /\ Side(hs, "add") = FlattenSeq(before) /\ Side(hs, "remove") = FlattenSeq(after)
  BY BlocksSay DEF Says
<1> HIDE DEF hs
<1>2. m \in Seq(H) /\ \A other : Side(m, other) = Side(hs, other)
  BY <1>1, MarkedHunks
<1> HIDE DEF m
<1>3. Passages(before, after).hunks = p
  BY <1>2, VisibleMapped DEF Passages, Rendered, m, hs
<1>4. p \in Seq(H)
  <2> DEFINE g == Visible(V)
  <2>1. g \in [H -> Seq(H)]
    BY VisibleMapped
  <2> HIDE DEF H, g
  <2>2. Mapped(m, g) \in Seq(H)
    BY <1>2, <2>1, MapTyped
  <2> QED
    BY <2>2 DEF g
<1>5. Side(p, "add") = Side(m, "add") /\ Side(p, "remove") = Side(m, "remove")
  BY <1>2, VisibleSide
<1> QED
  BY <1>1, <1>2, <1>3, <1>4, <1>5 DEF Says

\* With no change counted, both say the same.
LEMMA NoChange ==
  ASSUME NEW V, NEW before \in Seq(Seq(V)), NEW after \in Seq(Seq(V)), Passages(before, after).changed = 0
  PROVE  FlattenSeq(before) = FlattenSeq(after)
<1> DEFINE hunks == Passages(before, after).hunks
           differs == {i \in DOMAIN hunks :
                         \/ hunks[i].op = "remove"
                         \/ hunks[i].op = "add" /\ (i = 1 \/ hunks[i-1].op # "remove")}
<1>1. hunks \in Seq(HunksOf(V)) /\ Side(hunks, "add") = FlattenSeq(before) /\ Side(hunks, "remove") = FlattenSeq(after)
  BY PassagesSay DEF Says
<1>2. Cardinality(differs) = 0
  BY DEF Passages
<1> HIDE DEF hunks
<1>3. DOMAIN hunks = 1..Len(hunks) /\ Len(hunks) \in Nat
  BY <1>1
<1>4. differs = {}
  <2>1. IsFiniteSet(1..Len(hunks))
    BY <1>3, FS_Interval
  <2>2. IsFiniteSet(differs)
    BY <1>3, <2>1, FS_Subset
  <2> QED
    BY <1>2, <2>2, FS_EmptySet
<1>5. ASSUME NEW i \in 1..Len(hunks) PROVE hunks[i].op # "add" /\ hunks[i].op # "remove"
  <2>1. \A j \in 1..Len(hunks) : hunks[j].op # "remove"
    BY <1>3, <1>4
  <2>2. CASE i = 1
    BY <1>3, <1>4, <2>1, <2>2
  <2>3. CASE i # 1
    <3>1. i - 1 \in 1..Len(hunks)
      BY <1>3, <2>3
    <3> QED
      BY <1>3, <1>4, <2>1, <3>1
  <2> QED
    BY <2>2, <2>3
<1>6. [i \in DOMAIN hunks |-> IF hunks[i].op = "add" THEN <<>> ELSE hunks[i].words]
      = [i \in DOMAIN hunks |-> IF hunks[i].op = "remove" THEN <<>> ELSE hunks[i].words]
  BY <1>3, <1>5
<1> QED
  BY <1>1, <1>6 DEF Side

-----------------------------------------------------------------------------
(* The panel. *)

\* The panel of two texts, read back.
LEMMA PassagesReadBack ==
  ASSUME NEW V, NEW before \in Seq(Seq(V)), NEW after \in Seq(Seq(V))
  PROVE  /\ Side(Passages(before, after).hunks, "add") = FlattenSeq(before)
         /\ Side(Passages(before, after).hunks, "remove") = FlattenSeq(after)
         /\ \A h \in ToSet(Passages(before, after).hunks) : Marked(h)
<1> DEFINE hs == Passages(before, after).hunks
<1>1. Says(V, hs, FlattenSeq(before), FlattenSeq(after))
  BY PassagesSay DEF hs
<1> HIDE DEF hs
<1>2. hs \in Seq(HunksOf(V))
  BY <1>1 DEF Says
<1>3. ASSUME NEW h \in ToSet(hs) PROVE Marked(h)
  <2>1. PICK i \in 1..Len(hs) : h = hs[i]
    BY <1>2 DEF ToSet
  <2>2. h \in HunksOf(V)
    BY <1>2, <2>1, ElementOfSeq
  <2> QED
    BY <2>2 DEF HunksOf
<1>4. Side(hs, "add") = FlattenSeq(before) /\ Side(hs, "remove") = FlattenSeq(after)
  BY <1>1 DEF Says
<1> QED
  BY <1>3, <1>4 DEF hs

\* What is compared are texts.
LEMMA TextsAreTexts ==
  RecoveryTyped => /\ approval.hash.body \in Seq(Seq(Vocabulary)) /\ approval.hash.field \in Seq(Seq(Vocabulary))
                   /\ edited.content.body \in Seq(Seq(Vocabulary)) /\ edited.content.field \in Seq(Seq(Vocabulary))
<1> SUFFICES ASSUME RecoveryTyped
             PROVE  /\ approval.hash.body \in Seq(Seq(Vocabulary)) /\ approval.hash.field \in Seq(Seq(Vocabulary))
                    /\ edited.content.body \in Seq(Seq(Vocabulary)) /\ edited.content.field \in Seq(Seq(Vocabulary))
  OBVIOUS
<1>1. /\ approval.hash.body \in Bodies /\ approval.hash.field \in Fields
      /\ edited.content.body \in Bodies /\ edited.content.field \in Fields
  BY DEF RecoveryTyped
<1> QED
  BY <1>1, RecoveryAssumption

\* So the panel is true.
LEMMA PanelReadsBack == RecoveryTyped /\ KeptIsSigned => PanelTrue
<1> SUFFICES ASSUME RecoveryTyped, KeptIsSigned, Compute.shown, Compute.retained
             PROVE  /\ ReadsBack(Compute, approval.hash, edited.content)
                    /\ LeastChanges(approval.hash.body, edited.content.body)
  BY DEF PanelTrue
<1> DEFINE T == Seq(Seq(Vocabulary))
           before == approval.hash
           after == edited.content
<1>1. before.body \in T /\ before.field \in T /\ after.body \in T /\ after.field \in T
  BY TextsAreTexts
<1>2. /\ approval.kept # NoContent
      /\ Compute = [shown |-> TRUE, retained |-> TRUE, fields |-> fieldChanges,
                    body |-> Passages(approval.kept.body, edited.content.body)]
  BY DEF Compute
<1>3. approval.kept = before
  BY <1>2 DEF KeptIsSigned
<1>4. Compute.fields = fieldChanges /\ Compute.body = Passages(before.body, after.body)
  BY <1>2, <1>3
<1>5. /\ Side(Compute.body.hunks, "add") = FlattenSeq(before.body)
      /\ Side(Compute.body.hunks, "remove") = FlattenSeq(after.body)
      /\ \A h \in ToSet(Compute.body.hunks) : Marked(h)
  BY <1>1, <1>4, PassagesReadBack
<1>6. Compute.body.changed = 0 => FlattenSeq(before.body) = FlattenSeq(after.body)
  BY <1>1, <1>4, NoChange
<1>7. LeastChanges(before.body, after.body)
  <2>1. splitBlocks(before.body) \in Seq(ABlock(Vocabulary)) /\ splitBlocks(after.body) \in Seq(ABlock(Vocabulary))
    BY <1>1, BlocksOfText
  <2>2. Faithful(script(splitBlocks(before.body), splitBlocks(after.body)),
                 splitBlocks(before.body), splitBlocks(after.body))
    BY <2>1, DiffsFaithful
  <2>3. Faithful(wordingDiff(before.body, after.body), before.body, after.body)
    BY <1>1, DiffsFaithful
  <2> QED
    BY <2>2, <2>3 DEF LeastChanges
<1>8. ASSUME NEW name \in DOMAIN fieldChanges, ~fieldChanges[name].truncated
      PROVE  /\ Side(fieldChanges[name].hunks, "add") = FlattenSeq(before[name])
             /\ Side(fieldChanges[name].hunks, "remove") = FlattenSeq(after[name])
  <2>1. name = "field" /\ name \in OtherFields
    BY DEF fieldChanges, OtherFields
  <2>2. ~(before[name] \in TooLong \/ after[name] \in TooLong)
    BY <1>3, <1>8, <2>1 DEF fieldChanges
  <2>3. fieldChanges[name].hunks = Passages(before.field, after.field).hunks
    BY <1>3, <2>1, <2>2 DEF fieldChanges
  <2> QED
    BY <1>1, <2>1, <2>3, PassagesReadBack
<1> QED
  BY <1>4, <1>5, <1>6, <1>7, <1>8 DEF ReadsBack

-----------------------------------------------------------------------------
(* Recovery, for any texts and revisions. *)

RecoveryNext == RecoveryEdit \/ RecoveryStep

RecoverySpec == RecoveryInit /\ [][RecoveryNext]_recoveryVars

\* What an apply keeps has the record's hash, which is looked at under the sentinel.
LEMMA KeptStaysSigned == ApprovalTyped /\ KeptIsSigned /\ [RecoveryNext]_recoveryVars => (ApprovalTyped /\ KeptIsSigned)'
<1> SUFFICES ASSUME ApprovalTyped, KeptIsSigned, [RecoveryNext]_recoveryVars
             PROVE  ApprovalTyped' /\ KeptIsSigned'
  OBVIOUS
<1> USE DEF ApprovalTyped, KeptIsSigned
<1>1. UNCHANGED approval => ApprovalTyped' /\ KeptIsSigned'
  OBVIOUS
<1>2. EditClaimContent \/ CommitFile \/ RecoverSearch \/ RecoverAcquire => UNCHANGED approval
  BY DEF EditClaimContent, CommitFile, RecoverSearch, RecoverAcquire
<1>3. ASSUME UnlockEdited PROVE ApprovalTyped' /\ KeptIsSigned'
  <2>1. approval' = [hash |-> approval.hash, released |-> TRUE, kept |-> approval.kept]
    BY <1>3 DEF UnlockEdited
  <2> QED
    BY <2>1
<1>4. LockEdited => ApprovalTyped' /\ KeptIsSigned'
  BY DEF LockEdited
<1>5. ASSUME RecoverApply PROVE ApprovalTyped' /\ KeptIsSigned'
  <2>1. CASE approval.kept # NoContent \/ approval.hash # recovery.found
    BY <1>1, <1>5, <2>1 DEF RecoverApply, RetainApprovedContent
  <2>2. CASE approval.kept = NoContent /\ approval.hash = recovery.found
    <3>1. approval' = [hash |-> approval.hash, released |-> approval.released, kept |-> approval.hash]
      BY <1>5, <2>2 DEF RecoverApply, RetainApprovedContent
    <3> QED
      BY <3>1
  <2> QED
    BY <2>1, <2>2
<1>6. UNCHANGED recoveryVars => UNCHANGED approval
  BY DEF recoveryVars
<1> QED
  BY <1>1, <1>2, <1>3, <1>4, <1>5, <1>6 DEF RecoveryNext, RecoveryEdit, RecoveryStep

\* The wording a record keeps is the wording its approval signed, whoever unlocks or
\* approves the claim between a recovery's search and its write (recover.go).
THEOREM KeptWasSigned == RecoverySpec => []KeptIsSigned
<1>1. RecoveryInit => ApprovalTyped /\ KeptIsSigned
  BY DEF RecoveryInit, ApprovalTyped, KeptIsSigned
<1>2. RecoverySpec => [](ApprovalTyped /\ KeptIsSigned)
  BY <1>1, KeptStaysSigned, PTL DEF RecoverySpec
<1> QED
  BY <1>2, PTL

LEMMA InitRecoveryTyped == RecoveryInit => RecoveryTyped
<1> SUFFICES ASSUME RecoveryInit PROVE RecoveryTyped
  OBVIOUS
<1>1. PICK c \in Drafted : /\ edited = [status |-> "locked", content |-> c]
                           /\ approval = [hash |-> c, released |-> FALSE, kept |-> NoContent]
  BY DEF RecoveryInit
<1>2. c \in [body: Bodies, field: Fields]
  BY RecoveryAssumption DEF Drafted
<1> QED
  BY <1>1, <1>2 DEF RecoveryTyped, ApprovalTyped

\* What is edited stays a text, and what was approved one that was edited.
LEMMA RecoveryTypedStep == RecoveryTyped /\ [RecoveryNext]_recoveryVars => RecoveryTyped'
<1> SUFFICES ASSUME RecoveryTyped, [RecoveryNext]_recoveryVars PROVE RecoveryTyped'
  OBVIOUS
<1> DEFINE C == [body: Bodies, field: Fields]
<1>1. /\ edited \in [status: {"draft", "locked"}, content: C] /\ approval.hash \in C
      /\ approval = [hash |-> approval.hash, released |-> approval.released, kept |-> approval.kept]
  BY DEF RecoveryTyped, ApprovalTyped
<1>2. ASSUME EditClaimContent PROVE RecoveryTyped'
  <2>1. edited' \in [status: {"draft", "locked"}, content: C]
    <3>1. ASSUME NEW t \in Bodies, edited' = [edited EXCEPT !.content.body = t]
          PROVE  edited' \in [status: {"draft", "locked"}, content: C]
      BY <1>1, <3>1
    <3>2. ASSUME NEW t \in Fields, edited' = [edited EXCEPT !.content.field = t]
          PROVE  edited' \in [status: {"draft", "locked"}, content: C]
      BY <1>1, <3>2
    <3> QED
      BY <1>2, <3>1, <3>2 DEF EditClaimContent
  <2> QED
    BY <1>1, <1>2, <2>1 DEF EditClaimContent, RecoveryTyped, ApprovalTyped
<1>3. CASE UNCHANGED <<edited, approval>>
  BY <1>1, <1>3 DEF RecoveryTyped, ApprovalTyped
<1>4. CASE UnlockEdited
  <2>1. /\ edited' \in [status: {"draft", "locked"}, content: C]
        /\ approval' = [hash |-> approval.hash, released |-> TRUE, kept |-> approval.kept]
    BY <1>1, <1>4 DEF UnlockEdited
  <2> QED
    BY <1>1, <2>1 DEF RecoveryTyped, ApprovalTyped
<1>5. CASE LockEdited
  <2>1. PICK kept : approval' = [hash |-> edited.content, released |-> FALSE, kept |-> kept]
    BY <1>5 DEF LockEdited
  <2>2. edited' \in [status: {"draft", "locked"}, content: C] /\ edited.content \in C
    BY <1>1, <1>5 DEF LockEdited
  <2> QED
    BY <2>1, <2>2 DEF RecoveryTyped, ApprovalTyped
<1>6. CASE RecoverApply
  <2>1. UNCHANGED edited /\ (UNCHANGED approval \/ approval' = [approval EXCEPT !.kept = recovery.found])
    BY <1>6 DEF RecoverApply, RetainApprovedContent
  <2>2. CASE UNCHANGED approval
    BY <1>3, <2>1, <2>2
  <2>3. CASE approval' = [approval EXCEPT !.kept = recovery.found]
    <3>1. approval' = [hash |-> approval.hash, released |-> approval.released, kept |-> recovery.found]
      BY <1>1, <2>3
    <3> QED
      BY <1>1, <2>1, <3>1 DEF RecoveryTyped, ApprovalTyped
  <2> QED
    BY <2>1, <2>2, <2>3
<1>7. CommitFile \/ RecoverSearch \/ RecoverAcquire \/ UNCHANGED recoveryVars => UNCHANGED <<edited, approval>>
  BY DEF CommitFile, RecoverSearch, RecoverAcquire, recoveryVars
<1> QED
  BY <1>2, <1>3, <1>4, <1>5, <1>6, <1>7 DEF RecoveryNext, RecoveryEdit, RecoveryStep

\* Whatever is edited, committed, unlocked, approved or recovered, the panel shown of
\* a claim reads back to the words approved and the words now there, on both sides and
\* in every field, and no diff would keep more (approvaledit.go, textdiff.go).
THEOREM PanelIsTrue == RecoverySpec => []PanelTrue
<1>1. RecoverySpec => []RecoveryTyped
  BY InitRecoveryTyped, RecoveryTypedStep, PTL DEF RecoverySpec
<1> QED
  BY <1>1, KeptWasSigned, PanelReadsBack, PTL

=============================================================================
