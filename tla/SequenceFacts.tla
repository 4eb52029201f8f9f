--------------------------- MODULE SequenceFacts ---------------------------
(***************************************************************************)
(* What the proofs about the components need of sequences: induction over  *)
(* the naturals in terms of sets, and FlattenSeq of the community modules, *)
(* a recursive function in a LET, by its two equations.                    *)
(***************************************************************************)
EXTENDS Integers, Sequences, SequencesExt, SequenceTheorems, WellFoundedInduction, TLAPS

\* A set of naturals that is not empty has a least element.
LEMMA HasLeast ==
  ASSUME NEW T \in SUBSET Nat, T # {}
  PROVE  \E x \in T : \A y \in T : x <= y
<1>1. PICK x \in T : \A y \in T : ~(<<y, x>> \in OpToRel(<, Nat))
  BY NatLessThanWellFounded, WFMin
<1>2. \A y \in T : ~(y < x)
  BY <1>1 DEF OpToRel
<1>3. QED
  BY <1>2

\* Induction: a set with 0 in it, and with every number the next, has every natural number.
LEMMA SetInduction ==
  ASSUME NEW S, 0 \in S, \A n \in Nat : n \in S => n + 1 \in S
  PROVE  \A n \in Nat : n \in S
<1> DEFINE T == {n \in Nat : n \notin S}
<1>1. SUFFICES ASSUME T # {} PROVE FALSE
  OBVIOUS
<1>2. PICK x \in T : \A y \in T : x <= y
  <2>1. T \in SUBSET Nat
    OBVIOUS
  <2> HIDE DEF T
  <2>2. QED
    BY <1>1, <2>1, HasLeast
<1>3. x # 0
  OBVIOUS
<1>4. x - 1 \in Nat /\ x - 1 \notin T
  BY <1>2, <1>3
<1>5. QED
  BY <1>2, <1>4

---------------------------------------------------------------------------
(* FlattenSeq. *)

\* f flattens the first n sequences of s.
Flattens(s, n, f) == f = [i \in 1..n |-> IF i = 1 THEN s[i] ELSE f[i - 1] \o s[i]]

LEMMA FlattensAt ==
  ASSUME NEW s, NEW n \in Nat, NEW f, Flattens(s, n, f), NEW i \in 1..n
  PROVE  f[i] = IF i = 1 THEN s[i] ELSE f[i - 1] \o s[i]
<1> DEFINE G == [j \in 1..n |-> IF j = 1 THEN s[j] ELSE f[j - 1] \o s[j]]
<1>1. f = G
  BY DEF Flattens
<1>2. G[i] = IF i = 1 THEN s[i] ELSE f[i - 1] \o s[i]
  OBVIOUS
<1> HIDE DEF G
<1>3. f[i] = G[i]
  BY <1>1
<1>4. QED
  BY <1>2, <1>3

LEMMA FlattensNext ==
  ASSUME NEW s, NEW n \in Nat, NEW f, Flattens(s, n, f)
  PROVE  Flattens(s, n + 1,
           [i \in 1..(n + 1) |-> IF i <= n THEN f[i] ELSE IF i = 1 THEN s[i] ELSE f[n] \o s[i]])
<1> DEFINE g == [i \in 1..(n + 1) |->
                   IF i <= n THEN f[i] ELSE IF i = 1 THEN s[i] ELSE f[n] \o s[i]]
<1>1. ASSUME NEW i \in 1..(n + 1)
      PROVE  g[i] = IF i = 1 THEN s[i] ELSE g[i - 1] \o s[i]
  <2>1. CASE i <= n
    <3>1. g[i] = f[i]
      BY <2>1
    <3>2. i \in 1..n
      BY <2>1
    <3>3. f[i] = IF i = 1 THEN s[i] ELSE f[i - 1] \o s[i]
      BY ONLY <3>2, n \in Nat, Flattens(s, n, f), FlattensAt
    <3>4. i # 1 => g[i - 1] = f[i - 1]
      BY <2>1
    <3>5. QED
      BY <3>1, <3>3, <3>4
  <2>2. CASE i = n + 1
    <3>1. g[i] = IF i = 1 THEN s[i] ELSE f[n] \o s[i]
      BY <2>2
    <3>2. i # 1 => g[i - 1] = f[n]
      BY <2>2
    <3>3. QED
      BY <3>1, <3>2
  <2>3. QED
    BY <2>1, <2>2
<1>2. g = [i \in 1..(n + 1) |-> IF i = 1 THEN s[i] ELSE g[i - 1] \o s[i]]
  BY <1>1
<1>3. QED
  BY <1>2 DEF Flattens

LEMMA FlattensExists ==
  ASSUME NEW s, NEW n \in Nat
  PROVE  \E f : Flattens(s, n, f)
<1> DEFINE S == {k \in Nat : \E f : Flattens(s, k, f)}
<1>1. 0 \in S
  <2>1. Flattens(s, 0, [i \in 1..0 |-> s])
    BY DEF Flattens
  <2>2. QED
    BY <2>1
<1>2. ASSUME NEW k \in Nat, k \in S
      PROVE  k + 1 \in S
  <2>1. PICK f : Flattens(s, k, f)
    BY <1>2
  <2>2. \E g : Flattens(s, k + 1, g)
    BY <2>1, FlattensNext
  <2>3. QED
    BY <2>2
<1> HIDE DEF S
<1>3. n \in S
  BY <1>1, <1>2, SetInduction
<1>4. QED
  BY <1>3 DEF S

\* It is unique, and what it gives for the first sequences does not depend on the others.
AgreeUpTo(m, s, t) == \A i \in 1..m : s[i] = t[i]

LEMMA FlattensAgree ==
  ASSUME NEW s, NEW t, NEW m \in Nat, NEW n \in Nat, NEW f, NEW g, m <= n,
         Flattens(s, m, f), Flattens(t, n, g), AgreeUpTo(m, s, t)
  PROVE  AgreeUpTo(m, f, g)
<1> DEFINE S == {k \in Nat : k \in 1..m => f[k] = g[k]}
<1>1. 0 \in S
  OBVIOUS
<1>2. ASSUME NEW k \in Nat, k \in S
      PROVE  k + 1 \in S
  <2>1. SUFFICES ASSUME k + 1 \in 1..m
                 PROVE  f[k + 1] = g[k + 1]
    OBVIOUS
  <2>2. f[k + 1] = IF k + 1 = 1 THEN s[k + 1] ELSE f[k + 1 - 1] \o s[k + 1]
    BY <2>1, FlattensAt
  <2>3. g[k + 1] = IF k + 1 = 1 THEN t[k + 1] ELSE g[k + 1 - 1] \o t[k + 1]
    <3>1. k + 1 \in 1..n
      BY <2>1
    <3>2. QED
      BY <3>1, FlattensAt
  <2>4. k + 1 # 1 => k \in 1..m /\ k + 1 - 1 = k
    BY <2>1
  <2>5. s[k + 1] = t[k + 1]
    BY <2>1 DEF AgreeUpTo
  <2>6. QED
    BY <1>2, <2>2, <2>3, <2>4, <2>5
<1> HIDE DEF S
<1>3. \A k \in Nat : k \in S
  BY <1>1, <1>2, SetInduction
<1>4. QED
  BY <1>3 DEF S, AgreeUpTo

LEMMA FlattenAsFunction ==
  ASSUME NEW s, Len(s) \in Nat, Len(s) # 0
  PROVE  \E f : Flattens(s, Len(s), f) /\ FlattenSeq(s) = f[Len(s)]
<1> DEFINE f == CHOOSE g : g = [i \in 1..Len(s) |-> IF i = 1 THEN s[i] ELSE g[i - 1] \o s[i]]
<1>1. \E g : g = [i \in 1..Len(s) |-> IF i = 1 THEN s[i] ELSE g[i - 1] \o s[i]]
  BY FlattensExists DEF Flattens
<1>2. f = [i \in 1..Len(s) |-> IF i = 1 THEN s[i] ELSE f[i - 1] \o s[i]]
  BY <1>1
<1>3. Flattens(s, Len(s), f)
  BY <1>2 DEF Flattens
<1>4. FlattenSeq(s) = f[Len(s)]
  BY DEF FlattenSeq
<1> HIDE DEF f
<1>5. QED
  BY <1>3, <1>4

LEMMA FlattenEmpty == FlattenSeq(<<>>) = <<>>
BY DEF FlattenSeq

\* One sequence more is concatenated at the end.
LEMMA FlattenAppend ==
  ASSUME NEW D, NEW s \in Seq(Seq(D)), NEW x \in Seq(D)
  PROVE  FlattenSeq(Append(s, x)) = FlattenSeq(s) \o x
<1> DEFINE t == Append(s, x)
           n == Len(s)
<1>1. /\ t \in Seq(Seq(D)) /\ n \in Nat /\ Len(t) = n + 1 /\ t[n + 1] = x
      /\ \A i \in 1..n : t[i] = s[i]
  <2> DEFINE E == Seq(D)
  <2>1. s \in Seq(E) /\ x \in E
    OBVIOUS
  <2> HIDE DEF E
  <2>2. n \in Nat
    BY <2>1
  <2>3. t \in Seq(E) /\ Len(t) = n + 1 /\ t[n + 1] = x /\ \A i \in 1..n : t[i] = s[i]
    BY ONLY <2>1, AppendProperties
  <2>4. QED
    BY <2>2, <2>3 DEF E
<1> HIDE DEF t
<1>2. PICK g : Flattens(t, n + 1, g) /\ FlattenSeq(t) = g[n + 1]
  <2>1. Len(t) \in Nat /\ Len(t) # 0
    BY ONLY <1>1
  <2>2. \E f : Flattens(t, Len(t), f) /\ FlattenSeq(t) = f[Len(t)]
    BY ONLY <2>1, FlattenAsFunction
  <2>3. QED
    BY ONLY <1>1, <2>2
<1>3. g[n + 1] = IF n + 1 = 1 THEN x ELSE g[n + 1 - 1] \o x
  <2>1. n + 1 \in Nat /\ n + 1 \in 1..(n + 1)
    BY <1>1
  <2>2. QED
    BY <1>1, <1>2, <2>1, FlattensAt
<1>4. CASE n = 0
  <2>1. s = <<>>
    BY <1>4
  <2>2. FlattenSeq(s) = <<>> /\ <<>> \o x = x
    BY <2>1, FlattenEmpty
  <2>3. QED
    BY <1>2, <1>3, <1>4, <2>2 DEF t
<1>5. CASE n # 0
  <2>1. PICK f : Flattens(s, n, f) /\ FlattenSeq(s) = f[n]
    BY <1>1, <1>5, FlattenAsFunction
  <2>2. AgreeUpTo(n, f, g)
    <3>1. AgreeUpTo(n, s, t)
      BY <1>1 DEF AgreeUpTo
    <3> DEFINE k == n + 1
    <3>2. n \in Nat /\ k \in Nat /\ n <= k
      BY <1>1
    <3>3. Flattens(s, n, f) /\ Flattens(t, k, g)
      BY <1>2, <2>1
    <3> HIDE DEF n, k
    <3>4. QED
      BY ONLY <3>1, <3>2, <3>3, FlattensAgree
  <2>3. f[n] = g[n] /\ n + 1 - 1 = n
    BY <1>1, <1>5, <2>2 DEF AgreeUpTo
  <2>4. QED
    BY <1>1, <1>2, <1>3, <1>5, <2>1, <2>3 DEF t
<1>6. QED
  BY <1>4, <1>5

\* The result is a sequence over the same set.
LEMMA FlattenType ==
  ASSUME NEW D, NEW s \in Seq(Seq(D))
  PROVE  FlattenSeq(s) \in Seq(D)
<1>1. CASE s = <<>>
  <2>1. <<>> \in Seq(D)
    OBVIOUS
  <2>2. QED
    BY ONLY <1>1, <2>1, FlattenEmpty
<1>2. CASE s # <<>>
  <2>1. Len(s) \in Nat /\ Len(s) # 0 /\ \A i \in 1..Len(s) : s[i] \in Seq(D)
    BY <1>2
  <2>2. PICK f : Flattens(s, Len(s), f) /\ FlattenSeq(s) = f[Len(s)]
    BY <2>1, FlattenAsFunction
  <2> DEFINE S == {k \in Nat : k \in 1..Len(s) => f[k] \in Seq(D)}
  <2>3. 0 \in S
    OBVIOUS
  <2>4. ASSUME NEW k \in Nat, k \in S
        PROVE  k + 1 \in S
    <3>1. SUFFICES ASSUME k + 1 \in 1..Len(s)
                   PROVE  f[k + 1] \in Seq(D)
      OBVIOUS
    <3>2. f[k + 1] = IF k + 1 = 1 THEN s[k + 1] ELSE f[k + 1 - 1] \o s[k + 1]
      <4>1. Len(s) \in Nat /\ Flattens(s, Len(s), f)
        BY <2>1, <2>2
      <4>2. QED
        BY ONLY <3>1, <4>1, FlattensAt
    <3>3. k + 1 # 1 => k \in 1..Len(s) /\ k + 1 - 1 = k
      BY <2>1, <3>1
    <3>4. QED
      BY <2>1, <2>4, <3>1, <3>2, <3>3
  <2> HIDE DEF S
  <2>5. \A k \in Nat : k \in S
    BY <2>3, <2>4, SetInduction
  <2>6. QED
    BY <2>1, <2>2, <2>5 DEF S
<1>3. QED
  BY <1>1, <1>2

---------------------------------------------------------------------------
(* What a function of the members gives, one after the other. *)

Each(g, s) == FlattenSeq([i \in 1..Len(s) |-> g[s[i]]])

\* The first n members.
First(s, n) == [i \in 1..n |-> s[i]]

\* a is the beginning of b, a sequence over E.
Begins(E, a, b) == \E r \in Seq(E) : b = a \o r

LEMMA FirstIsPart ==
  ASSUME NEW D, NEW s \in Seq(D), NEW n \in 0..Len(s)
  PROVE  /\ First(s, n) \in Seq(D)
         /\ Len(First(s, n)) = n
         /\ \A i \in 1..n : First(s, n)[i] = s[i]
         /\ First(s, 0) = <<>>
         /\ First(s, Len(s)) = s
<1>1. n \in Nat /\ Len(s) \in Nat /\ \A i \in 1..Len(s) : s[i] \in D
  OBVIOUS
<1>2. First(s, n) \in [1..n -> D]
  BY <1>1 DEF First
<1>3. QED
  BY <1>1, <1>2 DEF First

LEMMA FirstNext ==
  ASSUME NEW D, NEW s \in Seq(D), NEW n \in Nat, n + 1 \in 1..Len(s)
  PROVE  First(s, n + 1) = Append(First(s, n), s[n + 1])
<1>1. /\ n \in 0..Len(s) /\ n + 1 \in 0..Len(s) /\ s[n + 1] \in D
  OBVIOUS
<1>2. /\ First(s, n) \in Seq(D) /\ Len(First(s, n)) = n
      /\ \A i \in 1..n : First(s, n)[i] = s[i]
  BY <1>1, FirstIsPart
<1>3. /\ First(s, n + 1) \in Seq(D) /\ Len(First(s, n + 1)) = n + 1
      /\ \A i \in 1..(n + 1) : First(s, n + 1)[i] = s[i]
  BY <1>1, FirstIsPart
<1> DEFINE f == First(s, n)
           g == First(s, n + 1)
           x == s[n + 1]
<1> HIDE DEF f, g
<1>4. /\ Append(f, x) \in Seq(D) /\ Len(Append(f, x)) = n + 1
      /\ \A i \in 1..n : Append(f, x)[i] = f[i]
      /\ Append(f, x)[n + 1] = x
  BY <1>1, <1>2, AppendProperties DEF f
<1>5. \A i \in 1..(n + 1) : g[i] = Append(f, x)[i]
  BY <1>2, <1>3, <1>4 DEF f, g
<1>6. g = Append(f, x)
  BY <1>3, <1>4, <1>5, SeqEqual DEF g
<1>7. QED
  BY <1>6 DEF f, g

LEMMA EachEmpty ==
  ASSUME NEW g
  PROVE  Each(g, <<>>) = <<>>
<1>1. [i \in 1..Len(<<>>) |-> g[<<>>[i]]] = <<>>
  OBVIOUS
<1>2. QED
  BY <1>1, FlattenEmpty DEF Each

LEMMA EachType ==
  ASSUME NEW D, NEW E, NEW g \in [D -> Seq(E)], NEW s \in Seq(D)
  PROVE  Each(g, s) \in Seq(E)
<1> DEFINE G == Seq(E)
           f == [i \in 1..Len(s) |-> g[s[i]]]
<1>1. g \in [D -> G]
  OBVIOUS
<1> HIDE DEF G
<1>2. f \in Seq(G)
  BY <1>1
<1> HIDE DEF f
<1>3. FlattenSeq(f) \in Seq(E)
  BY <1>2, FlattenType DEF G
<1>4. QED
  BY <1>3 DEF Each, f

LEMMA EachAppend ==
  ASSUME NEW D, NEW E, NEW g \in [D -> Seq(E)], NEW s \in Seq(D), NEW x \in D
  PROVE  Each(g, Append(s, x)) = Each(g, s) \o g[x]
<1> DEFINE G == Seq(E)
           f == [i \in 1..Len(s) |-> g[s[i]]]
           h == [i \in 1..Len(Append(s, x)) |-> g[Append(s, x)[i]]]
           n == Len(s)
<1>1. g \in [D -> G]
  OBVIOUS
<1> HIDE DEF G
<1>2. /\ Append(s, x) \in Seq(D) /\ Len(Append(s, x)) = n + 1 /\ Append(s, x)[n + 1] = x
      /\ n \in Nat /\ \A i \in 1..n : Append(s, x)[i] = s[i] /\ s[i] \in D
  BY AppendProperties
<1>3. f \in Seq(G) /\ Len(f) = n /\ g[x] \in G
  BY <1>1, <1>2
<1>4. h \in Seq(G) /\ Len(h) = n + 1
  BY <1>1, <1>2
<1>5. /\ Append(f, g[x]) \in Seq(G) /\ Len(Append(f, g[x])) = n + 1
      /\ \A i \in 1..n : Append(f, g[x])[i] = f[i]
      /\ Append(f, g[x])[n + 1] = g[x]
  <2> HIDE DEF f
  <2>1. QED
    BY <1>3, AppendProperties
<1>6. \A i \in 1..(n + 1) : h[i] = Append(f, g[x])[i]
  <2> TAKE i \in 1..(n + 1)
  <2>1. h[i] = g[Append(s, x)[i]]
    BY <1>2
  <2>2. CASE i = n + 1
    BY <1>2, <1>5, <2>1, <2>2
  <2>3. CASE i # n + 1
    <3>1. i \in 1..n
      BY <1>2, <2>3
    <3>2. f[i] = g[s[i]]
      BY <3>1
    <3>3. QED
      BY <1>2, <1>5, <2>1, <3>1, <3>2
  <2>4. QED
    BY <2>2, <2>3
<1>7. h = Append(f, g[x])
  <2> HIDE DEF f, h
  <2>1. QED
    BY <1>4, <1>5, <1>6, SeqEqual
<1>8. Each(g, s) = FlattenSeq(f) /\ Each(g, Append(s, x)) = FlattenSeq(h)
  BY DEF Each
<1> HIDE DEF f, h
<1>9. FlattenSeq(Append(f, g[x])) = FlattenSeq(f) \o g[x]
  BY <1>3, FlattenAppend DEF G
<1>10. QED
  BY <1>7, <1>8, <1>9

\* A member that gives nothing, or a single value.
AddsOne(E, g, s, x) ==
  /\ g[x] = <<>> => Each(g, Append(s, x)) = Each(g, s)
  /\ \A y \in E : g[x] = <<y>> => Each(g, Append(s, x)) = Append(Each(g, s), y)

LEMMA EachAppendOne ==
  ASSUME NEW D, NEW E, NEW g \in [D -> Seq(E)], NEW s \in Seq(D), NEW x \in D
  PROVE  AddsOne(E, g, s, x)
<1> DEFINE e == Each(g, s)
<1>1. e \in Seq(E)
  BY EachType
<1>2. Each(g, Append(s, x)) = e \o g[x]
  BY EachAppend
<1> HIDE DEF e
<1>3. e \o <<>> = e
  BY <1>1, ConcatEmptySeq
<1>4. \A y \in E : e \o <<y>> = Append(e, y)
  BY <1>1, AppendIsConcat
<1>5. QED
  BY <1>2, <1>3, <1>4 DEF e, AddsOne

\* Of the first members, and then of the next.
LEMMA EachNext ==
  ASSUME NEW D, NEW E, NEW g \in [D -> Seq(E)], NEW s \in Seq(D),
         NEW n \in Nat, n + 1 \in 1..Len(s)
  PROVE  Each(g, First(s, n + 1)) = Each(g, First(s, n)) \o g[s[n + 1]]
<1>0. n \in 0..Len(s) /\ s[n + 1] \in D
  OBVIOUS
<1>1. First(s, n) \in Seq(D)
  BY <1>0, FirstIsPart
<1>2. First(s, n + 1) = Append(First(s, n), s[n + 1])
  BY FirstNext
<1> DEFINE f == First(s, n)
           x == s[n + 1]
<1> HIDE DEF f, x
<1>3. Each(g, Append(f, x)) = Each(g, f) \o g[x]
  BY <1>0, <1>1, EachAppend DEF f, x
<1>4. QED
  BY <1>2, <1>3 DEF f, x

\* What the first members give is the beginning of what all of them give.
LEMMA EachBegins ==
  ASSUME NEW D, NEW E, NEW g \in [D -> Seq(E)], NEW s \in Seq(D), NEW n \in 0..Len(s)
  PROVE  /\ Each(g, First(s, n)) \in Seq(E)
         /\ Each(g, s) \in Seq(E)
         /\ Begins(E, Each(g, First(s, n)), Each(g, s))
<1> DEFINE extends(m) == \E r \in Seq(E) : Each(g, First(s, m)) = Each(g, First(s, n)) \o r
           S == {d \in Nat : n + d <= Len(s) => extends(n + d)}
<1>0. n \in Nat /\ Len(s) \in Nat
  OBVIOUS
<1>1. \A m \in 0..Len(s) : Each(g, First(s, m)) \in Seq(E)
  <2> TAKE m \in 0..Len(s)
  <2> DEFINE f == First(s, m)
  <2>1. f \in Seq(D)
    BY FirstIsPart
  <2> HIDE DEF f
  <2>2. QED
    BY <2>1, EachType DEF f
<1>2. 0 \in S
  <2>1. <<>> \in Seq(E)
    OBVIOUS
  <2>2. Each(g, First(s, n)) \o <<>> = Each(g, First(s, n))
    BY <1>1, ConcatEmptySeq
  <2>3. n + 0 = n
    BY <1>0
  <2>4. QED
    BY <2>1, <2>2, <2>3
<1>3. ASSUME NEW d \in Nat, d \in S
      PROVE  d + 1 \in S
  <2>1. SUFFICES ASSUME n + (d + 1) <= Len(s)
                 PROVE  extends(n + (d + 1))
    <3> HIDE DEF extends
    <3>1. QED
      OBVIOUS
  <2>2. /\ n + d \in Nat /\ (n + d) + 1 \in 1..Len(s) /\ n + d <= Len(s)
        /\ n + (d + 1) = (n + d) + 1 /\ n + d \in 0..Len(s)
    BY <1>0, <2>1
  <2>3. PICK r \in Seq(E) : Each(g, First(s, n + d)) = Each(g, First(s, n)) \o r
    BY <1>3, <2>2
  <2>4. Each(g, First(s, (n + d) + 1)) = Each(g, First(s, n + d)) \o g[s[(n + d) + 1]]
    BY <2>2, EachNext, ZenonT(20)
  <2> DEFINE a == Each(g, First(s, n))
             x == g[s[(n + d) + 1]]
  <2>5. a \in Seq(E) /\ x \in Seq(E)
    BY <1>1, <2>2
  <2> HIDE DEF a, x
  <2>6. (a \o r) \o x = a \o (r \o x) /\ r \o x \in Seq(E)
    <3>1. r \in Seq(E)
      OBVIOUS
    <3>2. (a \o r) \o x = a \o (r \o x)
      BY ONLY <2>5, <3>1, ConcatAssociative, SMTT(30)
    <3>3. r \o x \in Seq(E)
      BY ONLY <2>5, <3>1, ConcatProperties
    <3>4. QED
      BY <3>2, <3>3
  <2>7. QED
    BY <2>2, <2>3, <2>4, <2>6 DEF a, x
<1> HIDE DEF S
<1>4. \A d \in Nat : d \in S
  BY <1>2, <1>3, SetInduction
<1>5. Len(s) - n \in Nat /\ n + (Len(s) - n) = Len(s)
  BY <1>0
<1>6. \E r \in Seq(E) : Each(g, First(s, Len(s))) = Each(g, First(s, n)) \o r
  <2> DEFINE d == Len(s) - n
  <2>1. d \in S /\ n + d <= Len(s) /\ n + d = Len(s)
    BY <1>0, <1>4, <1>5
  <2> HIDE DEF d
  <2>2. \E r \in Seq(E) : Each(g, First(s, n + d)) = Each(g, First(s, n)) \o r
    BY <2>1 DEF S
  <2>3. QED
    BY <2>1, <2>2
<1>7. First(s, Len(s)) = s
  BY FirstIsPart
<1>8. Len(s) \in 0..Len(s)
  BY <1>0
<1>9. Begins(E, Each(g, First(s, n)), Each(g, s))
  BY <1>6, <1>7 DEF Begins
<1>10. QED
  BY <1>1, <1>7, <1>8, <1>9

\* Where to find what a member gives.
LEMMA EachAt ==
  ASSUME NEW D, NEW E, NEW g \in [D -> Seq(E)], NEW s \in Seq(D),
         NEW n \in Nat, n + 1 \in 1..Len(s), NEW j \in 1..Len(g[s[n + 1]])
  PROVE  /\ Len(Each(g, First(s, n))) + j \in 1..Len(Each(g, s))
         /\ Each(g, s)[Len(Each(g, First(s, n))) + j] = g[s[n + 1]][j]
<1> DEFINE a == Each(g, First(s, n))
           x == g[s[n + 1]]
           b == Each(g, First(s, n + 1))
<1>1. n \in 0..Len(s) /\ n + 1 \in 0..Len(s) /\ x \in Seq(E)
  OBVIOUS
<1>2. a \in Seq(E) /\ b \in Seq(E)
  BY <1>1, EachBegins
<1>3. PICK r \in Seq(E) : Each(g, s) = b \o r
  <2>1. Begins(E, Each(g, First(s, n + 1)), Each(g, s))
    BY <1>1, EachBegins
  <2>2. QED
    BY <2>1 DEF Begins
<1>4. b = a \o x
  BY EachNext
<1> HIDE DEF a, b, x
<1>5. /\ Len(b) = Len(a) + Len(x) /\ b[Len(a) + j] = x[j] /\ Len(a) \in Nat /\ j \in 1..Len(x)
  <2>1. j \in 1..Len(x) /\ Len(x) \in Nat /\ Len(a) \in Nat
    BY <1>1, <1>2 DEF x
  <2>2. QED
    BY <1>1, <1>2, <1>4, <2>1, ConcatProperties
<1>6. /\ Len(b \o r) = Len(b) + Len(r) /\ Len(b) \in Nat /\ Len(r) \in Nat
      /\ \A i \in 1..Len(b) : (b \o r)[i] = b[i]
  BY <1>2, ConcatProperties
<1>7. Len(a) + j \in 1..Len(b)
  BY <1>1, <1>5
<1>8. QED
  BY <1>3, <1>5, <1>6, <1>7, SMTT(30) DEF a, x

\* x is a member of the sequence s.
In(x, s) == \E i \in 1..Len(s) : s[i] = x

LEMMA InConcat ==
  ASSUME NEW D, NEW s \in Seq(D), NEW t \in Seq(D), NEW x
  PROVE  /\ In(x, s) => In(x, s \o t)
         /\ In(x, t) => In(x, s \o t)
         /\ In(x, s \o t) => In(x, s) \/ In(x, t)
<1>1. /\ Len(s) \in Nat /\ Len(t) \in Nat /\ Len(s \o t) = Len(s) + Len(t)
      /\ \A i \in 1..(Len(s) + Len(t)) :
           (s \o t)[i] = IF i <= Len(s) THEN s[i] ELSE t[i - Len(s)]
  BY ConcatProperties
<1>2. In(x, s) => In(x, s \o t)
  BY <1>1 DEF In
<1>3. ASSUME In(x, t) PROVE In(x, s \o t)
  <2>1. PICK i \in 1..Len(t) : t[i] = x
    BY <1>3 DEF In
  <2>2. /\ Len(s) + i \in 1..(Len(s) + Len(t)) /\ ~(Len(s) + i <= Len(s))
        /\ (Len(s) + i) - Len(s) = i
    BY <1>1
  <2>3. QED
    BY <1>1, <2>1, <2>2 DEF In
<1>4. ASSUME In(x, s \o t) PROVE In(x, s) \/ In(x, t)
  <2>1. PICK i \in 1..(Len(s) + Len(t)) : (s \o t)[i] = x
    BY <1>1, <1>4 DEF In
  <2>2. CASE i <= Len(s)
    BY <1>1, <2>1, <2>2 DEF In
  <2>3. CASE ~(i <= Len(s))
    <3>1. i - Len(s) \in 1..Len(t) /\ t[i - Len(s)] = x
      BY <1>1, <2>1, <2>3
    <3>2. QED
      BY <3>1 DEF In
  <2>4. QED
    BY <2>2, <2>3
<1>5. QED
  BY <1>2, <1>3, <1>4

LEMMA EachHas ==
  ASSUME NEW D, NEW E, NEW g \in [D -> Seq(E)], NEW s \in Seq(D), NEW x,
         NEW i \in 1..Len(s), In(x, g[s[i]])
  PROVE  In(x, Each(g, s))
<1> DEFINE n == i - 1
<1>1. n \in Nat /\ n + 1 \in 1..Len(s) /\ n + 1 = i /\ n \in 0..Len(s) /\ n + 1 \in 0..Len(s)
  OBVIOUS
<1> HIDE DEF n
<1> DEFINE a == Each(g, First(s, n))
           b == Each(g, First(s, n + 1))
           y == g[s[n + 1]]
           all == Each(g, s)
<1>2. In(x, y) /\ y \in Seq(E)
  BY <1>1
<1>3. b = a \o y
  BY <1>1, EachNext
<1>4. a \in Seq(E) /\ b \in Seq(E)
  BY <1>1, EachBegins
<1>5. Begins(E, b, all)
  BY <1>1, EachBegins
<1> HIDE DEF a, b, y, all
<1>6. In(x, b)
  BY <1>2, <1>3, <1>4, InConcat
<1>7. PICK r \in Seq(E) : all = b \o r
  BY <1>5 DEF Begins
<1>8. In(x, all)
  BY <1>4, <1>6, <1>7, InConcat
<1>9. QED
  BY <1>8 DEF all

\* The same of the flattened sequence itself.
LEMMA FlattenHas ==
  ASSUME NEW D, NEW s \in Seq(Seq(D)), NEW x, NEW i \in 1..Len(s), In(x, s[i])
  PROVE  In(x, FlattenSeq(s))
<1> DEFINE E == Seq(D)
           g == [y \in E |-> y]
<1>1. g \in [E -> Seq(D)] /\ s \in Seq(E) /\ \A y \in E : g[y] = y
  OBVIOUS
<1>2. s[i] \in E /\ \A j \in 1..Len(s) : s[j] \in E
  OBVIOUS
<1>3. Each(g, s) = FlattenSeq(s)
  <2> HIDE DEF g, E
  <2>1. [j \in 1..Len(s) |-> g[s[j]]] = [j \in 1..Len(s) |-> s[j]]
    BY <1>1, <1>2
  <2>2. [j \in 1..Len(s) |-> s[j]] = s
    BY <1>1
  <2>3. QED
    BY <2>1, <2>2 DEF Each
<1>4. In(x, g[s[i]])
  BY <1>1, <1>2
<1> HIDE DEF g, E
<1>5. In(x, Each(g, s))
  BY <1>1, <1>4, EachHas
<1>6. QED
  BY <1>3, <1>5
============================================================================
