----------------------------- MODULE FoldLemmas ------------------------------
(***************************************************************************)
(* Facts about the operators of the libraries that the modules are built   *)
(* from: minima, sums over a set, remainders, sequences put end to end.    *)
(*                                                                         *)
(* They are proved by induction, on sets: a set of numbers that has 0 and  *)
(* the successor of each of its members is Nat, because what it lacks      *)
(* would have a smallest element.                                          *)
(***************************************************************************)
EXTENDS Integers, FiniteSets, FiniteSetsExt, Sequences, SequencesExt,
        FiniteSetTheorems, SequenceTheorems, WellFoundedInduction, TLAPS

\* A nonempty set of numbers has a minimum.
LEMMA MinOfNat ==
  ASSUME NEW S \in SUBSET Nat, S # {}
  PROVE  Min(S) \in S /\ \A y \in S : Min(S) <= y
<1> DEFINE Less == {p \in Nat \X Nat : p[1] < p[2]}
<1>1. OpToRel(<, Nat) = Less
  BY Zenon DEF OpToRel
<1>2. IsWellFoundedOn(Less, Nat)
  BY <1>1, NatLessThanWellFounded
<1> HIDE DEF Less
<1>3. PICK x \in S : \A y \in S : ~ (<<y, x>> \in Less)
  BY <1>2, WFMin, Zenon
<1>4. \A y \in Nat : y < x => <<y, x>> \in Less
  BY DEF Less
<1>5. \A y \in S : ~ (y < x)
  BY <1>3, <1>4
<1>6. \A y \in S : x <= y
  BY <1>5
<1> QED
  BY <1>6 DEF Min

\* Induction on the numbers.
LEMMA SetInduction ==
  ASSUME NEW S, S \subseteq Nat, 0 \in S, \A n \in S : n + 1 \in S
  PROVE  S = Nat
<1> SUFFICES ASSUME Nat \ S # {} PROVE FALSE
  OBVIOUS
<1>1. PICK x \in Nat \ S : \A y \in Nat \ S : x <= y
  BY MinOfNat
<1>2. x # 0 /\ x - 1 \in Nat /\ ~ (x <= x - 1)
  OBVIOUS
<1>3. x - 1 \in S
  BY <1>1, <1>2
<1> QED
  BY <1>3

\* Induction on the subsets of a finite set.
LEMMA FiniteSubsets ==
  ASSUME NEW S, IsFiniteSet(S), NEW P, P \subseteq SUBSET S, {} \in P,
         \A s \in SUBSET S : s # {} /\ (\A x \in s : s \ {x} \in P) => s \in P
  PROVE  P = SUBSET S
<1> DEFINE N == {n \in Nat : \A s \in SUBSET S : Cardinality(s) = n => s \in P}
<1>1. \A s \in SUBSET S : IsFiniteSet(s) /\ Cardinality(s) \in Nat
  BY FS_Subset, FS_CardinalityType
<1>2. 0 \in N
  BY <1>1, FS_EmptySet
<1>3. ASSUME NEW n \in N PROVE n + 1 \in N
  <2> SUFFICES ASSUME NEW s \in SUBSET S, Cardinality(s) = n + 1 PROVE s \in P
    OBVIOUS
  <2>1. s # {}
    BY FS_EmptySet
  <2>2. ASSUME NEW x \in s PROVE s \ {x} \in P
    <3>1. Cardinality(s \ {x}) = n
      BY <1>1, FS_RemoveElement
    <3> QED
      BY <3>1
  <2> QED
    BY <2>1, <2>2
<1>4. N = Nat
  <2> HIDE DEF N
  <2>1. N \subseteq Nat
    BY DEF N
  <2> QED
    BY <1>2, <1>3, <2>1, SetInduction
<1> QED
  BY <1>1, <1>4

-----------------------------------------------------------------------------
(***************************************************************************)
(* MapThenSumSet takes the elements of a set one by one with CHOOSE.  h is *)
(* the recursive function it is defined by, for the subsets of S.          *)
(***************************************************************************)
SumStep(g, h, s) ==
  IF s = {} THEN 0 ELSE g[CHOOSE x \in s : TRUE] + h[s \ {CHOOSE x \in s : TRUE}]

IsSum(g, S, h) == h = [s \in SUBSET S |-> SumStep(g, h, s)]

\* The function exists.
LEMMA SumExists ==
  ASSUME NEW S, IsFiniteSet(S), NEW g
  PROVE  \E h : IsSum(g, S, h)
<1> DEFINE D(n) == {s \in SUBSET S : Cardinality(s) <= n}
           Sol(h, n) == h = [s \in D(n) |-> SumStep(g, h, s)]
           N == {n \in Nat : \E h : Sol(h, n)}
<1>1. \A s \in SUBSET S : IsFiniteSet(s) /\ Cardinality(s) \in Nat
  BY FS_Subset, FS_CardinalityType
<1>2. 0 \in N
  <2> DEFINE h == [s \in D(0) |-> 0]
  <2>1. D(0) = {{}}
    BY <1>1, FS_EmptySet
  <2>2. \A s \in D(0) : SumStep(g, h, s) = 0
    BY <2>1 DEF SumStep
  <2>3. h = [s \in D(0) |-> SumStep(g, h, s)]
    BY <2>2
  <2>4. \E u : Sol(u, 0)
    BY <2>3
  <2> QED
    BY <2>4
<1>3. ASSUME NEW n \in N PROVE n + 1 \in N
  <2>1. PICK h : Sol(h, n)
    BY <1>3
  <2> DEFINE k == [s \in D(n + 1) |-> SumStep(g, h, s)]
  <2>2. ASSUME NEW s \in D(n + 1) PROVE SumStep(g, k, s) = SumStep(g, h, s)
    <3>1. CASE s = {}
      BY <3>1 DEF SumStep
    <3>2. CASE s # {}
      <4> DEFINE x == CHOOSE x \in s : TRUE
                 t == s \ {x}
      <4>1. x \in s
        BY <3>2
      <4>2. Cardinality(t) = Cardinality(s) - 1
        BY <1>1, <4>1, FS_RemoveElement
      <4>3. t \in D(n) /\ t \in D(n + 1)
        BY <1>1, <4>2
      <4>4. k[t] = SumStep(g, h, t)
        BY <4>3
      <4>5. h[t] = SumStep(g, h, t)
        <5> HIDE DEF t, D
        <5> QED
          BY <4>3, <2>1
      <4> HIDE DEF k
      <4> QED
        BY <3>2, <4>4, <4>5 DEF SumStep
    <3> QED
      BY <3>1, <3>2
  <2>3. \A s \in D(n + 1) : SumStep(g, h, s) = SumStep(g, k, s)
    BY <2>2
  <2>4. Sol(k, n + 1)
    <3>1. k = [s \in D(n + 1) |-> SumStep(g, h, s)]
      OBVIOUS
    <3> HIDE DEF k, D
    <3> QED
      BY <3>1, <2>3
  <2>5. \E u : Sol(u, n + 1)
    BY <2>4
  <2> HIDE DEF Sol
  <2> QED
    BY <2>5
<1>4. N = Nat
  <2>1. N \subseteq Nat
    OBVIOUS
  <2> HIDE DEF N
  <2> QED
    BY <1>2, <1>3, <2>1, SetInduction
<1>5. Cardinality(S) \in N
  BY <1>1, <1>4
<1>6. PICK h : Sol(h, Cardinality(S))
  BY <1>5
<1>7. D(Cardinality(S)) = SUBSET S
  BY <1>1, FS_Subset
<1> QED
  BY <1>6, <1>7 DEF IsSum

\* It does not depend on the set it is computed for.
LEMMA SumAgrees ==
  ASSUME NEW S, IsFiniteSet(S), NEW T \in SUBSET S, NEW g, NEW f, \A x \in T : g[x] = f[x],
         NEW h, IsSum(g, S, h), NEW k, IsSum(f, T, k)
  PROVE  \A s \in SUBSET T : h[s] = k[s]
<1> DEFINE P == {s \in SUBSET T : h[s] = k[s]}
<1>0. IsFiniteSet(T)
  BY FS_Subset
<1>1. {} \in P
  BY DEF IsSum, SumStep
<1>2. ASSUME NEW s \in SUBSET T, s # {}, \A x \in s : s \ {x} \in P PROVE s \in P
  <2> DEFINE x == CHOOSE x \in s : TRUE
  <2>1. x \in s
    BY <1>2
  <2>2. h[s \ {x}] = k[s \ {x}]
    BY <1>2, <2>1
  <2>3. h[s] = g[x] + h[s \ {x}]
    BY <1>2 DEF IsSum, SumStep
  <2>4. k[s] = f[x] + k[s \ {x}]
    BY <1>2 DEF IsSum, SumStep
  <2> QED
    BY <2>1, <2>2, <2>3, <2>4
<1>3. P = SUBSET T
  <2>1. P \subseteq SUBSET T
    OBVIOUS
  <2> HIDE DEF P
  <2> QED
    BY <1>0, <1>1, <1>2, <2>1, FiniteSubsets
<1> QED
  BY <1>3

\* Nor on the order in which the elements are taken.
LEMMA SumRemoves ==
  ASSUME NEW S, IsFiniteSet(S), NEW g \in [S -> Int], NEW h, IsSum(g, S, h)
  PROVE  \A s \in SUBSET S : h[s] \in Int /\ \A y \in s : h[s] = g[y] + h[s \ {y}]
<1> DEFINE Z == {s \in SUBSET S : h[s] \in Int}
           P == {s \in SUBSET S : \A y \in s : h[s] = g[y] + h[s \ {y}]}
<1>1. \A s \in SUBSET S : s # {} => \E x \in s : h[s] = g[x] + h[s \ {x}]
  <2> TAKE s \in SUBSET S
  <2> HAVE s # {}
  <2>1. (CHOOSE x \in s : TRUE) \in s
    OBVIOUS
  <2> QED
    BY <2>1 DEF IsSum, SumStep
<1>2. Z = SUBSET S
  <2>1. {} \in Z
    BY DEF IsSum, SumStep
  <2>2. ASSUME NEW s \in SUBSET S, s # {}, \A x \in s : s \ {x} \in Z PROVE s \in Z
    <3>1. PICK x \in s : h[s] = g[x] + h[s \ {x}]
      BY <1>1, <2>2
    <3>2. h[s \ {x}] \in Int /\ g[x] \in Int
      BY <2>2
    <3> QED
      BY <3>1, <3>2
  <2>3. Z \subseteq SUBSET S
    OBVIOUS
  <2> HIDE DEF Z
  <2> QED
    BY <2>1, <2>2, <2>3, FiniteSubsets
<1>3. ASSUME NEW s \in SUBSET S, s # {}, \A x \in s : s \ {x} \in P PROVE s \in P
  <2>1. PICK x \in s : h[s] = g[x] + h[s \ {x}]
    BY <1>1, <1>3
  <2>2. ASSUME NEW y \in s, y # x PROVE h[s] = g[y] + h[s \ {y}]
    <3>1. h[s \ {x}] = g[y] + h[(s \ {x}) \ {y}]
      BY <1>3, <2>2
    <3>2. h[s \ {y}] = g[x] + h[(s \ {x}) \ {y}]
      <4>1. h[s \ {y}] = g[x] + h[(s \ {y}) \ {x}]
        BY <1>3, <2>2
      <4>2. (s \ {x}) \ {y} = (s \ {y}) \ {x}
        OBVIOUS
      <4> QED
        BY <4>1, <4>2
    <3>3. h[(s \ {x}) \ {y}] \in Int /\ g[x] \in Int /\ g[y] \in Int
      <4>1. (s \ {x}) \ {y} \in SUBSET S
        OBVIOUS
      <4> QED
        BY <4>1, <1>2
    <3> QED
      BY <3>1, <3>2, <3>3, <2>1
  <2> QED
    BY <2>1, <2>2
<1>4. P = SUBSET S
  <2>1. {} \in P
    OBVIOUS
  <2>2. P \subseteq SUBSET S
    OBVIOUS
  <2> HIDE DEF P
  <2> QED
    BY <1>3, <2>1, <2>2, FiniteSubsets
<1> QED
  BY <1>2, <1>4

\* The sum of g over S.
SumOf(g, S) == (CHOOSE h : IsSum(g, S, h))[S]

LEMMA SumIs ==
  ASSUME NEW S, IsFiniteSet(S), NEW g, NEW T \in SUBSET S, NEW h, IsSum(g, S, h)
  PROVE  SumOf(g, T) = h[T]
<1> DEFINE k == CHOOSE k : IsSum(g, T, k)
<1>1. IsSum(g, T, k)
  BY SumExists, FS_Subset
<1> HIDE DEF k
<1>2. h[T] = k[T]
  BY <1>1, SumAgrees
<1> QED
  BY <1>2 DEF SumOf, k

\* The sum of no element is 0, and any element can be taken first.
LEMMA SumFacts ==
  ASSUME NEW S, IsFiniteSet(S), NEW g \in [S -> Int]
  PROVE  /\ SumOf(g, {}) = 0
         /\ \A T \in SUBSET S : /\ SumOf(g, T) \in Int
                                /\ \A y \in T : SumOf(g, T) = g[y] + SumOf(g, T \ {y})
<1>1. PICK h : IsSum(g, S, h)
  BY SumExists
<1>2. \A T \in SUBSET S : SumOf(g, T) = h[T]
  BY <1>1, SumIs
<1>3. h[{}] = 0
  BY <1>1 DEF IsSum, SumStep
<1>4. \A T \in SUBSET S : h[T] \in Int /\ \A y \in T : h[T] = g[y] + h[T \ {y}]
  BY <1>1, SumRemoves
<1> QED
  BY <1>2, <1>3, <1>4
-----------------------------------------------------------------------------
\* What is added may be reduced before or after.
LEMMA ModAdd ==
  ASSUME NEW w \in Nat \ {0}, NEW a \in Int, NEW b \in Int
  PROVE  ((a % w) + b) % w = (a + b) % w
<1>1. ASSUME NEW x \in Int
      PROVE  x = w * (x \div w) + (x % w) /\ x % w \in 0 .. w - 1 /\ x \div w \in Int
  OBVIOUS
<1>2. ASSUME NEW x \in Int, NEW y \in Int, NEW r \in 0 .. w - 1, NEW s \in 0 .. w - 1,
             w * x + r = w * y + s
      PROVE  r = s
  BY <1>2
<1> DEFINE u == (a % w) + b
           v == a + b
<1>3. u \in Int /\ v \in Int /\ a % w \in Int
  BY <1>1
<1>4. v = u + w * (a \div w)
  <2> DEFINE p == w * (a \div w)
             r == a % w
  <2>1. a = p + r /\ p \in Int /\ r \in Int
    BY <1>1
  <2> HIDE DEF p, r
  <2>2. a + b = (r + b) + p
    BY <2>1
  <2> QED
    BY <2>2 DEF p, r
<1>5. w * (v \div w) + (v % w) = w * ((u \div w) + (a \div w)) + (u % w)
  <2>1. u = w * (u \div w) + (u % w) /\ v = w * (v \div w) + (v % w)
    BY <1>1, <1>3
  <2>2. w * ((u \div w) + (a \div w)) = w * (u \div w) + w * (a \div w)
    BY <1>1, <1>3
  <2>3. u \div w \in Int /\ v \div w \in Int /\ a \div w \in Int /\ u % w \in Int /\ v % w \in Int
    BY <1>1, <1>3
  <2> HIDE DEF u, v
  <2> QED
    BY <2>1, <2>2, <2>3, <1>3, <1>4
<1>6. /\ (u \div w) + (a \div w) \in Int /\ v \div w \in Int
      /\ u % w \in 0 .. w - 1 /\ v % w \in 0 .. w - 1
  BY <1>1, <1>3
<1> HIDE DEF u, v
<1>7. u % w = v % w
  BY <1>2, <1>5, <1>6
<1> QED
  BY <1>7 DEF u, v
-----------------------------------------------------------------------------
(***************************************************************************)
(* FlattenSeq, which the library defines by a recursive function that it   *)
(* chooses: the function exists, and it puts the pieces end to end.        *)
(***************************************************************************)
\* The recursive function that FlattenSeq is defined by exists.
LEMMA FlattenUnfolds ==
  ASSUME NEW X, NEW ss \in Seq(Seq(X)), Len(ss) # 0
  PROVE  \E f : /\ f = [k \in 1 .. Len(ss) |-> IF k = 1 THEN ss[k] ELSE f[k - 1] \o ss[k]]
                /\ FlattenSeq(ss) = f[Len(ss)]
<1> DEFINE n == Len(ss)
           Body(f, m) == f = [k \in 1 .. m |-> IF k = 1 THEN ss[k] ELSE f[k - 1] \o ss[k]]
           S == {m \in Nat : \E f : Body(f, m)}
<1>0. n \in Nat
  OBVIOUS
<1>1. 0 \in S
  <2>1. Body([k \in 1 .. 0 |-> ss[k]], 0)
    OBVIOUS
  <2>2. \E f : Body(f, 0)
    BY <2>1
  <2> QED
    BY <2>2
<1>2. ASSUME NEW m \in S PROVE m + 1 \in S
  <2>0. m \in Nat /\ \E f : Body(f, m)
    <3> HIDE DEF Body
    <3> QED
      OBVIOUS
  <2>1. PICK f : Body(f, m)
    BY <2>0
  <2> DEFINE g == [k \in 1 .. m + 1 |-> IF k = 1 THEN ss[k] ELSE f[k - 1] \o ss[k]]
  <2>2. ASSUME NEW k \in 1 .. m + 1, k # 1 PROVE g[k - 1] = f[k - 1]
    <3>1. k - 1 \in 1 .. m /\ k - 1 \in 1 .. m + 1
      BY <2>0, <2>2
    <3> QED
      BY <2>1, <3>1
  <2>3. Body(g, m + 1)
    <3>1. \A k \in 1 .. m + 1 : g[k] = IF k = 1 THEN ss[k] ELSE g[k - 1] \o ss[k]
      BY <2>2
    <3>2. g = [k \in 1 .. m + 1 |-> g[k]]
      OBVIOUS
    <3> HIDE DEF g
    <3> QED
      BY <3>1, <3>2
  <2> HIDE DEF g
  <2>4. \E u : Body(u, m + 1)
    BY <2>3
  <2>5. m + 1 \in Nat
    BY <2>0
  <2> HIDE DEF Body
  <2> QED
    BY <2>4, <2>5
<1>3. S = Nat
  <2>1. S \subseteq Nat
    OBVIOUS
  <2> HIDE DEF S
  <2> QED
    BY <1>1, <1>2, <2>1, SetInduction
<1>4. \E f : Body(f, n)
  <2> HIDE DEF Body, n
  <2> QED
    BY <1>0, <1>3
<1>5. FlattenSeq(ss) = (CHOOSE f : Body(f, n))[n]
  <2>1. Len(ss) # 0
    OBVIOUS
  <2> QED
    BY <2>1, Zenon DEF FlattenSeq
<1> DEFINE h == CHOOSE f : Body(f, n)
<1>6. Body(h, n)
  <2> HIDE DEF Body
  <2> QED
    BY <1>4
<1> HIDE DEF h
<1>7. FlattenSeq(ss) = h[n]
  BY <1>5 DEF h
<1> QED
  BY <1>6, <1>7

\* FlattenSeq puts the pieces end to end: piece k begins after e[k - 1] elements.
Laid(ss, e) ==
  /\ e \in [0 .. Len(ss) -> Nat] /\ e[0] = 0
  /\ \A k \in 1 .. Len(ss) : e[k] = e[k - 1] + Len(ss[k])
  /\ Len(FlattenSeq(ss)) = e[Len(ss)]
  /\ \A k \in 1 .. Len(ss) :
       /\ e[k] <= e[Len(ss)]
       /\ \A j \in 1 .. Len(ss[k]) : FlattenSeq(ss)[e[k - 1] + j] = ss[k][j]

LEMMA FlattenPieces ==
  ASSUME NEW X, NEW ss \in Seq(Seq(X))
  PROVE  FlattenSeq(ss) \in Seq(X) /\ \E e : Laid(ss, e)
<1> DEFINE n == Len(ss)
<1>0. n \in Nat /\ \A k \in 1 .. n : ss[k] \in Seq(X) /\ Len(ss[k]) \in Nat
  OBVIOUS
<1>1. CASE n = 0
  <2> DEFINE e == [k \in 0 .. 0 |-> 0]
  <2>1. ss = <<>>
    BY <1>1
  <2>2. FlattenSeq(ss) = <<>>
    BY <2>1 DEF FlattenSeq
  <2>3. e \in [0 .. n -> Nat] /\ e[0] = 0 /\ Len(FlattenSeq(ss)) = 0
    BY <1>1, <2>2
  <2> HIDE DEF e
  <2>4. Laid(ss, e)
    BY <1>1, <2>3 DEF Laid
  <2>5. FlattenSeq(ss) \in Seq(X)
    BY <2>2
  <2> QED
    BY <2>4, <2>5
<1>2. CASE n # 0
  <2>1. PICK f : /\ f = [k \in 1 .. n |-> IF k = 1 THEN ss[k] ELSE f[k - 1] \o ss[k]]
                 /\ FlattenSeq(ss) = f[n]
    BY <1>2, FlattenUnfolds
  <2>a. f[1] = ss[1] /\ \A k \in 1 .. n : k # 1 => f[k] = f[k - 1] \o ss[k]
    <3>1. \A k \in 1 .. n : f[k] = IF k = 1 THEN ss[k] ELSE f[k - 1] \o ss[k]
      BY <2>1
    <3>2. 1 \in 1 .. n
      BY <1>0, <1>2
    <3> QED
      BY <3>1, <3>2, Zenon
  <2> DEFINE e == [k \in 0 .. n |-> IF k = 0 THEN 0 ELSE Len(f[k])]
             Good(m) == /\ f[m] \in Seq(X)
                        /\ e[m] = e[m - 1] + Len(ss[m])
                        /\ e[m] \in Nat /\ e[m - 1] \in Nat
                        /\ \A k \in 1 .. m :
                             /\ e[k - 1] \in Nat /\ e[k - 1] + Len(ss[k]) <= e[m]
                             /\ \A j \in 1 .. Len(ss[k]) : f[m][e[k - 1] + j] = ss[k][j]
             S == {m \in Nat : m + 1 <= n => Good(m + 1)}
  <2>2. 0 \in S
    <3>1. e[0] = 0 /\ e[1] = Len(ss[1]) /\ f[1] = ss[1] /\ ss[1] \in Seq(X) /\ Len(ss[1]) \in Nat
      BY <1>0, <1>2, <2>a
    <3> HIDE DEF e
    <3>2. Good(1)
      BY <3>1
    <3> QED
      BY <3>2
  <2>3. ASSUME NEW m \in S PROVE m + 1 \in S
    <3> SUFFICES ASSUME m \in Nat, m + 2 <= n, Good(m + 1) PROVE Good(m + 2)
      <4>1. m \in Nat /\ (m + 1 <= n => Good(m + 1))
        <5> HIDE DEF Good
        <5> QED
          OBVIOUS
      <4>2. m + 2 <= n => m + 1 <= n
        BY <4>1, <1>0
      <4> HIDE DEF Good
      <4>3. (m + 1) + 1 = m + 2
        BY <4>1
      <4> QED
        BY <4>1, <4>2, <4>3
    <3> DEFINE a == f[m + 1]
               b == ss[m + 2]
    <3>1. f[m + 2] = a \o b
      <4>1. m + 2 \in 1 .. n /\ m + 2 # 1 /\ (m + 2) - 1 = m + 1
        BY <1>0
      <4> QED
        BY <4>1, <2>a
    <3>2. a \in Seq(X) /\ b \in Seq(X)
      BY <1>0
    <3>3. /\ a \o b \in Seq(X) /\ Len(a \o b) = Len(a) + Len(b) /\ Len(a) \in Nat /\ Len(b) \in Nat
          /\ \A j \in 1 .. Len(a) : (a \o b)[j] = a[j]
          /\ \A j \in 1 .. Len(b) : (a \o b)[Len(a) + j] = b[j]
      <4> HIDE DEF a, b
      <4> QED
        BY <3>2
    <3>4. e[m + 2] = Len(a \o b) /\ e[m + 1] = Len(a)
      <4>1. m + 1 \in 0 .. n /\ m + 2 \in 0 .. n /\ m + 1 # 0 /\ m + 2 # 0
        BY <1>0
      <4>2. e[m + 2] = Len(f[m + 2]) /\ e[m + 1] = Len(f[m + 1])
        BY <4>1
      <4> HIDE DEF e, b
      <4> QED
        BY <4>2, <3>1
    <3>5. ASSUME NEW k \in 1 .. m + 2
          PROVE  /\ e[k - 1] \in Nat /\ e[k - 1] + Len(ss[k]) <= e[m + 2]
                 /\ \A j \in 1 .. Len(ss[k]) : f[m + 2][e[k - 1] + j] = ss[k][j]
      <4>1. CASE k = m + 2
        <5>1. e[k - 1] = Len(a) /\ ss[k] = b
          <6>1. k - 1 = m + 1
            BY <4>1
          <6>2. e[k - 1] = e[m + 1]
            BY <6>1
          <6> QED
            BY <4>1, <6>2, <3>4, Zenon
        <5>2. e[m + 2] = Len(a) + Len(b) /\ Len(a) \in Nat /\ Len(b) \in Nat
          BY <3>3, <3>4
        <5> HIDE DEF a, b, e
        <5>3. e[k - 1] \in Nat /\ e[k - 1] + Len(ss[k]) <= e[m + 2]
          <6>1. e[k - 1] + Len(ss[k]) = e[m + 2]
            BY <5>1, <5>2, Zenon
          <6>2. e[m + 2] \in Nat /\ e[k - 1] \in Nat
            BY <5>1, <5>2
          <6> QED
            BY <6>1, <6>2
        <5>4. \A j \in 1 .. Len(ss[k]) : f[m + 2][e[k - 1] + j] = ss[k][j]
          BY <5>1, <3>1, <3>3, Zenon
        <5> QED
          BY <5>3, <5>4, Zenon
      <4>2. CASE k # m + 2
        <5>1. k \in 1 .. m + 1 /\ k \in 1 .. n
          BY <4>2, <1>0
        <5>2. /\ e[k - 1] \in Nat /\ e[k - 1] + Len(ss[k]) <= e[m + 1]
              /\ \A j \in 1 .. Len(ss[k]) : a[e[k - 1] + j] = ss[k][j]
          BY <5>1
        <5>3. Len(ss[k]) \in Nat
          BY <5>1, <1>0
        <5>4. Len(a) \in Nat /\ e[m + 1] = Len(a) /\ e[m + 2] = Len(a) + Len(b) /\ Len(b) \in Nat
          BY <3>3, <3>4
        <5> DEFINE x == e[k - 1]
                   y == Len(ss[k])
                   z == Len(a)
        <5>5. x \in Nat /\ y \in Nat /\ z \in Nat /\ x + y <= z
          BY <5>2, <5>3, <5>4, Zenon
        <5> HIDE DEF a, b, e
        <5>6. /\ \A j \in 1 .. Len(ss[k]) : e[k - 1] + j \in 1 .. Len(a)
              /\ e[k - 1] + Len(ss[k]) <= e[m + 2]
          <6> HIDE DEF x, y, z
          <6>1. (\A j \in 1 .. y : x + j \in 1 .. z) /\ \A w \in Nat : x + y <= z + w
            BY <5>5
          <6> QED
            BY <6>1, <5>4, Zenon DEF x, y, z
        <5>7. ASSUME NEW j \in 1 .. Len(ss[k]) PROVE f[m + 2][e[k - 1] + j] = ss[k][j]
          <6>1. (a \o b)[e[k - 1] + j] = a[e[k - 1] + j]
            BY <5>6, <3>3, Zenon
          <6>2. a[e[k - 1] + j] = ss[k][j]
            BY <5>2, Zenon
          <6> QED
            BY <6>1, <6>2, <3>1, Zenon
        <5> QED
          BY <5>2, <5>6, <5>7, Zenon
      <4> QED
        BY <4>1, <4>2
    <3>6. e[(m + 2) - 1] = e[m + 1]
      <4>1. (m + 2) - 1 = m + 1
        OBVIOUS
      <4> HIDE DEF e
      <4> QED
        BY <4>1
    <3>7. e[m + 2] = e[(m + 2) - 1] + Len(ss[m + 2]) /\ e[m + 2] \in Nat /\ e[(m + 2) - 1] \in Nat
      <4> HIDE DEF a, e
      <4> QED
        BY <3>3, <3>4, <3>6
    <3>8. f[m + 2] \in Seq(X)
      BY <3>1, <3>3, Zenon
    <3> HIDE DEF e
    <3> QED
      BY <3>5, <3>7, <3>8, Zenon
  <2>4. S = Nat
    <3>1. S \subseteq Nat
      OBVIOUS
    <3> HIDE DEF S
    <3> QED
      BY <2>2, <2>3, <3>1, SetInduction
  <2>5. ASSUME NEW k \in 1 .. n PROVE Good(k)
    <3>1. k - 1 \in Nat /\ (k - 1) + 1 = k /\ k <= n
      BY <1>0
    <3> HIDE DEF Good
    <3>2. k - 1 + 1 <= n => Good(k - 1 + 1)
      BY <2>4, <3>1
    <3> QED
      BY <3>1, <3>2
  <2>6. e \in [0 .. n -> Nat] /\ e[0] = 0
    <3>1. \A k \in 0 .. n : e[k] \in Nat
      <4> TAKE k \in 0 .. n
      <4>1. CASE k = 0
        BY <4>1
      <4>2. CASE k # 0
        <5>1. k \in 1 .. n
          BY <4>2, <1>0
        <5> QED
          BY <5>1, <2>5
      <4> QED
        BY <4>1, <4>2
    <3>2. e[0] = 0
      BY <1>0
    <3>3. e \in [0 .. n -> Nat]
      <4>1. e = [k \in 0 .. n |-> e[k]]
        OBVIOUS
      <4> HIDE DEF e
      <4> QED
        BY <3>1, <4>1
    <3> QED
      BY <3>2, <3>3
  <2>7. n \in 1 .. n
    BY <1>0, <1>2
  <2>8. e[n] = Len(f[n])
    BY <1>0, <1>2
  <2>9. Good(n)
    <3> HIDE DEF Good
    <3> QED
      BY <2>5, <2>7
  <2>10. ASSUME NEW k \in 1 .. n
         PROVE  /\ e[k] = e[k - 1] + Len(ss[k]) /\ e[k] <= e[n]
                /\ \A j \in 1 .. Len(ss[k]) : FlattenSeq(ss)[e[k - 1] + j] = ss[k][j]
    <3>1. e[k] = e[k - 1] + Len(ss[k])
      BY <2>5
    <3> HIDE DEF e
    <3> QED
      BY <2>1, <2>9, <3>1
  <2> HIDE DEF e
  <2>11. Laid(ss, e)
    BY <2>1, <2>6, <2>8, <2>10 DEF Laid
  <2>12. FlattenSeq(ss) \in Seq(X)
    BY <2>1, <2>9
  <2> QED
    BY <2>11, <2>12
<1> QED
  BY <1>1, <1>2

LEMMA Times ==
  /\ \A k, c \in Nat : k * c \in Nat /\ (k + 1) * c = k * c + c
  /\ \A k, l, c \in Nat : k <= l => k * c <= l * c
<1>1. \A k, c \in Nat : k * c \in Nat /\ (k + 1) * c = k * c + c
  OBVIOUS
<1>2. ASSUME NEW k \in Nat, NEW l \in Nat, NEW c \in Nat, k <= l
      PROVE  k * c <= l * c
  <2>1. l - k \in Nat /\ l = k + (l - k)
    BY <1>2
  <2>2. \A d \in Nat : (k + d) * c = k * c + d * c /\ d * c \in Nat
    OBVIOUS
  <2>3. l * c = k * c + (l - k) * c /\ (l - k) * c \in Nat
    BY <2>1, <2>2
  <2> QED
    BY <2>3, <1>1
<1> QED
  BY <1>1, <1>2

\* A position among n pieces of c elements.
LEMMA PieceOf ==
  ASSUME NEW n \in Nat, NEW c \in Nat \ {0}, NEW p \in Nat, p < n * c
  PROVE  p \div c \in 0 .. n - 1 /\ p % c \in 0 .. c - 1 /\ p = (p \div c) * c + (p % c)
<1>1. p % c \in 0 .. c - 1 /\ p \div c \in Int /\ p = c * (p \div c) + (p % c)
  OBVIOUS
<1>2. p \div c >= 0
  BY <1>1
<1>3. p = (p \div c) * c + (p % c)
  BY <1>1
<1>4. ASSUME n <= p \div c PROVE FALSE
  <2>1. n * c <= (p \div c) * c
    BY <1>1, <1>2, <1>4, Times
  <2>2. (p \div c) * c \in Nat /\ n * c \in Nat
    BY <1>1, <1>2, Times
  <2> DEFINE x == (p \div c) * c
             y == n * c
             r == p % c
  <2>3. y <= x /\ x \in Nat /\ y \in Nat /\ p = x + r /\ r \in Nat /\ p < y
    BY <1>1, <1>3, <2>1, <2>2
  <2> HIDE DEF x, y, r
  <2> QED
    BY <2>3
<1> QED
  BY <1>1, <1>2, <1>3, <1>4

\* Pieces of the same size.
LEMMA FlattenEqual ==
  ASSUME NEW X, NEW ss \in Seq(Seq(X)), NEW c \in Nat \ {0},
         \A k \in 1 .. Len(ss) : Len(ss[k]) = c
  PROVE  /\ FlattenSeq(ss) \in Seq(X) /\ Len(FlattenSeq(ss)) = Len(ss) * c
         /\ \A k \in 0 .. Len(ss) - 1 : \A j \in 1 .. c : FlattenSeq(ss)[k * c + j] = ss[k + 1][j]
<1> DEFINE n == Len(ss)
<1>0. n \in Nat
  OBVIOUS
<1>1. FlattenSeq(ss) \in Seq(X)
  BY FlattenPieces
<1>2. PICK e : Laid(ss, e)
  BY FlattenPieces
<1> DEFINE S == {k \in Nat : k <= n => e[k] = k * c}
<1>3. 0 \in S
  BY <1>0, <1>2 DEF Laid
<1>4. ASSUME NEW k \in S PROVE k + 1 \in S
  <2> SUFFICES ASSUME k \in Nat, k + 1 <= n PROVE e[k + 1] = (k + 1) * c
    OBVIOUS
  <2>1. e[k] = k * c
    BY <1>0
  <2>2. k + 1 \in 1 .. n /\ (k + 1) - 1 = k
    BY <1>0
  <2>3. e[k + 1] = e[(k + 1) - 1] + Len(ss[k + 1])
    BY <1>2, <2>2 DEF Laid
  <2>4. e[k + 1] = k * c + c
    BY <2>1, <2>2, <2>3
  <2> QED
    BY <2>4, Times
<1>5. S = Nat
  <2>1. S \subseteq Nat
    OBVIOUS
  <2> HIDE DEF S
  <2> QED
    BY <1>3, <1>4, <2>1, SetInduction
<1>6. Len(FlattenSeq(ss)) = n * c
  <2>1. e[n] = n * c
    BY <1>0, <1>5
  <2> QED
    BY <1>2, <2>1 DEF Laid
<1>7. ASSUME NEW k \in 0 .. n - 1, NEW j \in 1 .. c
      PROVE  FlattenSeq(ss)[k * c + j] = ss[k + 1][j]
  <2>1. k + 1 \in 1 .. n /\ (k + 1) - 1 = k /\ k \in Nat /\ k <= n
    BY <1>0
  <2>2. e[k] = k * c
    BY <1>5, <2>1
  <2>3. FlattenSeq(ss)[e[(k + 1) - 1] + j] = ss[k + 1][j]
    BY <1>2, <2>1 DEF Laid
  <2> QED
    BY <2>1, <2>2, <2>3
<1> QED
  BY <1>1, <1>6, <1>7

\* One piece more.
LEMMA FlattenAppend ==
  ASSUME NEW X, NEW ss \in Seq(Seq(X)), NEW s \in Seq(X)
  PROVE  FlattenSeq(Append(ss, s)) = FlattenSeq(ss) \o s
<1> DEFINE n == Len(ss)
           tt == Append(ss, s)
           F == FlattenSeq(ss)
           G == FlattenSeq(tt)
<1>0. /\ n \in Nat /\ Len(s) \in Nat /\ tt \in Seq(Seq(X)) /\ Len(tt) = n + 1 /\ tt[n + 1] = s
      /\ \A k \in 1 .. n : tt[k] = ss[k] /\ Len(ss[k]) \in Nat
  OBVIOUS
<1>1. F \in Seq(X) /\ G \in Seq(X)
  BY <1>0, FlattenPieces
<1>2. PICK e : Laid(ss, e)
  BY FlattenPieces
<1>3. PICK g : Laid(tt, g)
  BY <1>0, FlattenPieces
<1> HIDE DEF tt
<1>4. /\ e \in [0 .. n -> Nat] /\ e[0] = 0 /\ Len(F) = e[n]
      /\ \A k \in 1 .. n : e[k] = e[k - 1] + Len(ss[k])
      /\ \A k \in 1 .. n : \A j \in 1 .. Len(ss[k]) : F[e[k - 1] + j] = ss[k][j]
  BY <1>2 DEF Laid
<1>5. /\ g \in [0 .. n + 1 -> Nat] /\ g[0] = 0 /\ Len(G) = g[n + 1]
      /\ \A k \in 1 .. n + 1 : g[k] = g[k - 1] + Len(tt[k])
      /\ \A k \in 1 .. n + 1 : \A j \in 1 .. Len(tt[k]) : G[g[k - 1] + j] = tt[k][j]
  BY <1>0, <1>3 DEF Laid
<1> HIDE DEF F, G
<1> DEFINE S == {k \in Nat : k <= n => g[k] = e[k] /\ \A i \in 1 .. e[k] : G[i] = F[i]}
<1>6. 0 \in S
  BY <1>0, <1>4, <1>5
<1>7. ASSUME NEW k \in S PROVE k + 1 \in S
  <2> SUFFICES ASSUME k \in Nat, k + 1 <= n
               PROVE  g[k + 1] = e[k + 1] /\ \A i \in 1 .. e[k + 1] : G[i] = F[i]
    OBVIOUS
  <2>1. k + 1 \in 1 .. n /\ k + 1 \in 1 .. n + 1 /\ (k + 1) - 1 = k /\ k \in 0 .. n
    BY <1>0
  <2>2. g[k] = e[k] /\ \A i \in 1 .. e[k] : G[i] = F[i]
    BY <2>1
  <2>3. tt[k + 1] = ss[k + 1] /\ Len(ss[k + 1]) \in Nat /\ e[k] \in Nat
    BY <1>0, <1>4, <2>1
  <2>4. e[k + 1] = e[k] + Len(ss[k + 1]) /\ g[k + 1] = e[k] + Len(ss[k + 1])
    BY <1>4, <1>5, <2>1, <2>2, <2>3
  <2>5. ASSUME NEW j \in 1 .. Len(ss[k + 1]) PROVE G[e[k] + j] = F[e[k] + j]
    <3>1. F[e[(k + 1) - 1] + j] = ss[k + 1][j]
      BY <1>4, <2>1
    <3>2. G[g[(k + 1) - 1] + j] = tt[k + 1][j]
      BY <1>5, <2>1, <2>3
    <3> QED
      BY <3>1, <3>2, <2>1, <2>2, <2>3
  <2>6. ASSUME NEW i \in 1 .. e[k + 1] PROVE G[i] = F[i]
    <3>1. CASE i <= e[k]
      BY <2>2, <2>3, <2>4, <3>1
    <3>2. CASE ~ (i <= e[k])
      <4>1. i - e[k] \in 1 .. Len(ss[k + 1]) /\ e[k] + (i - e[k]) = i
        BY <2>3, <2>4, <3>2
      <4> QED
        BY <2>5, <4>1
    <3> QED
      BY <3>1, <3>2
  <2> QED
    BY <2>4, <2>6
<1>8. S = Nat
  <2>1. S \subseteq Nat
    OBVIOUS
  <2> HIDE DEF S
  <2> QED
    BY <1>6, <1>7, <2>1, SetInduction
<1>9. g[n] = e[n] /\ (\A i \in 1 .. e[n] : G[i] = F[i]) /\ e[n] \in Nat
  <2>1. n \in S /\ n <= n /\ n \in 0 .. n
    BY <1>0, <1>8
  <2> QED
    BY <1>4, <2>1
<1>10. Len(G) = Len(F) + Len(s) /\ \A j \in 1 .. Len(s) : G[Len(F) + j] = s[j]
  <2>1. n + 1 \in 1 .. n + 1 /\ (n + 1) - 1 = n
    BY <1>0
  <2>2. g[n + 1] = g[n] + Len(s)
    BY <1>0, <1>5, <2>1
  <2>3. ASSUME NEW j \in 1 .. Len(s) PROVE G[Len(F) + j] = s[j]
    <3>1. G[g[(n + 1) - 1] + j] = tt[n + 1][j]
      BY <1>0, <1>5, <2>1
    <3> QED
      BY <1>0, <1>4, <1>9, <2>1, <3>1
  <2> QED
    BY <1>4, <1>5, <1>9, <2>2, <2>3
<1>11. /\ F \o s \in Seq(X) /\ Len(F \o s) = Len(F) + Len(s)
       /\ \A i \in 1 .. Len(F) : (F \o s)[i] = F[i]
       /\ \A j \in 1 .. Len(s) : (F \o s)[Len(F) + j] = s[j]
  BY <1>1
<1>12. ASSUME NEW i \in 1 .. Len(F) + Len(s) PROVE G[i] = (F \o s)[i]
  <2>0. Len(F) \in Nat
    BY <1>1
  <2>1. CASE i <= Len(F)
    <3>1. i \in 1 .. Len(F)
      BY <2>0, <2>1
    <3> QED
      BY <3>1, <1>4, <1>9, <1>11
  <2>2. CASE ~ (i <= Len(F))
    <3>1. i - Len(F) \in 1 .. Len(s) /\ Len(F) + (i - Len(F)) = i
      BY <1>0, <2>0, <2>2
    <3> QED
      BY <3>1, <1>10, <1>11
  <2> QED
    BY <2>1, <2>2
<1>13. G = F \o s
  <2>1. F \o s \in Seq(X) /\ Len(G) = Len(F \o s)
    BY <1>10, <1>11
  <2>2. \A i \in 1 .. Len(G) : G[i] = (F \o s)[i]
    BY <1>10, <1>12
  <2> QED
    BY <1>1, <2>1, <2>2, SeqEqual
<1> QED
  BY <1>13 DEF F, G, tt
=============================================================================
