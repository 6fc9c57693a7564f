------------------------------ MODULE Counting ------------------------------
(***************************************************************************)
(* Facts about numbers, sums and sizes of finite sets that the proofs of   *)
(* the components share. Induction goes by the least counterexample: a set *)
(* of naturals that is not empty has a least member.                       *)
(***************************************************************************)
EXTENDS FiniteSetTheorems, WellFoundedInduction, TLAPS

\* A set of naturals that is not empty has a least member.
LEMMA LeastNat ==
    ASSUME NEW S \in SUBSET Nat, S # {}
    PROVE  \E x \in S : \A y \in S : x <= y
<1>1. \E x \in S : \A y \in S : ~ (<<y, x>> \in OpToRel(<, Nat))
  BY WFMin, NatLessThanWellFounded
<1>2. PICK x \in S : \A y \in S : ~ (<<y, x>> \in OpToRel(<, Nat))
  BY <1>1
<1>3. \A y \in S : ~ (y < x)
  BY <1>2 DEF OpToRel
<1> QED BY <1>3

\* A set of naturals with 0 that has with each number the next one has all.
LEMMA AllNat ==
    ASSUME NEW S, 0 \in S, \A n \in Nat : n \in S => n + 1 \in S
    PROVE  Nat \subseteq S
<1> DEFINE bad == {n \in Nat : n \notin S}
<1>1. ASSUME bad # {} PROVE FALSE
  <2>1. PICK x \in bad : \A y \in bad : x <= y
    BY <1>1, LeastNat
  <2>2. x \in Nat /\ x # 0
    BY <2>1
  <2>3. x - 1 \in Nat /\ x - 1 \notin bad
    BY <2>1, <2>2
  <2>4. x \in S
    BY <2>2, <2>3
  <2> QED BY <2>1, <2>4
<1> QED BY <1>1

\* A multiple of more is not less.
LEMMA TimesMonotone ==
    ASSUME NEW k \in Nat, NEW a \in Nat, NEW b \in Nat, a <= b
    PROVE  k * a <= k * b
<1>1. PICK c \in Nat : b = a + c
  <2>1. b - a \in Nat /\ b = a + (b - a)
    OBVIOUS
  <2> QED BY <2>1
<1>2. k * b = k * a + k * c /\ k * c \in Nat /\ k * a \in Nat
  BY <1>1
<1> QED BY <1>2

-----------------------------------------------------------------------------
(* Sums over a finite set *)

First(S) == CHOOSE x \in S : TRUE

\* The recursion that the sum of the values of f over S goes by, on the subsets
\* of S in D.
Sums(g, f, D) == g = [s \in D |-> IF s = {} THEN 0 ELSE f[First(s)] + g[s \ {First(s)}]]

\* The subsets with no more than n elements.
UpTo(S, n) == {s \in SUBSET S : Cardinality(s) <= n}

\* Taking the first element of a set out of it leaves one element less.
LEMMA FirstRemoved ==
    ASSUME NEW S, IsFiniteSet(S), S # {}
    PROVE  /\ First(S) \in S
           /\ IsFiniteSet(S \ {First(S)}) /\ Cardinality(S) \in Nat
           /\ Cardinality(S \ {First(S)}) = Cardinality(S) - 1
BY FS_RemoveElement, FS_CardinalityType DEF First

\* There is a function that obeys it.
LEMMA SumsExist ==
    ASSUME NEW f, NEW S, IsFiniteSet(S)
    PROVE  \E g : Sums(g, f, SUBSET S)
<1> DEFINE ok == {n \in Nat : \E g : Sums(g, f, UpTo(S, n))}
<1>0. \A s \in SUBSET S : IsFiniteSet(s) /\ Cardinality(s) \in Nat
  BY FS_Subset, FS_CardinalityType
<1>1. 0 \in ok
  <2> DEFINE g == [s \in UpTo(S, 0) |-> 0]
  <2>1. \A s \in UpTo(S, 0) : s = {}
    BY <1>0, FS_EmptySet DEF UpTo
  <2>2. Sums(g, f, UpTo(S, 0))
    BY <2>1 DEF Sums
  <2> QED BY <2>2
<1>2. ASSUME NEW n \in Nat, n \in ok PROVE n + 1 \in ok
  <2>1. PICK g : Sums(g, f, UpTo(S, n))
    BY <1>2
  <2> DEFINE h == [s \in UpTo(S, n + 1) |->
                      IF s = {} THEN 0 ELSE f[First(s)] + g[s \ {First(s)}]]
  <2>2. ASSUME NEW s \in UpTo(S, n + 1), s # {}
        PROVE  s \ {First(s)} \in UpTo(S, n)
    BY <1>0, <2>2, FirstRemoved DEF UpTo
  <2>3. \A s \in UpTo(S, n) : s \in UpTo(S, n + 1)
    BY <1>0 DEF UpTo
  <2>4. \A s \in UpTo(S, n) : h[s] = g[s]
    BY <2>1, <2>3 DEF Sums
  <2>5. h = [s \in UpTo(S, n + 1) |->
                IF s = {} THEN 0 ELSE f[First(s)] + h[s \ {First(s)}]]
    <3> HIDE DEF h
    <3>1. \A s \in UpTo(S, n + 1) : s # {} => h[s \ {First(s)}] = g[s \ {First(s)}]
      BY <2>2, <2>4
    <3> QED BY <3>1 DEF h
  <2>6. Sums(h, f, UpTo(S, n + 1))
    BY <2>5 DEF Sums
  <2> QED BY <2>6
<1>3. Nat \subseteq ok
  <2> HIDE DEF ok
  <2> QED BY <1>1, <1>2, AllNat
<1>4. UpTo(S, Cardinality(S)) = SUBSET S
  BY <1>0, FS_Subset DEF UpTo
<1>5. Cardinality(S) \in ok
  BY <1>0, <1>3
<1> QED BY <1>4, <1>5

\* The sum of the values of f over a finite set is what the recursion gives.
LEMMA SumUnfolds ==
    ASSUME NEW f, NEW S, IsFiniteSet(S)
    PROVE  \E g : Sums(g, f, SUBSET S) /\ SumFunctionOnSet(f, S) = g[S]
<1> DEFINE g == CHOOSE iter : iter = [s \in SUBSET S |->
                    IF s = {} THEN 0
                    ELSE f[CHOOSE x \in s : TRUE] + iter[s \ {CHOOSE x \in s : TRUE}]]
<1>1. SumFunctionOnSet(f, S) = g[S]
  BY DEF SumFunctionOnSet, FoldFunctionOnSet, MapThenFoldSet
<1>2. \E iter : iter = [s \in SUBSET S |->
                    IF s = {} THEN 0
                    ELSE f[CHOOSE x \in s : TRUE] + iter[s \ {CHOOSE x \in s : TRUE}]]
  <2>1. PICK iter : Sums(iter, f, SUBSET S)
    BY SumsExist
  <2> QED BY <2>1 DEF Sums, First
<1>3. Sums(g, f, SUBSET S)
  BY <1>2 DEF Sums, First
<1> QED BY <1>1, <1>3

\* Functions that obey it on a set and on a subset agree on that.
LEMMA SumsAgree ==
    ASSUME NEW f, NEW S, IsFiniteSet(S), NEW T \in SUBSET S, NEW g, NEW h,
           Sums(g, f, SUBSET S), Sums(h, f, SUBSET T)
    PROVE  g[T] = h[T]
<1> DEFINE ok == {n \in Nat : \A s \in UpTo(T, n) : g[s] = h[s]}
<1>0. \A s \in SUBSET T : s \in SUBSET S /\ IsFiniteSet(s) /\ Cardinality(s) \in Nat
  BY FS_Subset, FS_CardinalityType
<1>1. 0 \in ok
  <2>1. \A s \in UpTo(T, 0) : s = {}
    BY <1>0, FS_EmptySet DEF UpTo
  <2>2. g[{}] = h[{}]
    BY DEF Sums
  <2> QED BY <2>1, <2>2
<1>2. ASSUME NEW n \in Nat, n \in ok PROVE n + 1 \in ok
  <2> SUFFICES ASSUME NEW s \in UpTo(T, n + 1) PROVE g[s] = h[s]
    OBVIOUS
  <2>1. s \in SUBSET T /\ s \in SUBSET S
    BY <1>0 DEF UpTo
  <2>2. CASE s = {}
    BY <2>1, <2>2 DEF Sums
  <2>3. CASE s # {}
    <3>1. s \ {First(s)} \in UpTo(T, n)
      BY <1>0, <2>3, FirstRemoved DEF UpTo
    <3>2. g[s \ {First(s)}] = h[s \ {First(s)}]
      BY <1>2, <3>1
    <3> QED BY <2>1, <2>3, <3>2 DEF Sums
  <2> QED BY <2>2, <2>3
<1>3. Nat \subseteq ok
  <2> HIDE DEF ok
  <2> QED BY <1>1, <1>2, AllNat
<1>4. T \in UpTo(T, Cardinality(T)) /\ Cardinality(T) \in Nat
  BY <1>0 DEF UpTo
<1> QED BY <1>3, <1>4

\* The sum of no values is 0.
LEMMA SumEmpty == ASSUME NEW f PROVE SumFunctionOnSet(f, {}) = 0
<1>1. PICK g : Sums(g, f, SUBSET {}) /\ SumFunctionOnSet(f, {}) = g[{}]
  BY SumUnfolds, FS_EmptySet
<1> QED BY <1>1 DEF Sums

\* The sum is the first value and the sum of the others.
LEMMA SumFirst ==
    ASSUME NEW f, NEW S, IsFiniteSet(S), S # {}
    PROVE  SumFunctionOnSet(f, S) = f[First(S)] + SumFunctionOnSet(f, S \ {First(S)})
<1> DEFINE T == S \ {First(S)}
<1>1. IsFiniteSet(T) /\ T \in SUBSET S
  BY FirstRemoved
<1> HIDE DEF T
<1>2. PICK g : Sums(g, f, SUBSET S) /\ SumFunctionOnSet(f, S) = g[S]
  BY SumUnfolds
<1>3. PICK h : Sums(h, f, SUBSET T) /\ SumFunctionOnSet(f, T) = h[T]
  BY <1>1, SumUnfolds
<1>4. g[T] = h[T]
  BY <1>1, <1>2, <1>3, SumsAgree
<1>5. g[S] = f[First(S)] + g[T]
  BY <1>2 DEF Sums, T
<1> QED BY <1>2, <1>3, <1>4, <1>5 DEF T

\* Any element can be taken first.
LEMMA SumTake ==
    ASSUME NEW f, NEW S, IsFiniteSet(S), \A x \in S : f[x] \in Int
    PROVE  /\ SumFunctionOnSet(f, S) \in Int
           /\ \A x \in S : SumFunctionOnSet(f, S) = f[x] + SumFunctionOnSet(f, S \ {x})
<1> DEFINE P(T) == /\ SumFunctionOnSet(f, T) \in Int
                   /\ \A x \in T : SumFunctionOnSet(f, T) = f[x] + SumFunctionOnSet(f, T \ {x})
           ok == {n \in Nat : \A T \in UpTo(S, n) : P(T)}
<1>0. \A T \in SUBSET S : IsFiniteSet(T) /\ Cardinality(T) \in Nat
  BY FS_Subset, FS_CardinalityType
<1>1. 0 \in ok
  <2>1. \A T \in UpTo(S, 0) : T = {}
    BY <1>0, FS_EmptySet DEF UpTo
  <2>2. P({})
    BY SumEmpty
  <2> QED BY <2>1, <2>2
<1>2. ASSUME NEW n \in Nat, n \in ok PROVE n + 1 \in ok
  <2> SUFFICES ASSUME NEW T \in UpTo(S, n + 1) PROVE P(T)
    OBVIOUS
  <2>1. T \in SUBSET S /\ IsFiniteSet(T)
    BY <1>0 DEF UpTo
  <2>2. CASE T = {}
    BY <2>2, SumEmpty
  <2>3. CASE T # {}
    <3> DEFINE a == First(T)
    <3>1. a \in T /\ f[a] \in Int
      BY <2>1, <2>3, FirstRemoved
    <3>2. SumFunctionOnSet(f, T) = f[a] + SumFunctionOnSet(f, T \ {a})
      BY <2>1, <2>3, SumFirst
    <3> HIDE DEF a
    <3>3. ASSUME NEW x \in T PROVE T \ {x} \in UpTo(S, n)
      <4>1. Cardinality(T \ {x}) = Cardinality(T) - 1 /\ Cardinality(T) <= n + 1
            /\ Cardinality(T) \in Nat
        BY <1>0, <2>1, FS_RemoveElement DEF UpTo
      <4> QED BY <2>1, <4>1 DEF UpTo
    <3>4. ASSUME NEW x \in T PROVE P(T \ {x})
      BY <1>2, <3>3
    <3>5. SumFunctionOnSet(f, T) \in Int
      BY <3>1, <3>2, <3>4
    <3>6. ASSUME NEW x \in T, x # a
          PROVE  SumFunctionOnSet(f, T) = f[x] + SumFunctionOnSet(f, T \ {x})
      <4> DEFINE ax == (T \ {a}) \ {x}
                 xa == (T \ {x}) \ {a}
      <4>1. SumFunctionOnSet(f, T \ {a}) = f[x] + SumFunctionOnSet(f, ax)
        BY <3>4, <3>1, <3>6
      <4>2. SumFunctionOnSet(f, T \ {x}) = f[a] + SumFunctionOnSet(f, xa)
        BY <3>4, <3>1, <3>6
      <4>3. ax = xa /\ f[x] \in Int
        BY <2>1
      <4>4. xa = (T \ {x}) \ {a} /\ xa \in UpTo(S, n)
        <5>1. T \ {x} \in UpTo(S, n) /\ a \in T \ {x}
          BY <3>1, <3>3, <3>6
        <5>2. IsFiniteSet(T \ {x}) /\ Cardinality(T \ {x}) <= n /\ T \ {x} \in SUBSET S
          BY <1>0, <5>1 DEF UpTo
        <5>3. Cardinality(xa) <= Cardinality(T \ {x}) /\ Cardinality(xa) \in Nat
              /\ Cardinality(T \ {x}) \in Nat
          BY <1>0, <5>2, FS_Subset
        <5> QED BY <5>2, <5>3 DEF UpTo
      <4>5. SumFunctionOnSet(f, xa) \in Int
        BY <1>2, <4>4
      <4> HIDE DEF ax, xa
      <4> QED BY <3>1, <3>2, <4>1, <4>2, <4>3, <4>5
    <3> QED BY <3>2, <3>5, <3>6
  <2> QED BY <2>2, <2>3
<1>3. Nat \subseteq ok
  <2> HIDE DEF ok
  <2> QED BY <1>1, <1>2, AllNat
<1>4. S \in UpTo(S, Cardinality(S)) /\ Cardinality(S) \in Nat
  BY <1>0 DEF UpTo
<1>5. P(S)
  <2>1. Cardinality(S) \in ok
    BY <1>3, <1>4
  <2> QED BY <1>4, <2>1
<1> QED BY <1>5

\* One more value.
LEMMA SumAdd ==
    ASSUME NEW f, NEW S, IsFiniteSet(S), NEW x, x \notin S,
           \A y \in S \union {x} : f[y] \in Int
    PROVE  SumFunctionOnSet(f, S \union {x}) = SumFunctionOnSet(f, S) + f[x]
<1> DEFINE T == S \union {x}
<1>1. IsFiniteSet(T) /\ x \in T /\ T \ {x} = S
  BY FS_AddElement
<1> HIDE DEF T
<1>2. \A y \in T : f[y] \in Int
  BY DEF T
<1>3. SumFunctionOnSet(f, T) = f[x] + SumFunctionOnSet(f, T \ {x})
  BY <1>1, <1>2, SumTake
<1>4. SumFunctionOnSet(f, S) \in Int /\ f[x] \in Int
  BY <1>1, <1>2, SumTake DEF T
<1>5. SumFunctionOnSet(f, T) = f[x] + SumFunctionOnSet(f, S)
  BY <1>1, <1>3, Zenon
<1>6. SumFunctionOnSet(f, T) = SumFunctionOnSet(f, S) + f[x]
  BY <1>4, <1>5
<1> QED BY <1>6 DEF T

\* Values that are not less have no smaller sum.
LEMMA SumMonotone ==
    ASSUME NEW f, NEW g, NEW S, IsFiniteSet(S),
           \A x \in S : f[x] \in Int /\ g[x] \in Int /\ f[x] <= g[x]
    PROVE  SumFunctionOnSet(f, S) <= SumFunctionOnSet(g, S)
<1> DEFINE P(T) == SumFunctionOnSet(f, T) <= SumFunctionOnSet(g, T)
           ok == {n \in Nat : \A T \in UpTo(S, n) : P(T)}
<1>0. \A T \in SUBSET S : IsFiniteSet(T) /\ Cardinality(T) \in Nat
  BY FS_Subset, FS_CardinalityType
<1>1. 0 \in ok
  <2>1. \A T \in UpTo(S, 0) : T = {}
    BY <1>0, FS_EmptySet DEF UpTo
  <2>2. P({})
    <3>1. SumFunctionOnSet(f, {}) = 0 /\ SumFunctionOnSet(g, {}) = 0
      BY SumEmpty
    <3> QED BY <3>1
  <2> QED BY <2>1, <2>2
<1>2. ASSUME NEW n \in Nat, n \in ok PROVE n + 1 \in ok
  <2> SUFFICES ASSUME NEW T \in UpTo(S, n + 1) PROVE P(T)
    OBVIOUS
  <2>1. T \in SUBSET S /\ IsFiniteSet(T)
    BY <1>0 DEF UpTo
  <2>2. CASE T = {}
    <3>1. SumFunctionOnSet(f, {}) = 0 /\ SumFunctionOnSet(g, {}) = 0
      BY SumEmpty
    <3> QED BY <2>2, <3>1
  <2>3. CASE T # {}
    <3>1. PICK x \in T : TRUE
      BY <2>3
    <3>2. T \ {x} \in UpTo(S, n) /\ IsFiniteSet(T \ {x})
      <4>1. Cardinality(T \ {x}) = Cardinality(T) - 1 /\ Cardinality(T) <= n + 1
            /\ Cardinality(T) \in Nat
        BY <1>0, <2>1, FS_RemoveElement DEF UpTo
      <4> QED BY <1>0, <2>1, <4>1 DEF UpTo
    <3>3. P(T \ {x})
      BY <1>2, <3>2
    <3>4. /\ SumFunctionOnSet(f, T) = f[x] + SumFunctionOnSet(f, T \ {x})
          /\ SumFunctionOnSet(g, T) = g[x] + SumFunctionOnSet(g, T \ {x})
      BY <2>1, <3>1, SumTake
    <3>5. SumFunctionOnSet(f, T \ {x}) \in Int /\ SumFunctionOnSet(g, T \ {x}) \in Int
      BY <2>1, <3>2, SumTake
    <3>6. f[x] \in Int /\ g[x] \in Int /\ f[x] <= g[x]
      BY <2>1, <3>1
    <3> QED BY <3>3, <3>4, <3>5, <3>6
  <2> QED BY <2>2, <2>3
<1>3. Nat \subseteq ok
  <2> HIDE DEF ok
  <2> QED BY <1>1, <1>2, AllNat
<1>4. S \in UpTo(S, Cardinality(S)) /\ Cardinality(S) \in Nat
  BY <1>0 DEF UpTo
<1> QED BY <1>3, <1>4

\* Where all values are the same the sum counts them.
LEMMA SumConstant ==
    ASSUME NEW f, NEW S, IsFiniteSet(S), NEW k \in Int, \A x \in S : f[x] = k
    PROVE  SumFunctionOnSet(f, S) = k * Cardinality(S)
<1> DEFINE P(T) == SumFunctionOnSet(f, T) = k * Cardinality(T)
           ok == {n \in Nat : \A T \in UpTo(S, n) : P(T)}
<1>0. \A T \in SUBSET S : IsFiniteSet(T) /\ Cardinality(T) \in Nat
  BY FS_Subset, FS_CardinalityType
<1>1. P({})
  <2>1. SumFunctionOnSet(f, {}) = 0
    BY SumEmpty
  <2>2. Cardinality({}) = 0
    BY FS_EmptySet
  <2> QED BY <2>1, <2>2
<1>2. 0 \in ok
  <2>1. \A T \in UpTo(S, 0) : T = {}
    BY <1>0, FS_EmptySet DEF UpTo
  <2> QED BY <1>1, <2>1
<1>3. ASSUME NEW n \in Nat, n \in ok PROVE n + 1 \in ok
  <2> SUFFICES ASSUME NEW T \in UpTo(S, n + 1) PROVE P(T)
    OBVIOUS
  <2>1. T \in SUBSET S /\ IsFiniteSet(T)
    BY <1>0 DEF UpTo
  <2>2. CASE T = {}
    BY <1>1, <2>2
  <2>3. CASE T # {}
    <3>1. PICK x \in T : TRUE
      BY <2>3
    <3>2. /\ Cardinality(T \ {x}) = Cardinality(T) - 1 /\ Cardinality(T) <= n + 1
          /\ Cardinality(T) \in Nat
      BY <1>0, <2>1, FS_RemoveElement DEF UpTo
    <3>3. T \ {x} \in UpTo(S, n)
      BY <2>1, <3>2 DEF UpTo
    <3>4. P(T \ {x})
      BY <1>3, <3>3
    <3>5. SumFunctionOnSet(f, T) = f[x] + SumFunctionOnSet(f, T \ {x}) /\ f[x] = k
      BY <2>1, <3>1, SumTake
    <3>6. SumFunctionOnSet(f, T) = k + k * (Cardinality(T) - 1)
      BY <3>2, <3>4, <3>5
    <3> QED BY <3>2, <3>6
  <2> QED BY <2>2, <2>3
<1>4. Nat \subseteq ok
  <2> HIDE DEF ok
  <2> QED BY <1>2, <1>3, AllNat
<1>5. S \in UpTo(S, Cardinality(S)) /\ Cardinality(S) \in Nat
  BY <1>0 DEF UpTo
<1> QED BY <1>4, <1>5

\* More naturals have no smaller sum.
LEMMA SumOfMore ==
    ASSUME NEW f, NEW S, IsFiniteSet(S), \A x \in S : f[x] \in Nat, NEW T \in SUBSET S
    PROVE  SumFunctionOnSet(f, T) <= SumFunctionOnSet(f, S)
<1> DEFINE P(U) == SumFunctionOnSet(f, S \ U) <= SumFunctionOnSet(f, S)
           ok == {n \in Nat : \A U \in UpTo(S, n) : P(U)}
<1>0. \A U \in SUBSET S : IsFiniteSet(U) /\ Cardinality(U) \in Nat
  BY FS_Subset, FS_CardinalityType
<1>1. P({})
  <2>1. S \ {} = S /\ SumFunctionOnSet(f, S) \in Int
    BY SumTake
  <2> QED BY <2>1
<1>2. 0 \in ok
  <2>1. \A U \in UpTo(S, 0) : U = {}
    BY <1>0, FS_EmptySet DEF UpTo
  <2> QED BY <1>1, <2>1
<1>3. ASSUME NEW n \in Nat, n \in ok PROVE n + 1 \in ok
  <2> SUFFICES ASSUME NEW U \in UpTo(S, n + 1), U # {} PROVE P(U)
    <3>1. ASSUME NEW U \in UpTo(S, n + 1), U = {} PROVE P(U)
      BY <1>1, <3>1
    <3> QED BY <3>1
  <2>1. U \in SUBSET S /\ IsFiniteSet(U)
    BY <1>0 DEF UpTo
  <2>2. PICK x \in U : TRUE
    OBVIOUS
  <2> DEFINE V == U \ {x}
  <2>3. V \in UpTo(S, n)
    <3>1. /\ Cardinality(V) = Cardinality(U) - 1 /\ Cardinality(U) <= n + 1
          /\ Cardinality(U) \in Nat
      BY <1>0, <2>1, <2>2, FS_RemoveElement DEF UpTo
    <3> QED BY <2>1, <3>1 DEF UpTo
  <2>4. P(V)
    BY <1>3, <2>3
  <2> DEFINE R == S \ V
  <2>5. R \in SUBSET S /\ x \in R /\ IsFiniteSet(R) /\ S \ U = R \ {x}
    BY <1>0, <2>1, <2>2
  <2>6. SumFunctionOnSet(f, R) <= SumFunctionOnSet(f, S)
    BY <2>4
  <2> HIDE DEF R, V
  <2>7. SumFunctionOnSet(f, R) = f[x] + SumFunctionOnSet(f, R \ {x}) /\ f[x] \in Nat
    BY <2>5, SumTake
  <2>8. /\ SumFunctionOnSet(f, R) \in Int /\ SumFunctionOnSet(f, S) \in Int
        /\ SumFunctionOnSet(f, R \ {x}) \in Int
    <3>1. IsFiniteSet(R \ {x}) /\ R \ {x} \in SUBSET S
      BY <1>0, <2>5
    <3> QED BY <2>5, <3>1, SumTake
  <2>9. SumFunctionOnSet(f, R \ {x}) <= SumFunctionOnSet(f, S)
    BY <2>6, <2>7, <2>8
  <2> QED BY <2>5, <2>9
<1>4. Nat \subseteq ok
  <2> HIDE DEF ok
  <2> QED BY <1>2, <1>3, AllNat
<1>5. S \ T \in UpTo(S, Cardinality(S \ T)) /\ Cardinality(S \ T) \in Nat /\ S \ (S \ T) = T
  BY <1>0 DEF UpTo
<1>6. P(S \ T)
  BY <1>4, <1>5
<1> QED BY <1>5, <1>6

\* Naturals of which those in T are not 0 add up to no less than T counts.
LEMMA SumCounts ==
    ASSUME NEW f, NEW S, IsFiniteSet(S), \A x \in S : f[x] \in Nat,
           NEW T \in SUBSET S, \A x \in T : f[x] >= 1
    PROVE  Cardinality(T) <= SumFunctionOnSet(f, S)
<1> DEFINE one == [x \in T |-> 1]
<1>1. IsFiniteSet(T) /\ Cardinality(T) \in Nat
  BY FS_Subset, FS_CardinalityType
<1>2. \A x \in T : one[x] = 1 /\ one[x] \in Int /\ f[x] \in Int /\ one[x] <= f[x]
  OBVIOUS
<1> HIDE DEF one
<1>3. SumFunctionOnSet(one, T) = 1 * Cardinality(T)
  BY <1>1, <1>2, SumConstant
<1>4. SumFunctionOnSet(one, T) <= SumFunctionOnSet(f, T)
  BY <1>1, <1>2, SumMonotone
<1>5. SumFunctionOnSet(f, T) <= SumFunctionOnSet(f, S)
  BY SumOfMore
<1>6. SumFunctionOnSet(f, T) \in Int /\ SumFunctionOnSet(f, S) \in Int
  BY <1>1, <1>2, SumTake
<1> QED BY <1>1, <1>3, <1>4, <1>5, <1>6
=============================================================================
