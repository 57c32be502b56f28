---------------------------- MODULE Sums_proofs -----------------------------
(***************************************************************************)
(* Lemmas about the sum of a function over a finite set, as the community  *)
(* modules define it (SumFunction): the models count lamports and tokens   *)
(* with it.  Induction is over sets of numbers and sets of sets.           *)
(***************************************************************************)
EXTENDS Functions, Integers, FiniteSets, FiniteSetTheorems, WellFoundedInduction, TLAPS

-----------------------------------------------------------------------------
(* Induction                                                               *)

\* A non-empty set of natural numbers has a least one.
LEMMA Least ==
  ASSUME NEW T \in SUBSET Nat, T # {}
  PROVE  \E n \in T : \A m \in T : n <= m
<1>1. PICK n \in T : \A m \in T : <<m, n>> \notin OpToRel(<, Nat)
  BY WFMin, NatLessThanWellFounded
<1>2. \A m \in T : ~(m < n)
  BY <1>1 DEF OpToRel
<1>3. \A i, j \in Nat : ~(j < i) => i <= j
  OBVIOUS
<1> QED BY <1>2, <1>3

\* A set that has 0 and with each number the next has them all.
LEMMA Induction ==
  ASSUME NEW Good, 0 \in Good, \A n \in Nat : n \in Good => n + 1 \in Good
  PROVE  \A n \in Nat : n \in Good
<1> DEFINE Bad == {n \in Nat : n \notin Good}
<1>1. SUFFICES ASSUME Bad # {} PROVE FALSE
  OBVIOUS
<1>2. PICK n \in Bad : \A m \in Bad : n <= m
  BY <1>1, Least
<1>3. n \in Nat /\ n # 0
  OBVIOUS
<1>4. n - 1 \in Nat /\ ~(n <= n - 1) /\ (n - 1) + 1 = n
  BY <1>3
<1>5. n - 1 \in Good
  BY <1>2, <1>4
<1> QED BY <1>4, <1>5

\* A set that has a subset of S whenever it has every smaller one has them all.
LEMMA SubsetInduction ==
  ASSUME NEW S, IsFiniteSet(S), NEW Good,
         \A s \in SUBSET S : (\A y \in s : s \ {y} \in Good) => s \in Good
  PROVE  \A s \in SUBSET S : s \in Good
<1> DEFINE Sized == {n \in Nat : \A s \in SUBSET S : Cardinality(s) <= n => s \in Good}
<1>1. ASSUME NEW s \in SUBSET S
      PROVE  /\ IsFiniteSet(s) /\ Cardinality(s) \in Nat
             /\ Cardinality(s) = 0 => s = {}
             /\ \A y \in s : s \ {y} \in SUBSET S /\ Cardinality(s \ {y}) = Cardinality(s) - 1
  <2>1. IsFiniteSet(s)
    BY FS_Subset
  <2> QED BY <2>1, FS_CardinalityType, FS_EmptySet, FS_RemoveElement
<1>2. 0 \in Sized
  <2>1. ASSUME NEW s \in SUBSET S, Cardinality(s) <= 0 PROVE s \in Good
    <3>1. s = {}
      BY <1>1, <2>1
    <3> QED BY <3>1
  <2> QED BY <2>1
<1>3. ASSUME NEW n \in Nat, n \in Sized PROVE n + 1 \in Sized
  <2>1. ASSUME NEW s \in SUBSET S, Cardinality(s) <= n + 1 PROVE s \in Good
    <3>1. ASSUME NEW y \in s PROVE s \ {y} \in Good
      <4>1. /\ s \ {y} \in SUBSET S /\ Cardinality(s \ {y}) = Cardinality(s) - 1
            /\ Cardinality(s) \in Nat
        BY <1>1
      <4>2. Cardinality(s \ {y}) <= n
        BY <2>1, <4>1
      <4> QED BY <1>3, <4>1, <4>2
    <3> QED BY <3>1
  <2>2. n + 1 \in Nat
    OBVIOUS
  <2> QED BY <2>1, <2>2
<1> HIDE DEF Sized
<1>4. \A n \in Nat : n \in Sized
  BY <1>2, <1>3, Induction
<1> USE DEF Sized
<1>5. ASSUME NEW s \in SUBSET S PROVE s \in Good
  <2>1. Cardinality(s) \in Nat /\ Cardinality(s) <= Cardinality(s)
    BY <1>1
  <2> QED BY <1>4, <2>1
<1> QED BY <1>5

-----------------------------------------------------------------------------
(* The sums over subsets                                                   *)

\* The element the fold takes next.
Next1(s) == CHOOSE x \in s : TRUE

\* The recursive function the fold defines.
Sums(g, f, S) ==
  g = [s \in SUBSET S |-> IF s = {} THEN 0 ELSE f[Next1(s)] + g[s \ {Next1(s)}]]

PartialSums(f, S) == CHOOSE g : Sums(g, f, S)

\* The sum is the last of the partial sums.
LEMMA SumIs ==
  ASSUME NEW f
  PROVE  SumFunction(f) = PartialSums(f, DOMAIN f)[DOMAIN f]
BY DEF SumFunction, SumFunctionOnSet, FoldFunctionOnSet, MapThenFoldSet, PartialSums, Sums, Next1

\* The partial sums over a finite set exist.
LEMMA SumsExist ==
  ASSUME NEW S, IsFiniteSet(S), NEW f
  PROVE  Sums(PartialSums(f, S), f, S)
<1> DEFINE Upto(n, g) ==
      \A s \in SUBSET S : Cardinality(s) <= n =>
        g[s] = IF s = {} THEN 0 ELSE f[Next1(s)] + g[s \ {Next1(s)}]
           Good == {n \in Nat : \E g : Upto(n, g)}
<1>1. ASSUME NEW s \in SUBSET S
      PROVE  /\ Cardinality(s) \in Nat /\ Cardinality(s) <= Cardinality(S)
             /\ Cardinality(s) = 0 => s = {}
             /\ s # {} => /\ s \ {Next1(s)} \in SUBSET S
                          /\ Cardinality(s \ {Next1(s)}) = Cardinality(s) - 1
  <2>1. IsFiniteSet(s) /\ Cardinality(s) <= Cardinality(S)
    BY FS_Subset
  <2>2. s # {} => Next1(s) \in s
    BY DEF Next1
  <2> QED BY <2>1, <2>2, FS_CardinalityType, FS_EmptySet, FS_RemoveElement
<1>2. 0 \in Good
  <2>1. ASSUME NEW s \in SUBSET S, Cardinality(s) <= 0 PROVE s = {}
    <3>1. Cardinality(s) \in Nat /\ (Cardinality(s) = 0 => s = {})
      BY <1>1
    <3> HIDE DEF Good, Upto
    <3>2. Cardinality(s) = 0
      BY <2>1, <3>1
    <3> QED BY <3>1, <3>2
  <2>2. Upto(0, [s \in SUBSET S |-> 0])
    BY <2>1
  <2> QED BY <2>2
<1>3. ASSUME NEW n \in Nat, n \in Good PROVE n + 1 \in Good
  <2>1. PICK g : Upto(n, g)
    BY <1>3
  <2> DEFINE h == [s \in SUBSET S |->
                     IF Cardinality(s) <= n THEN g[s]
                     ELSE f[Next1(s)] + g[s \ {Next1(s)}]]
  <2>2. ASSUME NEW s \in SUBSET S, Cardinality(s) <= n + 1
        PROVE  h[s] = IF s = {} THEN 0 ELSE f[Next1(s)] + h[s \ {Next1(s)}]
    <3> DEFINE r == s \ {Next1(s)}
    <3>1. s # {} => r \in SUBSET S /\ Cardinality(r) <= n
      <4>1. s # {} => /\ r \in SUBSET S /\ Cardinality(r) = Cardinality(s) - 1
                      /\ Cardinality(s) \in Nat
        BY <1>1
      <4> HIDE DEF r
      <4> QED BY <2>2, <4>1
    <3>2. s # {} => h[r] = g[r]
      BY <3>1
    <3>3. s = {} => Cardinality(s) <= n
      BY FS_EmptySet
    <3>4. Cardinality(s) <= n => g[s] = IF s = {} THEN 0 ELSE f[Next1(s)] + g[r]
      BY <2>1
    <3>5. h[s] = IF Cardinality(s) <= n THEN g[s] ELSE f[Next1(s)] + g[r]
      OBVIOUS
    <3> HIDE DEF h, r
    <3>6. h[s] = IF s = {} THEN 0 ELSE f[Next1(s)] + h[r]
      BY <3>2, <3>3, <3>4, <3>5
    <3> QED BY <3>6 DEF r
  <2> HIDE DEF h
  <2>3. Upto(n + 1, h)
    BY <2>2
  <2>4. n + 1 \in Nat
    OBVIOUS
  <2> QED BY <2>3, <2>4
<1> HIDE DEF Good
<1>4. \A n \in Nat : n \in Good
  BY <1>2, <1>3, Induction
<1>5. Cardinality(S) \in Nat
  BY FS_CardinalityType
<1>6. PICK g : Upto(Cardinality(S), g)
  BY <1>4, <1>5 DEF Good
<1> DEFINE h == [s \in SUBSET S |-> g[s]]
<1>7. ASSUME NEW s \in SUBSET S
      PROVE  h[s] = IF s = {} THEN 0 ELSE f[Next1(s)] + h[s \ {Next1(s)}]
  <2>1. Cardinality(s) <= Cardinality(S) /\ s \ {Next1(s)} \in SUBSET S
    BY <1>1
  <2>2. g[s] = IF s = {} THEN 0 ELSE f[Next1(s)] + g[s \ {Next1(s)}]
    BY <1>6, <2>1
  <2> QED BY <2>1, <2>2
<1>8. Sums(h, f, S)
  <2>1. h = [s \in SUBSET S |-> h[s]]
    OBVIOUS
  <2> HIDE DEF h
  <2> QED BY <1>7, <2>1 DEF Sums
<1> QED BY <1>8 DEF PartialSums

\* The partial sum over the empty set is zero.
LEMMA SumEmpty ==
  ASSUME NEW S, IsFiniteSet(S), NEW f
  PROVE  PartialSums(f, S)[{}] = 0
<1> DEFINE g == PartialSums(f, S)
<1>1. g = [t \in SUBSET S |-> IF t = {} THEN 0 ELSE f[Next1(t)] + g[t \ {Next1(t)}]]
  BY SumsExist DEF Sums
<1> HIDE DEF g
<1>2. g[{}] = 0
  BY <1>1
<1> QED BY <1>2 DEF g

\* The partial sum over a set adds an element to the one over the rest.
LEMMA Unfold ==
  ASSUME NEW S, IsFiniteSet(S), NEW f
  PROVE  \A s \in SUBSET S : s # {} =>
           /\ Next1(s) \in s
           /\ PartialSums(f, S)[s] = f[Next1(s)] + PartialSums(f, S)[s \ {Next1(s)}]
<1> DEFINE g == PartialSums(f, S)
<1>1. g = [t \in SUBSET S |-> IF t = {} THEN 0 ELSE f[Next1(t)] + g[t \ {Next1(t)}]]
  BY SumsExist DEF Sums
<1> HIDE DEF g
<1>2. ASSUME NEW s \in SUBSET S, s # {}
      PROVE  Next1(s) \in s /\ g[s] = f[Next1(s)] + g[s \ {Next1(s)}]
  <2>1. Next1(s) \in s
    BY <1>2 DEF Next1
  <2>2. g[s] = f[Next1(s)] + g[s \ {Next1(s)}]
    BY <1>1, <1>2
  <2> QED BY <2>1, <2>2
<1> QED BY <1>2 DEF g

\* Partial sums of integers are integers.
LEMMA PartialType ==
  ASSUME NEW S, IsFiniteSet(S), NEW f \in [S -> Int]
  PROVE  \A s \in SUBSET S : PartialSums(f, S)[s] \in Int
<1> DEFINE F == PartialSums(f, S)
           Good == {s \in SUBSET S : F[s] \in Int}
<1>1. \A s \in SUBSET S : s # {} =>
        Next1(s) \in s /\ F[s] = f[Next1(s)] + F[s \ {Next1(s)}]
  BY Unfold
<1>2. F[{}] = 0
  BY SumEmpty
<1> HIDE DEF F
<1>3. ASSUME NEW s \in SUBSET S, \A y \in s : s \ {y} \in Good PROVE s \in Good
  <2>1. CASE s = {}
    BY <1>2, <2>1
  <2>2. CASE s # {}
    <3>1. Next1(s) \in s /\ F[s] = f[Next1(s)] + F[s \ {Next1(s)}]
      BY <1>1, <2>2
    <3>2. f[Next1(s)] \in Int /\ F[s \ {Next1(s)}] \in Int
      BY <1>3, <3>1
    <3>3. \A a, c \in Int : a + c \in Int
      OBVIOUS
    <3>4. F[s] \in Int
      BY <3>1, <3>2, <3>3
    <3> QED BY <3>4
  <2> QED BY <2>1, <2>2
<1> HIDE DEF Good
<1>4. \A s \in SUBSET S : s \in Good
  BY <1>3, SubsetInduction
<1> QED BY <1>4 DEF Good, F

\* Any element can be the one the partial sum adds.
LEMMA RemoveOne ==
  ASSUME NEW S, IsFiniteSet(S), NEW f \in [S -> Int]
  PROVE  \A s \in SUBSET S : \A y \in s :
           PartialSums(f, S)[s] = f[y] + PartialSums(f, S)[s \ {y}]
<1> DEFINE F == PartialSums(f, S)
           Good == {s \in SUBSET S : \A y \in s : F[s] = f[y] + F[s \ {y}]}
<1>1. \A s \in SUBSET S : F[s] \in Int
  BY PartialType
<1>2. \A s \in SUBSET S : s # {} =>
        Next1(s) \in s /\ F[s] = f[Next1(s)] + F[s \ {Next1(s)}]
  BY Unfold
<1> HIDE DEF F
<1>3. ASSUME NEW s \in SUBSET S, \A y \in s : s \ {y} \in Good PROVE s \in Good
  <2>1. ASSUME NEW y \in s PROVE F[s] = f[y] + F[s \ {y}]
    <3> DEFINE x == Next1(s)
               r == s \ {x}
               q == s \ {y}
               t == r \ {y}
    <3>1. x \in s /\ F[s] = f[x] + F[r]
      BY <1>2
    <3> HIDE DEF x
    <3>2. CASE x = y
      BY <3>1, <3>2
    <3>3. CASE x # y
      <4>1. y \in r /\ x \in q /\ t = q \ {x}
        BY <3>1, <3>3
      <4>2. r \in Good /\ q \in Good
        BY <1>3, <3>1
      <4>3. F[r] = f[y] + F[t] /\ F[q] = f[x] + F[t]
        BY <4>1, <4>2
      <4>4. f[x] \in Int /\ f[y] \in Int /\ F[t] \in Int
        BY <1>1, <3>1
      <4> HIDE DEF r, q, t
      <4>5. \A a, b, c \in Int : a + (b + c) = b + (a + c)
        OBVIOUS
      <4>6. F[s] = f[y] + F[q]
        BY <3>1, <4>3, <4>4, <4>5
      <4> QED BY <4>6 DEF q
    <3> QED BY <3>2, <3>3
  <2> QED BY <2>1
<1> HIDE DEF Good
<1>4. \A s \in SUBSET S : s \in Good
  BY <1>3, SubsetInduction
<1> QED BY <1>4 DEF Good, F

\* Functions that agree on a set have the same partial sum over it.
LEMMA Agree ==
  ASSUME NEW S, IsFiniteSet(S), NEW T, IsFiniteSet(T),
         NEW f \in [S -> Int], NEW g \in [T -> Int],
         NEW U, U \subseteq S, U \subseteq T, \A x \in U : f[x] = g[x]
  PROVE  PartialSums(f, S)[U] = PartialSums(g, T)[U]
<1> DEFINE F == PartialSums(f, S)
           G == PartialSums(g, T)
           Good == {s \in SUBSET U : F[s] = G[s]}
<1>1. IsFiniteSet(U)
  BY FS_Subset
<1>2. \A s \in SUBSET S : s # {} =>
        Next1(s) \in s /\ F[s] = f[Next1(s)] + F[s \ {Next1(s)}]
  BY Unfold
<1>3. \A s \in SUBSET T : s # {} =>
        Next1(s) \in s /\ G[s] = g[Next1(s)] + G[s \ {Next1(s)}]
  BY Unfold
<1>4. F[{}] = 0 /\ G[{}] = 0
  BY SumEmpty
<1> HIDE DEF F, G
<1>5. ASSUME NEW s \in SUBSET U, \A y \in s : s \ {y} \in Good PROVE s \in Good
  <2>1. CASE s = {}
    BY <1>4, <2>1
  <2>2. CASE s # {}
    <3>1. s \in SUBSET S /\ s \in SUBSET T
      OBVIOUS
    <3>2. Next1(s) \in s /\ F[s] = f[Next1(s)] + F[s \ {Next1(s)}]
      BY <1>2, <2>2, <3>1
    <3>3. G[s] = g[Next1(s)] + G[s \ {Next1(s)}]
      BY <1>3, <2>2, <3>1
    <3>4. f[Next1(s)] = g[Next1(s)] /\ F[s \ {Next1(s)}] = G[s \ {Next1(s)}]
      BY <1>5, <3>2
    <3> QED BY <3>2, <3>3, <3>4
  <2> QED BY <2>1, <2>2
<1> HIDE DEF Good
<1>6. \A s \in SUBSET U : s \in Good
  BY <1>1, <1>5, SubsetInduction
<1>7. U \in Good
  BY <1>6
<1> QED BY <1>7 DEF Good, F, G

\* The sum is the value at any one element and the partial sum over the others.
LEMMA SumSplit ==
  ASSUME NEW S, IsFiniteSet(S), NEW f \in [S -> Int], NEW x \in S
  PROVE  SumFunction(f) = f[x] + PartialSums(f, S)[S \ {x}]
<1>1. DOMAIN f = S /\ S \in SUBSET S
  OBVIOUS
<1>2. SumFunction(f) = PartialSums(f, S)[S]
  BY <1>1, SumIs
<1>3. \A s \in SUBSET S : \A y \in s :
        PartialSums(f, S)[s] = f[y] + PartialSums(f, S)[s \ {y}]
  BY RemoveOne
<1> QED BY <1>1, <1>2, <1>3

-----------------------------------------------------------------------------
(* The sum of a function                                                   *)

\* A sum of integers is an integer.
LEMMA SumType ==
  ASSUME NEW S, IsFiniteSet(S), NEW f \in [S -> Int]
  PROVE  SumFunction(f) \in Int
<1>1. DOMAIN f = S
  OBVIOUS
<1> QED BY <1>1, SumIs, PartialType

\* Sums of functions that differ at one element differ as the values there.
LEMMA SumDiffer ==
  ASSUME NEW S, IsFiniteSet(S), NEW f \in [S -> Int], NEW g \in [S -> Int],
         NEW x \in S, \A y \in S \ {x} : g[y] = f[y]
  PROVE  SumFunction(g) = (SumFunction(f) - f[x]) + g[x]
<1> DEFINE R == S \ {x}
<1>1. SumFunction(f) = f[x] + PartialSums(f, S)[R]
  BY SumSplit
<1>2. SumFunction(g) = g[x] + PartialSums(g, S)[R]
  BY SumSplit
<1>3. PartialSums(f, S)[R] = PartialSums(g, S)[R]
  BY Agree
<1>4. f[x] \in Int /\ g[x] \in Int /\ PartialSums(f, S)[R] \in Int
  BY PartialType
<1> HIDE DEF R
<1>5. \A a, b, c \in Int : a + c = ((b + c) - b) + a
  OBVIOUS
<1> QED BY <1>1, <1>2, <1>3, <1>4, <1>5

\* Changing one value changes the sum by the difference.
LEMMA SumPoint ==
  ASSUME NEW S, IsFiniteSet(S), NEW f \in [S -> Int], NEW x \in S, NEW v \in Int
  PROVE  SumFunction([f EXCEPT ![x] = v]) = (SumFunction(f) - f[x]) + v
<1> DEFINE g == [f EXCEPT ![x] = v]
<1>1. g \in [S -> Int] /\ g[x] = v /\ \A y \in S \ {x} : g[y] = f[y]
  OBVIOUS
<1> HIDE DEF g
<1>2. SumFunction(g) = (SumFunction(f) - f[x]) + g[x]
  BY <1>1, SumDiffer
<1> QED BY <1>1, <1>2 DEF g

\* A new element adds its value.
LEMMA SumNew ==
  ASSUME NEW S, IsFiniteSet(S), NEW f \in [S -> Int], NEW x, x \notin S,
         NEW g \in [S \cup {x} -> Int], \A y \in S : g[y] = f[y]
  PROVE  SumFunction(g) = SumFunction(f) + g[x]
<1> DEFINE T == S \cup {x}
<1>1. IsFiniteSet(T)
  BY FS_AddElement
<1>2. DOMAIN f = S /\ T \ {x} = S /\ x \in T
  OBVIOUS
<1>3. g \in [T -> Int] /\ S \subseteq T
  OBVIOUS
<1> HIDE DEF T
<1>4. SumFunction(g) = g[x] + PartialSums(g, T)[S]
  <2>1. SumFunction(g) = g[x] + PartialSums(g, T)[T \ {x}]
    BY <1>1, <1>2, <1>3, SumSplit
  <2> QED BY <1>2, <2>1
<1>5. PartialSums(g, T)[S] = PartialSums(f, S)[S]
  BY <1>1, <1>3, Agree
<1>6. SumFunction(f) = PartialSums(f, S)[S] /\ PartialSums(f, S)[S] \in Int /\ g[x] \in Int
  BY <1>2, <1>3, SumIs, PartialType
<1>7. \A a, b \in Int : a + b = b + a
  OBVIOUS
<1> QED BY <1>4, <1>5, <1>6, <1>7
=============================================================================
