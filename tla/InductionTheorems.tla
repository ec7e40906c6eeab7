-------------------------- MODULE InductionTheorems --------------------------
(****************************************************************************)
(* Sums over finite sets, functions defined by recursion on the naturals,   *)
(* and the inductions behind them, in the forms the other proofs use.  The  *)
(* induction principles of the library take an operator; here a property is *)
(* given by the set of its counterexamples, and the principle is that such  *)
(* a set, if it is not empty, has a smallest element.                       *)
(****************************************************************************)
EXTENDS Integers, FiniteSets, Functions, FiniteSetTheorems, WellFoundedInduction, TLAPS

-----------------------------------------------------------------------------
(* Smallest counterexamples.                                                *)

\* Every nonempty set of natural numbers has a least element.
LEMMA LeastNatural ==
    ASSUME NEW S \in SUBSET Nat, S # {}
    PROVE  \E n \in S : \A m \in S : n <= m
<1>1. PICK n \in S : \A m \in S : ~ (<<m, n>> \in OpToRel(<, Nat))
  BY NatLessThanWellFounded, WFMin
<1>2. \A m \in S : ~ (m < n)
  BY <1>1 DEF OpToRel
<1> QED
  BY <1>2

\* Every nonempty set of subsets of a finite set has a minimal element.
LEMMA MinimalSubset ==
    ASSUME NEW S, IsFiniteSet(S), NEW X \in SUBSET (SUBSET S), X # {}
    PROVE  \E s \in X : \A t \in X : t \subseteq s => t = s
<1>1. X \subseteq FiniteSubsetsOf(S)
  BY FS_FiniteSubsetsOfFinite
<1>2. PICK s \in X : \A t \in X : ~ (<<t, s>> \in StrictSubsetOrdering(S))
  BY <1>1, FS_StrictSubsetOrderingWellFounded, WFMin
<1> QED
  BY <1>2 DEF StrictSubsetOrdering

-----------------------------------------------------------------------------
(* Sums.                                                                    *)

Pick(s) == CHOOSE x \in s : TRUE

\* The equation of the recursive function behind the folds.
IsSum(g, f, X) ==
    \A s \in X : g[s] = IF s = {} THEN 0 ELSE f[Pick(s)] + g[s \ {Pick(s)}]

LEMMA PickIn == ASSUME NEW s, s # {} PROVE Pick(s) \in s
BY DEF Pick

\* The subsets with at most n elements.
UpTo(S, n) == {s \in SUBSET S : Cardinality(s) <= n}

LEMMA UpToSmaller ==
    ASSUME NEW S, IsFiniteSet(S), NEW n \in Nat, NEW s \in UpTo(S, n + 1), s # {}
    PROVE  s \ {Pick(s)} \in UpTo(S, n)
<1>1. IsFiniteSet(s) /\ Cardinality(s) \in Nat /\ Cardinality(s) <= n + 1
  BY FS_Subset, FS_CardinalityType DEF UpTo
<1>2. Cardinality(s \ {Pick(s)}) = Cardinality(s) - 1
  BY <1>1, PickIn, FS_RemoveElement
<1> QED
  BY <1>1, <1>2 DEF UpTo

LEMMA SumExistsUpTo ==
    ASSUME NEW S, IsFiniteSet(S), NEW f, \A x \in S : f[x] \in Int
    PROVE  \A n \in Nat : \E g \in [UpTo(S, n) -> Int] : IsSum(g, f, UpTo(S, n))
<1> DEFINE Bad == {n \in Nat : ~ \E g \in [UpTo(S, n) -> Int] : IsSum(g, f, UpTo(S, n))}
<1> SUFFICES ASSUME Bad # {} PROVE FALSE
  OBVIOUS
<1>1. PICK n \in Bad : \A m \in Bad : n <= m
  BY LeastNatural
<1>2. CASE n = 0
  <2>1. UpTo(S, 0) = {{}}
    <3>1. ASSUME NEW s \in UpTo(S, 0) PROVE s = {}
      BY FS_Subset, FS_CardinalityType, FS_EmptySet DEF UpTo
    <3>2. {} \in UpTo(S, 0)
      BY FS_EmptySet DEF UpTo
    <3> QED BY <3>1, <3>2
  <2> DEFINE g == [s \in UpTo(S, 0) |-> 0]
  <2>2. g \in [UpTo(S, 0) -> Int] /\ IsSum(g, f, UpTo(S, 0))
    BY <2>1 DEF IsSum
  <2> QED BY <1>2, <2>2
<1>3. CASE n > 0
  <2>1. n - 1 \in Nat /\ n - 1 \notin Bad
    BY <1>1, <1>3
  <2>2. PICK h \in [UpTo(S, n - 1) -> Int] : IsSum(h, f, UpTo(S, n - 1))
    BY <2>1
  <2> DEFINE g == [s \in UpTo(S, n) |->
                      IF s = {} THEN 0 ELSE f[Pick(s)] + h[s \ {Pick(s)}]]
  <2>3. ASSUME NEW s \in UpTo(S, n), s # {}
        PROVE  /\ s \ {Pick(s)} \in UpTo(S, n - 1)
               /\ s \ {Pick(s)} \in UpTo(S, n)
               /\ f[Pick(s)] \in Int
    <3>1. n - 1 + 1 = n
      BY <2>1
    <3>2. s \ {Pick(s)} \in UpTo(S, n - 1)
      BY <2>1, <2>3, <3>1, UpToSmaller
    <3>3. Cardinality(s \ {Pick(s)}) \in Nat
      BY <3>2, FS_Subset, FS_CardinalityType DEF UpTo
    <3>4. Pick(s) \in S
      BY <2>3, PickIn DEF UpTo
    <3> QED BY <2>1, <3>2, <3>3, <3>4 DEF UpTo
  <2>4. g \in [UpTo(S, n) -> Int]
    BY <2>2, <2>3
  <2>5. \A s \in UpTo(S, n - 1) : s \in UpTo(S, n) => g[s] = h[s]
    BY <2>2 DEF IsSum
  <2>6. IsSum(g, f, UpTo(S, n))
    BY <2>3, <2>5 DEF IsSum
  <2> QED BY <2>4, <2>6
<1> QED
  BY <1>2, <1>3

LEMMA SumExists ==
    ASSUME NEW S, IsFiniteSet(S), NEW f, \A x \in S : f[x] \in Int
    PROVE  \E g \in [SUBSET S -> Int] : IsSum(g, f, SUBSET S)
<1>1. Cardinality(S) \in Nat
  BY FS_CardinalityType
<1>2. UpTo(S, Cardinality(S)) = SUBSET S
  BY FS_Subset DEF UpTo
<1>3. \A n \in Nat : \E g \in [UpTo(S, n) -> Int] : IsSum(g, f, UpTo(S, n))
  BY SumExistsUpTo
<1> QED
  BY <1>1, <1>2, <1>3

\* There is no other function that satisfies the equation.
LEMMA SumUnique ==
    ASSUME NEW S, IsFiniteSet(S), NEW f, NEW g, NEW h, NEW X \in SUBSET (SUBSET S),
           \A s \in X : SUBSET s \subseteq X,
           IsSum(g, f, X), IsSum(h, f, X)
    PROVE  \A s \in X : g[s] = h[s]
<1> DEFINE Bad == {s \in X : g[s] # h[s]}
<1> SUFFICES ASSUME Bad # {} PROVE FALSE
  OBVIOUS
<1>0. Bad \in SUBSET (SUBSET S)
  OBVIOUS
<1> HIDE DEF Bad
<1>1. PICK s \in Bad : \A t \in Bad : t \subseteq s => t = s
  BY <1>0, MinimalSubset
<1> USE DEF Bad
<1>2. s # {}
  BY <1>1 DEF IsSum
<1>3. s \ {Pick(s)} \in X /\ s \ {Pick(s)} \notin Bad
  BY <1>1, <1>2, PickIn
<1> QED
  BY <1>1, <1>2, <1>3 DEF IsSum

\* What SumFunctionOnSet stands for.
Sums(f, S) == CHOOSE g \in [SUBSET S -> Int] : IsSum(g, f, SUBSET S)

LEMMA SumDefined ==
    ASSUME NEW S, IsFiniteSet(S), NEW f, \A x \in S : f[x] \in Int
    PROVE  /\ Sums(f, S) \in [SUBSET S -> Int]
           /\ IsSum(Sums(f, S), f, SUBSET S)
           /\ \A T \in SUBSET S : SumFunctionOnSet(f, T) = Sums(f, S)[T]
<1> DEFINE g == Sums(f, S)
<1>1. g \in [SUBSET S -> Int] /\ IsSum(g, f, SUBSET S)
  BY SumExists DEF Sums
<1> HIDE DEF g
<1>2. ASSUME NEW T \in SUBSET S PROVE SumFunctionOnSet(f, T) = g[T]
  <2> DEFINE Equation(h) ==
               h = [s \in SUBSET T |-> IF s = {} THEN 0
                                       ELSE LET x == CHOOSE x \in s : TRUE
                                            IN  f[x] + h[s \ {x}]]
             iter == CHOOSE h : Equation(h)
  <2>1. SumFunctionOnSet(f, T) = iter[T]
    BY DEF SumFunctionOnSet, FoldFunctionOnSet, MapThenFoldSet
  <2> DEFINE here == [s \in SUBSET T |-> g[s]]
  <2>2. Equation(here)
    BY <1>1 DEF IsSum, Pick
  <2>3. Equation(iter)
    BY <2>2
  <2> HIDE DEF iter
  <2>4. IsSum(iter, f, SUBSET T)
    BY <2>3 DEF IsSum, Pick
  <2>5. IsSum(g, f, SUBSET T)
    BY <1>1 DEF IsSum
  <2>6. IsFiniteSet(T)
    BY FS_Subset
  <2>7. iter[T] = g[T]
    BY <2>4, <2>5, <2>6, SumUnique
  <2> QED BY <2>1, <2>7
<1> QED
  BY <1>1, <1>2 DEF g

LEMMA SumEmpty == ASSUME NEW f PROVE SumFunctionOnSet(f, {}) = 0
<1>1. IsFiniteSet({})
  BY FS_EmptySet
<1>2. /\ IsSum(Sums(f, {}), f, SUBSET {})
      /\ \A T \in SUBSET {} : SumFunctionOnSet(f, T) = Sums(f, {})[T]
  BY <1>1, SumDefined
<1> QED
  BY <1>2 DEF IsSum

LEMMA SumInt ==
    ASSUME NEW S, IsFiniteSet(S), NEW f, \A x \in S : f[x] \in Int
    PROVE  SumFunctionOnSet(f, S) \in Int
<1>1. /\ Sums(f, S) \in [SUBSET S -> Int]
      /\ SumFunctionOnSet(f, S) = Sums(f, S)[S]
  BY SumDefined
<1> QED
  BY <1>1

\* Any element may be taken out first.
LEMMA SumTakeOut ==
    ASSUME NEW S, IsFiniteSet(S), NEW f, \A x \in S : f[x] \in Int
    PROVE  \A T \in SUBSET S : \A x \in T :
               SumFunctionOnSet(f, T) = f[x] + SumFunctionOnSet(f, T \ {x})
<1> DEFINE g == Sums(f, S)
<1>1. /\ g \in [SUBSET S -> Int] /\ IsSum(g, f, SUBSET S)
      /\ \A T \in SUBSET S : SumFunctionOnSet(f, T) = g[T]
  BY SumDefined
<1> HIDE DEF g
<1> DEFINE Bad == {T \in SUBSET S : \E x \in T : g[T] # f[x] + g[T \ {x}]}
<1>2. ASSUME Bad # {} PROVE FALSE
  <2>0. Bad \in SUBSET (SUBSET S)
    OBVIOUS
  <2> HIDE DEF Bad
  <2>1. PICK T \in Bad : \A U \in Bad : U \subseteq T => U = T
    BY <1>2, <2>0, MinimalSubset
  <2> USE DEF Bad
  <2>2. PICK x \in T : g[T] # f[x] + g[T \ {x}]
    BY <2>1
  <2> DEFINE y == Pick(T)
  <2>3. y \in T /\ g[T] = f[y] + g[T \ {y}]
    BY <1>1, <2>2, PickIn DEF IsSum
  <2> HIDE DEF y
  <2>4. x # y
    BY <2>2, <2>3
  <2>5. T \ {x} \notin Bad /\ T \ {y} \notin Bad
    BY <2>1, <2>2, <2>3
  <2>6. g[T \ {y}] = f[x] + g[(T \ {y}) \ {x}]
    BY <2>2, <2>4, <2>5
  <2>7. g[T \ {x}] = f[y] + g[(T \ {x}) \ {y}]
    BY <2>3, <2>4, <2>5
  <2>8. (T \ {y}) \ {x} = (T \ {x}) \ {y}
    OBVIOUS
  <2>9. f[x] \in Int /\ f[y] \in Int /\ g[(T \ {x}) \ {y}] \in Int
    BY <1>1, <2>2, <2>3
  <2> HIDE DEF Bad
  <2>10. f[x] + (f[y] + g[(T \ {x}) \ {y}]) = f[y] + (f[x] + g[(T \ {x}) \ {y}])
    BY <2>9
  <2> QED BY <2>2, <2>3, <2>6, <2>7, <2>8, <2>10
<1>3. \A T \in SUBSET S : \A x \in T : g[T] = f[x] + g[T \ {x}]
  BY <1>2
<1>4. ASSUME NEW T \in SUBSET S, NEW x \in T PROVE T \ {x} \in SUBSET S
  OBVIOUS
<1> QED
  BY <1>1, <1>3, <1>4

\* Sums over a set and its parts.
LEMMA SumUnion ==
    ASSUME NEW S, IsFiniteSet(S), NEW f, \A x \in S : f[x] \in Int,
           NEW A \in SUBSET S
    PROVE  \A B \in SUBSET S : A \cap B = {} =>
               SumFunctionOnSet(f, A \cup B) = SumFunctionOnSet(f, A) + SumFunctionOnSet(f, B)
<1> DEFINE Bad == {B \in SUBSET S :
                      /\ A \cap B = {}
                      /\ SumFunctionOnSet(f, A \cup B)
                            # SumFunctionOnSet(f, A) + SumFunctionOnSet(f, B)}
<1>1. ASSUME Bad # {} PROVE FALSE
  <2>1. Bad \in SUBSET (SUBSET S)
    OBVIOUS
  <2> HIDE DEF Bad
  <2>2. PICK B \in Bad : \A C \in Bad : C \subseteq B => C = B
    BY <1>1, <2>1, MinimalSubset
  <2> USE DEF Bad
  <2>3. B \in SUBSET S /\ A \cap B = {}
    BY <2>2
  <2>4. /\ IsFiniteSet(A) /\ IsFiniteSet(B)
        /\ SumFunctionOnSet(f, A) \in Int
    BY <2>3, FS_Subset, SumInt
  <2>5. CASE B = {}
    <3>1. A \cup B = A
      BY <2>5
    <3> QED BY <2>2, <2>4, <2>5, <3>1, SumEmpty
  <2>6. ASSUME NEW x \in B PROVE FALSE
    <3>1. B \ {x} \notin Bad
      BY <2>2, <2>6
    <3>2. SumFunctionOnSet(f, A \cup (B \ {x}))
            = SumFunctionOnSet(f, A) + SumFunctionOnSet(f, B \ {x})
      BY <2>3, <3>1
    <3>3. (A \cup B) \ {x} = A \cup (B \ {x})
      BY <2>3, <2>6
    <3>4. A \cup B \in SUBSET S /\ x \in A \cup B
      BY <2>3, <2>6
    <3>5. /\ SumFunctionOnSet(f, A \cup B) = f[x] + SumFunctionOnSet(f, (A \cup B) \ {x})
          /\ SumFunctionOnSet(f, B) = f[x] + SumFunctionOnSet(f, B \ {x})
      BY <2>3, <2>6, <3>4, SumTakeOut
    <3>6. /\ IsFiniteSet(B \ {x}) /\ \A y \in B \ {x} : f[y] \in Int
          /\ f[x] \in Int
      BY <2>3, <2>4, <2>6, FS_RemoveElement
    <3>7. SumFunctionOnSet(f, B \ {x}) \in Int
      BY <3>6, SumInt
    <3>8. SumFunctionOnSet(f, A \cup B)
            # SumFunctionOnSet(f, A) + SumFunctionOnSet(f, B)
      BY <2>2
    <3> HIDE DEF Bad
    <3>9. ASSUME NEW a \in Int, NEW b \in Int, NEW c \in Int PROVE a + (b + c) = b + (a + c)
      OBVIOUS
    <3>10. SumFunctionOnSet(f, A) + (f[x] + SumFunctionOnSet(f, B \ {x}))
             = f[x] + (SumFunctionOnSet(f, A) + SumFunctionOnSet(f, B \ {x}))
      BY <2>4, <3>6, <3>7, <3>9
    <3> QED BY <3>2, <3>3, <3>5, <3>8, <3>10
  <2> QED BY <2>5, <2>6
<1> QED
  BY <1>1

\* The sums of two functions that agree on a set are equal.
LEMMA SumSame ==
    ASSUME NEW S, IsFiniteSet(S), NEW f, NEW g,
           \A x \in S : f[x] \in Int /\ g[x] = f[x]
    PROVE  SumFunctionOnSet(f, S) = SumFunctionOnSet(g, S)
<1>1. \A x \in S : f[x] \in Int
  OBVIOUS
<1>2. \A x \in S : g[x] \in Int
  OBVIOUS
<1>3. /\ IsSum(Sums(f, S), f, SUBSET S)
      /\ SumFunctionOnSet(f, S) = Sums(f, S)[S]
  BY <1>1, SumDefined
<1>4. /\ IsSum(Sums(g, S), g, SUBSET S)
      /\ SumFunctionOnSet(g, S) = Sums(g, S)[S]
  BY <1>2, SumDefined
<1>5. IsSum(Sums(f, S), g, SUBSET S)
  <2>1. \A s \in SUBSET S : s # {} => f[Pick(s)] = g[Pick(s)]
    BY PickIn
  <2> QED BY <1>3, <2>1 DEF IsSum
<1>6. \A s \in SUBSET S : Sums(f, S)[s] = Sums(g, S)[s]
  BY <1>4, <1>5, SumUnique
<1> QED
  BY <1>3, <1>4, <1>6

\* Sums of natural numbers are natural numbers, and no term is greater.
LEMMA SumNat ==
    ASSUME NEW S, IsFiniteSet(S), NEW f, \A x \in S : f[x] \in Nat
    PROVE  \A T \in SUBSET S : SumFunctionOnSet(f, T) \in Nat
<1> DEFINE Bad == {T \in SUBSET S : SumFunctionOnSet(f, T) \notin Nat}
<1>1. ASSUME Bad # {} PROVE FALSE
  <2>1. Bad \in SUBSET (SUBSET S)
    OBVIOUS
  <2> HIDE DEF Bad
  <2>2. PICK T \in Bad : \A U \in Bad : U \subseteq T => U = T
    BY <1>1, <2>1, MinimalSubset
  <2> USE DEF Bad
  <2>3. T # {}
    <3>1. SumFunctionOnSet(f, {}) = 0
      BY SumEmpty
    <3>2. 0 \in Nat /\ SumFunctionOnSet(f, T) \notin Nat
      BY <2>2
    <3> HIDE DEF Bad
    <3> QED BY <3>1, <3>2, Zenon
  <2>4. PICK x \in T : TRUE
    BY <2>3
  <2>5. SumFunctionOnSet(f, T \ {x}) \in Nat
    BY <2>2, <2>4
  <2>6. \A y \in S : f[y] \in Int
    OBVIOUS
  <2>7. SumFunctionOnSet(f, T) = f[x] + SumFunctionOnSet(f, T \ {x})
    BY <2>2, <2>4, <2>6, SumTakeOut
  <2> QED BY <2>2, <2>4, <2>5, <2>7
<1> QED
  BY <1>1

\* Exchanging one element for another.
LEMMA SumExchange ==
    ASSUME NEW S, IsFiniteSet(S), NEW f, \A x \in S : f[x] \in Int,
           NEW T \in SUBSET S, NEW x \in T, NEW y \in S \ T
    PROVE  SumFunctionOnSet(f, (T \ {x}) \cup {y}) = SumFunctionOnSet(f, T) - f[x] + f[y]
<1>1. SumFunctionOnSet(f, T) = f[x] + SumFunctionOnSet(f, T \ {x})
  BY SumTakeOut
<1> DEFINE U == (T \ {x}) \cup {y}
<1>2. U \in SUBSET S /\ y \in U /\ U \ {y} = T \ {x}
  OBVIOUS
<1> HIDE DEF U
<1>3. SumFunctionOnSet(f, U) = f[y] + SumFunctionOnSet(f, T \ {x})
  BY <1>2, SumTakeOut
<1>4. IsFiniteSet(T \ {x}) /\ \A z \in T \ {x} : f[z] \in Int
  BY FS_Subset
<1>5. SumFunctionOnSet(f, T \ {x}) \in Int
  BY <1>4, SumInt
<1>6. f[x] \in Int /\ f[y] \in Int
  OBVIOUS
<1> QED
  BY <1>1, <1>3, <1>5, <1>6 DEF U

\* Nothing adds up to nothing.
LEMMA SumZero ==
    ASSUME NEW S, IsFiniteSet(S), NEW f, \A x \in S : f[x] = 0
    PROVE  \A T \in SUBSET S : SumFunctionOnSet(f, T) = 0
<1> DEFINE Bad == {T \in SUBSET S : SumFunctionOnSet(f, T) # 0}
<1>1. ASSUME Bad # {} PROVE FALSE
  <2>1. Bad \in SUBSET (SUBSET S)
    OBVIOUS
  <2> HIDE DEF Bad
  <2>2. PICK T \in Bad : \A U \in Bad : U \subseteq T => U = T
    BY <1>1, <2>1, MinimalSubset
  <2> USE DEF Bad
  <2>3. T # {}
    BY SumEmpty, Zenon
  <2>4. PICK x \in T : TRUE
    BY <2>3
  <2>5. SumFunctionOnSet(f, T \ {x}) = 0
    BY <2>2, <2>4
  <2>6. \A y \in S : f[y] \in Int
    OBVIOUS
  <2>7. SumFunctionOnSet(f, T) = f[x] + SumFunctionOnSet(f, T \ {x})
    BY <2>2, <2>4, <2>6, SumTakeOut
  <2>8. SumFunctionOnSet(f, T) = 0
    BY <2>2, <2>4, <2>5, <2>7
  <2> QED BY <2>2, <2>8
<1> QED
  BY <1>1

\* Adding one to the elements of a subset.
LEMMA SumIncrement ==
    ASSUME NEW S, IsFiniteSet(S), NEW T \in SUBSET S,
           NEW f, \A x \in S : f[x] \in Int,
           NEW g, \A x \in S : g[x] = f[x] + (IF x \in T THEN 1 ELSE 0)
    PROVE  SumFunctionOnSet(g, S) = SumFunctionOnSet(f, S) + Cardinality(T)
<1> DEFINE Bad == {U \in SUBSET S :
                      SumFunctionOnSet(g, U) # SumFunctionOnSet(f, U) + Cardinality(U \cap T)}
<1>0. /\ \A x \in S : f[x] \in Int
      /\ \A x \in S : g[x] \in Int
  OBVIOUS
<1>1. ASSUME Bad # {} PROVE FALSE
  <2>1. Bad \in SUBSET (SUBSET S)
    OBVIOUS
  <2> HIDE DEF Bad
  <2>2. PICK U \in Bad : \A V \in Bad : V \subseteq U => V = U
    BY <1>1, <2>1, MinimalSubset
  <2> USE DEF Bad
  <2>3. U # {}
    <3>1. SumFunctionOnSet(g, {}) = 0 /\ SumFunctionOnSet(f, {}) = 0 /\ Cardinality({} \cap T) = 0
      <4>1. {} \cap T = {}
        OBVIOUS
      <4> QED BY <4>1, SumEmpty, FS_EmptySet
    <3>2. SumFunctionOnSet(g, {}) = SumFunctionOnSet(f, {}) + Cardinality({} \cap T)
      BY <3>1
    <3>3. SumFunctionOnSet(g, U) # SumFunctionOnSet(f, U) + Cardinality(U \cap T)
      BY <2>2
    <3> HIDE DEF Bad
    <3> QED BY <3>2, <3>3, Zenon
  <2>4. PICK x \in U : TRUE
    BY <2>3
  <2> DEFINE V == U \ {x}
  <2>5. SumFunctionOnSet(g, V) = SumFunctionOnSet(f, V) + Cardinality(V \cap T)
    BY <2>2, <2>4
  <2>6. /\ SumFunctionOnSet(f, U) = f[x] + SumFunctionOnSet(f, V)
        /\ SumFunctionOnSet(g, U) = g[x] + SumFunctionOnSet(g, V)
    BY <1>0, <2>1, <2>2, <2>4, SumTakeOut
  <2>7. SumFunctionOnSet(f, V) \in Int
    <3>1. IsFiniteSet(V) /\ \A y \in V : f[y] \in Int
      BY <1>0, <2>2, FS_Subset
    <3> QED BY <3>1, SumInt
  <2>8. /\ Cardinality(V \cap T) \in Nat
        /\ Cardinality(U \cap T) = Cardinality(V \cap T) + (IF x \in T THEN 1 ELSE 0)
    <3>1. IsFiniteSet(V \cap T)
      BY <2>2, FS_Subset
    <3>2. U \cap T = (IF x \in T THEN (V \cap T) \cup {x} ELSE V \cap T) /\ x \notin V \cap T
      BY <2>4
    <3>3. /\ Cardinality(V \cap T) \in Nat
          /\ Cardinality((V \cap T) \cup {x}) = Cardinality(V \cap T) + 1
      BY <3>1, <3>2, FS_CardinalityType, FS_AddElement
    <3> QED BY <3>2, <3>3
  <2>9. x \in S /\ f[x] \in Int /\ g[x] = f[x] + (IF x \in T THEN 1 ELSE 0)
    BY <1>0, <2>2, <2>4
  <2>10. SumFunctionOnSet(g, U) # SumFunctionOnSet(f, U) + Cardinality(U \cap T)
    BY <2>2
  <2> HIDE DEF Bad, V
  <2> QED BY <2>5, <2>6, <2>7, <2>8, <2>9, <2>10
<1>2. S \notin Bad
  BY <1>1
<1>3. S \cap T = T
  OBVIOUS
<1> QED
  BY <1>2, <1>3

-----------------------------------------------------------------------------
(* Functions on the naturals that are defined from one number to the next.  *)

\* h starts with b and follows step up to n.
Follows(h, b, step, n) == h[0] = b /\ \A i \in 1 .. n : h[i] = step[<<i, h[i - 1]>>]

LEMMA FollowerExists ==
    ASSUME NEW A, NEW b \in A, NEW step \in [Nat \X A -> A]
    PROVE  \A n \in Nat : \E h \in [0 .. n -> A] : Follows(h, b, step, n)
<1> DEFINE Bad == {n \in Nat : ~ \E h \in [0 .. n -> A] : Follows(h, b, step, n)}
<1> SUFFICES ASSUME Bad # {} PROVE FALSE
  OBVIOUS
<1>1. PICK n \in Bad : \A m \in Bad : n <= m
  BY LeastNatural
<1>2. CASE n = 0
  <2> DEFINE h == [i \in 0 .. n |-> b]
  <2>1. h \in [0 .. n -> A] /\ Follows(h, b, step, n)
    BY <1>2 DEF Follows
  <2> QED BY <1>1, <2>1
<1>3. CASE n # 0
  <2>1. n \in Nat /\ n - 1 \in Nat /\ n - 1 \notin Bad
    BY <1>1, <1>3
  <2>2. PICK h \in [0 .. n - 1 -> A] : Follows(h, b, step, n - 1)
    BY <2>1
  <2> DEFINE g == [i \in 0 .. n |-> IF i = n THEN step[<<n, h[n - 1]>>] ELSE h[i]]
  <2>3. h[n - 1] \in A /\ step[<<n, h[n - 1]>>] \in A
    BY <2>1
  <2>4. g \in [0 .. n -> A]
    BY <2>1, <2>3
  <2>5. Follows(g, b, step, n)
    <3>1. g[0] = b
      BY <1>3, <2>1, <2>2 DEF Follows
    <3>2. ASSUME NEW i \in 1 .. n PROVE g[i] = step[<<i, g[i - 1]>>]
      <4>1. g[i - 1] = h[i - 1]
        BY <2>1
      <4>2. CASE i = n
        BY <4>1, <4>2
      <4>3. CASE i # n
        BY <2>1, <2>2, <4>1, <4>3 DEF Follows
      <4> QED BY <4>2, <4>3
    <3> QED BY <3>1, <3>2 DEF Follows
  <2> QED BY <1>1, <2>4, <2>5
<1> QED
  BY <1>2, <1>3

LEMMA FollowersAgree ==
    ASSUME NEW b, NEW step, NEW n \in Nat, NEW g, NEW h,
           Follows(g, b, step, n), Follows(h, b, step, n)
    PROVE  g[n] = h[n]
<1> DEFINE Bad == {m \in Nat : m <= n /\ g[m] # h[m]}
<1>1. ASSUME Bad # {} PROVE FALSE
  <2>1. PICK m \in Bad : \A k \in Bad : m <= k
    BY <1>1, LeastNatural
  <2>2. m # 0
    BY <2>1 DEF Follows
  <2>3. m - 1 \in Nat /\ m - 1 <= n /\ m - 1 \notin Bad
    BY <2>1, <2>2
  <2>4. g[m - 1] = h[m - 1] /\ m \in 1 .. n
    BY <2>1, <2>2, <2>3
  <2>5. g[m] = h[m]
    BY <2>4 DEF Follows
  <2> QED BY <2>1, <2>5
<1> QED
  BY <1>1

Follower(A, b, step, n) == CHOOSE h \in [0 .. n -> A] : Follows(h, b, step, n)

\* f is given by a recursion over the numbers: step makes each value of the last.
Unfolds(f, b, step) == f[0] = b /\ \A n \in Nat : n # 0 => f[n] = step[<<n, f[n - 1]>>]

\* The function that follows step all the way.
Endless(A, b, step) == [n \in Nat |-> Follower(A, b, step, n)[n]]

LEMMA Recursion ==
    ASSUME NEW A, NEW b \in A, NEW step \in [Nat \X A -> A]
    PROVE  /\ Endless(A, b, step) \in [Nat -> A]
           /\ Unfolds(Endless(A, b, step), b, step)
<1> DEFINE f == Endless(A, b, step)
<1>0. f = [n \in Nat |-> Follower(A, b, step, n)[n]]
  BY DEF Endless
<1>1. \A n \in Nat : /\ Follower(A, b, step, n) \in [0 .. n -> A]
                      /\ Follows(Follower(A, b, step, n), b, step, n)
  BY FollowerExists DEF Follower
<1> HIDE DEF f
<1>2. f \in [Nat -> A]
  BY <1>0, <1>1
<1>3. f[0] = b
  BY <1>0, <1>1 DEF Follows
<1>4. ASSUME NEW n \in Nat, n # 0 PROVE f[n] = step[<<n, f[n - 1]>>]
  <2> DEFINE h == Follower(A, b, step, n)
  <2>1. n - 1 \in Nat /\ n \in 1 .. n
    BY <1>4
  <2>2. Follows(h, b, step, n)
    BY <1>1
  <2> HIDE DEF h
  <2>3. Follows(h, b, step, n - 1) /\ h[n] = step[<<n, h[n - 1]>>]
    BY <2>1, <2>2 DEF Follows
  <2>4. Follows(Follower(A, b, step, n - 1), b, step, n - 1)
    BY <1>1, <2>1
  <2>5. h[n - 1] = Follower(A, b, step, n - 1)[n - 1]
    BY <2>1, <2>3, <2>4, FollowersAgree
  <2>6. f[n] = h[n] /\ f[n - 1] = Follower(A, b, step, n - 1)[n - 1]
    BY <1>0, <2>1 DEF h
  <2> QED BY <2>3, <2>5, <2>6
<1> QED
  BY <1>2, <1>3, <1>4 DEF f, Unfolds
==============================================================================
