--------------------------- MODULE DataInduction ---------------------------
(***************************************************************************)
(* Induction over data, in a form that needs no operator as a parameter:   *)
(* over the subsets of a finite set, over numbers, and from these what     *)
(* SumFunctionOnSet computes.  What is to hold of all subsets, or numbers, *)
(* is given as the set of those it holds of.                               *)
(***************************************************************************)
EXTENDS FiniteSetTheorems, Functions, TLAPS

(* A set of subsets of a finite set has one that is minimal.               *)
LEMMA MinimalSubset ==
  ASSUME NEW S, IsFiniteSet(S), NEW Bad, Bad \subseteq SUBSET S, Bad # {}
  PROVE  \E T \in Bad : \A U \in Bad : U \subseteq T => U = T
<1>1. IsWellFoundedOn(StrictSubsetOrdering(S), SUBSET S)
  BY FS_StrictSubsetOrderingWellFounded, FS_FiniteSubsetsOfFinite
<1>2. PICK T \in Bad : \A U \in Bad : <<U, T>> \notin StrictSubsetOrdering(S)
  BY <1>1, WFMin
<1>3. ASSUME NEW U \in Bad, U \subseteq T, U # T
      PROVE  FALSE
  BY <1>2, <1>3 DEF StrictSubsetOrdering
<1> QED
  BY <1>3

(* What holds of the empty set, and of a set with one element more, holds  *)
(* of every finite set.                                                    *)
LEMMA SubsetInduction ==
  ASSUME NEW S, IsFiniteSet(S), NEW Good,
         {} \in Good,
         \A T \in SUBSET S : \A x \in S \ T : T \in Good => T \cup {x} \in Good
  PROVE  SUBSET S \subseteq Good
<1> DEFINE Bad == (SUBSET S) \ Good
<1> SUFFICES ASSUME Bad # {} PROVE FALSE
  OBVIOUS
<1>1. PICK T \in Bad : \A U \in Bad : U \subseteq T => U = T
  <2>1. Bad \subseteq SUBSET S
    OBVIOUS
  <2> HIDE DEF Bad
  <2> QED
    BY <2>1, MinimalSubset
<1>2. PICK x \in T : TRUE
  BY <1>1
<1>3. T \ {x} \in Good
  BY <1>1, <1>2
<1>4. (T \ {x}) \cup {x} \in Good
  BY <1>1, <1>2, <1>3
<1>5. (T \ {x}) \cup {x} = T
  BY <1>2
<1> QED
  BY <1>1, <1>4, <1>5

(* Of a set of natural numbers there is a least.                           *)
LEMMA LeastNumber ==
  ASSUME NEW Bad, Bad \subseteq Nat, NEW m \in Bad
  PROVE  \E n \in Bad : \A k \in Bad : n <= k
<1> DEFINE Upto == {T \in SUBSET (1 .. m) : \E n \in Bad : n <= m /\ T = 1 .. n}
<1>1. PICK S : IsFiniteSet(S) /\ Upto \subseteq SUBSET S
  BY FS_Interval
<1>2. Upto # {}
  <2>1. 1 .. m \in Upto
    OBVIOUS
  <2> QED
    BY <2>1
<1>3. PICK T \in Upto : \A U \in Upto : U \subseteq T => U = T
  <2> HIDE DEF Upto
  <2> QED
    BY <1>1, <1>2, MinimalSubset
<1>4. PICK n \in Bad : T = 1 .. n /\ n <= m
  OBVIOUS
<1>5. ASSUME NEW k \in Bad, k < n
      PROVE  FALSE
  <2>1. 1 .. k \in Upto
    BY <1>4, <1>5
  <2>2. n \in 1 .. n /\ n \notin 1 .. k /\ 1 .. k \subseteq 1 .. n
    BY <1>5
  <2> HIDE DEF Upto
  <2> QED
    BY <1>3, <1>4, <2>1, <2>2
<1> QED
  BY <1>4, <1>5

(* A finite set of numbers that is not empty has a greatest one.           *)
LEMMA GreatestNumber ==
  ASSUME NEW S, IsFiniteSet(S), S \subseteq Nat, S # {}
  PROVE  \E x \in S : \A y \in S : x >= y
<1> DEFINE Good == {T \in SUBSET S : T # {} => \E x \in T : \A y \in T : x >= y}
<1>1. {} \in Good
  OBVIOUS
<1>2. ASSUME NEW T \in SUBSET S, NEW z \in S \ T, T \in Good
      PROVE  T \cup {z} \in Good
  <2>1. z \in Nat /\ T \subseteq Nat
    OBVIOUS
  <2>2. \E x \in T \cup {z} : \A y \in T \cup {z} : x >= y
    <3>1. CASE T = {}
      BY <2>1, <3>1
    <3>2. CASE T # {}
      <4>1. PICK x \in T : \A y \in T : x >= y
        BY <1>2, <3>2
      <4>2. x \in Nat
        BY <2>1
      <4>3. CASE x >= z
        BY <4>1, <4>2, <4>3
      <4>4. CASE z >= x
        <5>1. \A y \in T \cup {z} : z >= y
          BY <2>1, <4>1, <4>2, <4>4
        <5> QED
          BY <5>1
      <4> QED
        BY <2>1, <4>2, <4>3, <4>4
    <3> QED
      BY <3>1, <3>2
  <2> QED
    BY <2>2
<1>3. SUBSET S \subseteq Good
  <2> HIDE DEF Good
  <2> QED
    BY <1>1, <1>2, SubsetInduction
<1> QED
  BY <1>3

(* What holds of the first number of an interval, and of the next one,     *)
(* holds throughout.                                                       *)
LEMMA IntervalInduction ==
  ASSUME NEW m \in Nat, NEW n \in Nat, NEW Good,
         m \in Good, \A k \in m .. (n - 1) : k \in Good => k + 1 \in Good
  PROVE  m .. n \subseteq Good
<1> DEFINE Bad == (m .. n) \ Good
<1> SUFFICES ASSUME NEW b \in Bad PROVE FALSE
  OBVIOUS
<1>1. Bad \subseteq Nat
  OBVIOUS
<1>2. PICK k \in Bad : \A i \in Bad : k <= i
  <2> HIDE DEF Bad
  <2> QED
    BY <1>1, LeastNumber
<1>3. k - 1 \in m .. (n - 1) /\ (k - 1) + 1 = k
  BY <1>2
<1>4. k - 1 \in Good
  BY <1>2, <1>3
<1> QED
  BY <1>2, <1>3, <1>4

(* A function on the first numbers, given by its first value and by the    *)
(* next one after each, exists.                                            *)
IsSteps(f, N, S, first, next) ==
  f \in [0 .. N -> S] /\ f[0] = first /\ \A n \in 1 .. N : f[n] = next[n][f[n - 1]]

LEMMA StepsExist ==
  ASSUME NEW N \in Nat, NEW S, NEW first \in S, NEW next \in [1 .. N -> [S -> S]]
  PROVE  \E f : IsSteps(f, N, S, first, next)
<1> DEFINE Upto(f, n) == f[0] = first /\ \A m \in 1 .. n : f[m] = next[m][f[m - 1]]
           Defined == {n \in 0 .. N : \E f \in [0 .. n -> S] : Upto(f, n)}
<1>1. 0 \in Defined
  <2> DEFINE f == [n \in 0 .. 0 |-> first]
  <2>1. f \in [0 .. 0 -> S] /\ Upto(f, 0)
    OBVIOUS
  <2> HIDE DEF f, Upto
  <2> QED
    BY <2>1
<1>2. ASSUME NEW k \in 0 .. (N - 1), k \in Defined
      PROVE  k + 1 \in Defined
  <2>1. PICK f \in [0 .. k -> S] : Upto(f, k)
    BY <1>2
  <2> DEFINE g == [n \in 0 .. (k + 1) |-> IF n <= k THEN f[n] ELSE next[k + 1][f[k]]]
  <2>2. g \in [0 .. (k + 1) -> S]
    <3>1. f[k] \in S /\ next[k + 1] \in [S -> S]
      OBVIOUS
    <3> QED
      BY <3>1
  <2>3. /\ \A m \in 0 .. k : g[m] = f[m]
        /\ g[k + 1] = next[k + 1][f[k]]
    OBVIOUS
  <2> HIDE DEF g
  <2>4. g[0] = first
    BY <2>1, <2>3
  <2>5. ASSUME NEW m \in 1 .. (k + 1)
        PROVE  g[m] = next[m][g[m - 1]]
    <3>1. CASE m <= k
      BY <2>1, <2>3, <3>1
    <3>2. CASE m = k + 1
      BY <2>3, <3>2
    <3> QED
      BY <3>1, <3>2
  <2>6. Upto(g, k + 1)
    BY <2>4, <2>5
  <2> HIDE DEF Upto
  <2> QED
    BY <2>2, <2>6
<1>3. 0 .. N \subseteq Defined
  <2> HIDE DEF Defined
  <2> QED
    BY <1>1, <1>2, IntervalInduction
<1>4. N \in Defined
  <2> HIDE DEF Defined
  <2> QED
    BY <1>3
<1> QED
  BY <1>4 DEF IsSteps

-----------------------------------------------------------------------------
(* SumFunctionOnSet is defined by recursion over the subsets of its set;   *)
(* g is a function that satisfies the equation.                            *)
Chosen(T) == CHOOSE x \in T : TRUE

IsSum(g, f, S) ==
  \A T \in SUBSET S : g[T] = IF T = {} THEN 0 ELSE f[Chosen(T)] + g[T \ {Chosen(T)}]

(* What is chosen from a set that is not empty is one of its elements.     *)
LEMMA ChosenIn == ASSUME NEW T, T # {} PROVE Chosen(T) \in T
  BY DEF Chosen

(* The equation has one solution at most, also over other sets.            *)
LEMMA SumUnique ==
  ASSUME NEW f, NEW S, NEW R, NEW g, NEW h, IsSum(g, f, S), IsSum(h, f, R),
         NEW T, IsFiniteSet(T), T \subseteq S, T \subseteq R
  PROVE  g[T] = h[T]
<1> DEFINE Bad == {U \in SUBSET T : g[U] # h[U]}
<1> SUFFICES ASSUME Bad # {} PROVE FALSE
  OBVIOUS
<1>1. PICK U \in Bad : \A V \in Bad : V \subseteq U => V = U
  <2>1. Bad \subseteq SUBSET T
    OBVIOUS
  <2> HIDE DEF Bad
  <2> QED
    BY <2>1, MinimalSubset
<1>2. U \in SUBSET S /\ U \in SUBSET R
  OBVIOUS
<1>3. U # {}
  BY <1>2 DEF IsSum
<1>4. Chosen(U) \in U
  BY <1>3, ChosenIn
<1>5. g[U \ {Chosen(U)}] = h[U \ {Chosen(U)}]
  BY <1>1, <1>4
<1>6. g[U] = h[U]
  BY <1>2, <1>3, <1>5 DEF IsSum
<1> QED
  BY <1>6

(* And it has one.                                                         *)
LEMMA SumExists ==
  ASSUME NEW S, IsFiniteSet(S), NEW f
  PROVE  \E g : DOMAIN g = SUBSET S /\ IsSum(g, f, S)
<1> DEFINE Bad == {T \in SUBSET S : ~ \E g : IsSum(g, f, T)}
           Part(T) == CHOOSE g : IsSum(g, f, T)
           glue(T) == [U \in SUBSET T |->
                         IF U = {} THEN 0
                         ELSE f[Chosen(U)] + Part(U \ {Chosen(U)})[U \ {Chosen(U)}]]
<1>1. ASSUME NEW T \in SUBSET S, \A U \in SUBSET T : U # T => U \notin Bad
      PROVE  IsSum(glue(T), f, T)
  <2>1. ASSUME NEW U \in SUBSET T, U # T
        PROVE  IsSum(Part(U), f, U)
    BY <1>1, <2>1
  <2>2. ASSUME NEW U \in SUBSET T, U # {}
        PROVE  glue(T)[U] = f[Chosen(U)] + glue(T)[U \ {Chosen(U)}]
    <3> DEFINE V == U \ {Chosen(U)}
    <3>1. Chosen(U) \in U /\ V \in SUBSET T /\ V # T /\ V \in SUBSET V
      BY <2>2, ChosenIn
    <3>2. IsSum(Part(V), f, V)
      BY <2>1, <3>1
    <3>3. glue(T)[U] = f[Chosen(U)] + Part(V)[V]
      BY <2>2
    <3>4. glue(T)[V] = Part(V)[V]
      <4>1. CASE V = {}
        <5>1. glue(T)[V] = 0
          BY <3>1, <4>1
        <5>2. Part(V)[V] = 0
          BY <3>1, <3>2, <4>1 DEF IsSum
        <5> QED
          BY <5>1, <5>2
      <4>2. CASE V # {}
        <5> DEFINE W == V \ {Chosen(V)}
        <5>1. Chosen(V) \in V /\ W \in SUBSET T /\ W # T /\ W \in SUBSET V
          BY <3>1, <4>2, ChosenIn
        <5>2. IsSum(Part(W), f, W)
          BY <2>1, <5>1
        <5>3. IsFiniteSet(W)
          BY <5>1, FS_Subset
        <5>4. Part(W)[W] = Part(V)[W]
          <6> HIDE DEF Part, W, V
          <6> QED
            BY <3>2, <5>1, <5>2, <5>3, SumUnique
        <5>5. glue(T)[V] = f[Chosen(V)] + Part(W)[W]
          BY <3>1, <4>2
        <5>6. Part(V)[V] = f[Chosen(V)] + Part(V)[W]
          BY <3>1, <3>2, <4>2 DEF IsSum
        <5> QED
          BY <5>4, <5>5, <5>6
      <4> QED
        BY <4>1, <4>2
    <3> QED
      BY <3>3, <3>4
  <2>3. ASSUME NEW U \in SUBSET T, U = {}
        PROVE  glue(T)[U] = 0
    BY <2>3
  <2> HIDE DEF glue
  <2> QED
    BY <2>2, <2>3 DEF IsSum
<1>2. Bad = {}
  <2> SUFFICES ASSUME Bad # {} PROVE FALSE
    OBVIOUS
  <2>1. PICK T \in Bad : \A U \in Bad : U \subseteq T => U = T
    <3>1. Bad \subseteq SUBSET S
      OBVIOUS
    <3> HIDE DEF Bad
    <3> QED
      BY <3>1, MinimalSubset
  <2>2. T \in SUBSET S /\ \A U \in SUBSET T : U # T => U \notin Bad
    BY <2>1
  <2>3. IsSum(glue(T), f, T)
    <3> HIDE DEF Bad, glue
    <3> QED
      BY <1>1, <2>2
  <2>4. T \notin Bad
    <3> HIDE DEF glue
    <3> QED
      BY <2>3
  <2> QED
    BY <2>1, <2>4
<1>3. IsSum(glue(S), f, S)
  <2> HIDE DEF Bad, glue
  <2> QED
    BY <1>1, <1>2
<1>4. DOMAIN glue(S) = SUBSET S
  OBVIOUS
<1> HIDE DEF glue
<1> QED
  BY <1>3, <1>4

(* So the sum satisfies it.                                                *)
LEMMA SumIsSum ==
  ASSUME NEW S, IsFiniteSet(S), NEW f
  PROVE  \E g : IsSum(g, f, S) /\ SumFunctionOnSet(f, S) = g[S]
<1> DEFINE Sound(g) == g = [T \in SUBSET S |->
                              IF T = {} THEN 0
                              ELSE f[Chosen(T)] + g[T \ {Chosen(T)}]]
<1>1. PICK g : DOMAIN g = SUBSET S /\ IsSum(g, f, S)
  BY SumExists
<1>2. \E h : Sound(h)
  <2> DEFINE h == [T \in SUBSET S |-> g[T]]
  <2>1. \A T \in SUBSET S : T \ {Chosen(T)} \in SUBSET S
    OBVIOUS
  <2>2. Sound(h)
    BY <1>1, <2>1 DEF IsSum
  <2> QED
    BY <2>2
<1>3. SumFunctionOnSet(f, S) = (CHOOSE h : Sound(h))[S]
  BY DEF SumFunctionOnSet, FoldFunctionOnSet, MapThenFoldSet, Chosen
<1>4. PICK h : h = CHOOSE i : Sound(i)
  OBVIOUS
<1>5. Sound(h)
  BY <1>2, <1>4
<1>6. IsSum(h, f, S)
  BY <1>5 DEF IsSum
<1> QED
  BY <1>3, <1>4, <1>6

(* The sum over no elements, over one more, and its type.                  *)
LEMMA SumEmpty ==
  ASSUME NEW f
  PROVE  SumFunctionOnSet(f, {}) = 0
<1>1. PICK g : IsSum(g, f, {}) /\ SumFunctionOnSet(f, {}) = g[{}]
  BY SumIsSum, FS_EmptySet
<1> QED
  BY <1>1 DEF IsSum

(* The sum over a set, by the element that is chosen from it.              *)
LEMMA SumChosen ==
  ASSUME NEW S, IsFiniteSet(S), NEW f, S # {}
  PROVE  SumFunctionOnSet(f, S) = f[Chosen(S)] + SumFunctionOnSet(f, S \ {Chosen(S)})
<1> DEFINE R == S \ {Chosen(S)}
<1>1. PICK g : IsSum(g, f, S) /\ SumFunctionOnSet(f, S) = g[S]
  BY SumIsSum
<1>2. IsFiniteSet(R) /\ R \subseteq S
  BY FS_Subset
<1>3. PICK h : IsSum(h, f, R) /\ SumFunctionOnSet(f, R) = h[R]
  BY <1>2, SumIsSum
<1>4. g[R] = h[R]
  <2> HIDE DEF R
  <2> QED
    BY <1>1, <1>2, <1>3, SumUnique
<1>5. g[S] = f[Chosen(S)] + g[R]
  BY <1>1 DEF IsSum
<1> QED
  BY <1>1, <1>3, <1>4, <1>5

(* A sum of natural numbers is one.                                        *)
LEMMA SumNat ==
  ASSUME NEW S, IsFiniteSet(S), NEW f, \A x \in S : f[x] \in Nat
  PROVE  SumFunctionOnSet(f, S) \in Nat
<1> DEFINE Bad == {T \in SUBSET S : SumFunctionOnSet(f, T) \notin Nat}
<1> SUFFICES ASSUME Bad # {} PROVE FALSE
  OBVIOUS
<1>1. PICK T \in Bad : \A U \in Bad : U \subseteq T => U = T
  <2>1. Bad \subseteq SUBSET S
    OBVIOUS
  <2> HIDE DEF Bad
  <2> QED
    BY <2>1, MinimalSubset
<1>2. T # {}
  BY SumEmpty
<1>3. Chosen(T) \in T
  BY <1>2, ChosenIn
<1>4. SumFunctionOnSet(f, T \ {Chosen(T)}) \in Nat
  BY <1>1, <1>3
<1>5. IsFiniteSet(T)
  BY FS_Subset
<1>6. SumFunctionOnSet(f, T) = f[Chosen(T)] + SumFunctionOnSet(f, T \ {Chosen(T)})
  BY <1>2, <1>5, SumChosen
<1> QED
  BY <1>3, <1>4, <1>6

(* One element more adds what the function has for it.                     *)
LEMMA SumAdd ==
  ASSUME NEW S, IsFiniteSet(S), NEW f, \A y \in S : f[y] \in Nat,
         NEW x, x \notin S, f[x] \in Nat
  PROVE  SumFunctionOnSet(f, S \cup {x}) = SumFunctionOnSet(f, S) + f[x]
<1> DEFINE sum(T) == SumFunctionOnSet(f, T)
           Bad == {T \in SUBSET (S \cup {x}) : \E y \in T : sum(T) # sum(T \ {y}) + f[y]}
<1>1. IsFiniteSet(S \cup {x}) /\ \A y \in S \cup {x} : f[y] \in Nat
  BY FS_AddElement
<1>2. ASSUME NEW T \in SUBSET (S \cup {x})
      PROVE  IsFiniteSet(T) /\ sum(T) \in Nat
  BY <1>1, FS_Subset, SumNat
<1>3. ASSUME Bad # {} PROVE FALSE
  <2>1. PICK T \in Bad : \A U \in Bad : U \subseteq T => U = T
    <3>1. Bad \subseteq SUBSET (S \cup {x})
      OBVIOUS
    <3> HIDE DEF Bad
    <3> QED
      BY <1>1, <1>3, <3>1, MinimalSubset
  <2>2. PICK y \in T : sum(T) # sum(T \ {y}) + f[y]
    OBVIOUS
  <2> DEFINE c == Chosen(T)
             Rest == T \ {c, y}
  <2>3. c \in T /\ sum(T) = f[c] + sum(T \ {c})
    BY <1>2, <2>2, ChosenIn, SumChosen
  <2>4. c # y
    BY <1>1, <1>2, <2>2, <2>3
  <2>5. \A z \in T : \A w \in T \ {z} : sum(T \ {z}) = sum((T \ {z}) \ {w}) + f[w]
    <3> TAKE z \in T
    <3>1. T \ {z} \in SUBSET (S \cup {x}) /\ T \ {z} # T
      OBVIOUS
    <3> QED
      BY <2>1, <3>1
  <2>6. (T \ {c}) \ {y} = Rest /\ (T \ {y}) \ {c} = Rest
    OBVIOUS
  <2>7. sum(T \ {c}) = sum(Rest) + f[y] /\ sum(T \ {y}) = sum(Rest) + f[c]
    BY <2>2, <2>3, <2>4, <2>5, <2>6
  <2>8. sum(Rest) \in Nat /\ f[c] \in Nat /\ f[y] \in Nat
    BY <1>1, <1>2, <2>3
  <2> HIDE DEF sum, c, Rest
  <2> QED
    BY <2>2, <2>3, <2>7, <2>8
<1>4. S \cup {x} \notin Bad /\ (S \cup {x}) \ {x} = S
  BY <1>3
<1> QED
  BY <1>4

(* What is summed elsewhere does not matter.                               *)
LEMMA SumSame ==
  ASSUME NEW S, IsFiniteSet(S), NEW f, NEW g, \A x \in S : f[x] = g[x]
  PROVE  SumFunctionOnSet(f, S) = SumFunctionOnSet(g, S)
<1> DEFINE Bad == {T \in SUBSET S : SumFunctionOnSet(f, T) # SumFunctionOnSet(g, T)}
<1> SUFFICES ASSUME Bad # {} PROVE FALSE
  OBVIOUS
<1>1. PICK T \in Bad : \A U \in Bad : U \subseteq T => U = T
  <2>1. Bad \subseteq SUBSET S
    OBVIOUS
  <2> HIDE DEF Bad
  <2> QED
    BY <2>1, MinimalSubset
<1>2. T # {}
  BY SumEmpty
<1>3. Chosen(T) \in T /\ IsFiniteSet(T)
  BY <1>2, ChosenIn, FS_Subset
<1>4. SumFunctionOnSet(f, T \ {Chosen(T)}) = SumFunctionOnSet(g, T \ {Chosen(T)})
  BY <1>1, <1>3
<1>5. /\ SumFunctionOnSet(f, T) = f[Chosen(T)] + SumFunctionOnSet(f, T \ {Chosen(T)})
      /\ SumFunctionOnSet(g, T) = g[Chosen(T)] + SumFunctionOnSet(g, T \ {Chosen(T)})
  BY <1>2, <1>3, SumChosen
<1> QED
  BY <1>3, <1>4, <1>5
=============================================================================
