------------------------------ MODULE FoldTheorems -----------------------------
(***************************************************************************)
(* What the library's folds compute for every finite set and for every     *)
(* sequence: sums (MapThenSumSet), whatever the order in which the CHOOSE  *)
(* takes the elements, and folds from the left (FoldLeft).  The library    *)
(* defines them by a recursive function, and the induction theorems take   *)
(* an operator; the induction here is on sets of subsets, for which the    *)
(* order of strict inclusion is well-founded.                              *)
(***************************************************************************)
EXTENDS Naturals, FiniteSets, FiniteSetsExt, FiniteSetTheorems, WellFoundedInduction,
        TLAPS

\* The sum of a function over a set.
SumOf(m, S) == MapThenSumSet(LAMBDA x : m[x], S)

\* The element that is summed first, one step of the recursion, the functions that
\* satisfy it for all subsets of S, and the one that the definition takes.
Chosen(s) == CHOOSE x \in s : TRUE
Step(m, g, s) == IF s = {} THEN 0 ELSE m[Chosen(s)] + g[s \ {Chosen(s)}]
IsSum(m, S, g) == g = [s \in SUBSET S |-> Step(m, g, s)]
Sums(m, S) == CHOOSE g : IsSum(m, S, g)

\* The definition of the library, in these terms.
LEMMA Unfold ==
  ASSUME NEW m, NEW S
  PROVE SumOf(m, S) = Sums(m, S)[S]
BY DEF SumOf, MapThenSumSet, MapThenFoldSet, Sums, IsSum, Step, Chosen

\* Induction over finite sets: of some subsets of a finite set one is minimal.
LEMMA Smallest ==
  ASSUME NEW S, IsFiniteSet(S), NEW T \in SUBSET (SUBSET S), T # {}
  PROVE  \E U \in T : \A V \in T : V \subseteq U => V = U
<1>1. IsWellFoundedOn(StrictSubsetOrdering(S), SUBSET S)
  BY FS_StrictSubsetOrderingWellFounded, FS_FiniteSubsetsOfFinite
<1>2. PICK U \in T : \A V \in T : <<V, U>> \notin StrictSubsetOrdering(S)
  BY <1>1, WFMin
<1> QED BY <1>2 DEF StrictSubsetOrdering

\* The element chosen is one of the set.
LEMMA ChosenIn == ASSUME NEW s, s # {} PROVE Chosen(s) \in s
BY DEF Chosen

\* Two functions that satisfy the recursion agree where both are defined.
LEMMA SumsAgree ==
  ASSUME NEW m, NEW U, NEW V, NEW g, NEW h, IsSum(m, U, g), IsSum(m, V, h),
         IsFiniteSet(U \cap V)
  PROVE  \A W \in SUBSET (U \cap V) : g[W] = h[W]
<1> DEFINE Bad == {W \in SUBSET (U \cap V) : g[W] # h[W]}
<1> SUFFICES ASSUME Bad # {} PROVE FALSE
  OBVIOUS
<1>1. PICK W \in Bad : \A X \in Bad : X \subseteq W => X = W
  <2>1. Bad \in SUBSET (SUBSET (U \cap V))
    OBVIOUS
  <2> HIDE DEF Bad
  <2> QED BY <2>1, Smallest
<1>2. g[W] = Step(m, g, W) /\ h[W] = Step(m, h, W)
  BY DEF IsSum
<1>3. CASE W = {}
  BY <1>2, <1>3 DEF Step
<1>4. CASE W # {}
  <2> DEFINE X == W \ {Chosen(W)}
  <2>1. X \subseteq W /\ X # W
    BY <1>4, ChosenIn
  <2>2. g[X] = h[X]
    BY <1>1, <2>1
  <2> QED BY <1>2, <1>4, <2>2 DEF Step
<1> QED BY <1>3, <1>4

\* For a finite set there is one: the smallest subset without one would have one.
LEMMA SumsExist ==
  ASSUME NEW m, NEW S, IsFiniteSet(S)
  PROVE  IsSum(m, S, Sums(m, S))
<1> DEFINE Bad == {U \in SUBSET S : ~\E g : IsSum(m, U, g)}
<1>1. Bad = {}
  <2> SUFFICES ASSUME Bad # {} PROVE FALSE
    OBVIOUS
  <2>1. PICK U \in Bad : \A V \in Bad : V \subseteq U => V = U
    <3>1. Bad \in SUBSET (SUBSET S)
      OBVIOUS
    <3> HIDE DEF Bad
    <3> QED BY <3>1, Smallest
  <2>2. \A V \in SUBSET U : V # U => IsSum(m, V, Sums(m, V))
    BY <2>1 DEF Sums
  <2> DEFINE G(V) == Sums(m, V)[V]
             h == [s \in SUBSET U |-> IF s = {} THEN 0 ELSE m[Chosen(s)] + G(s \ {Chosen(s)})]
  <2>3. ASSUME NEW s \in SUBSET U, s # U PROVE h[s] = G(s)
    <3>1. CASE s = {}
      BY <2>2, <2>3, <3>1 DEF IsSum, Step
    <3>2. CASE s # {}
      <4> DEFINE r == s \ {Chosen(s)}
      <4>1. r \in SUBSET s /\ r # s /\ r # U /\ r \in SUBSET U
        BY <2>3, <3>2, ChosenIn
      <4>2. IsSum(m, s, Sums(m, s)) /\ IsSum(m, r, Sums(m, r))
        BY <2>2, <2>3, <4>1
      <4>3. Sums(m, s)[r] = Sums(m, r)[r]
        <5>1. IsFiniteSet(s \cap r) /\ r \in SUBSET (s \cap r)
          BY <4>1, FS_Subset
        <5> QED BY <4>2, <5>1, SumsAgree
      <4>4. Sums(m, s)[s] = m[Chosen(s)] + Sums(m, s)[r]
        BY <4>2, <3>2 DEF IsSum, Step
      <4> QED BY <3>2, <4>3, <4>4
    <3> QED BY <3>1, <3>2
  <2>4. ASSUME NEW s \in SUBSET U PROVE h[s] = Step(m, h, s)
    <3>1. CASE s = {}
      BY <3>1 DEF Step
    <3>2. CASE s # {}
      <4> DEFINE r == s \ {Chosen(s)}
      <4>1. r \in SUBSET U /\ r # U
        BY <3>2, ChosenIn
      <4>2. h[r] = G(r)
        BY <2>3, <4>1
      <4> QED BY <3>2, <4>2 DEF Step
    <3> QED BY <3>1, <3>2
  <2> HIDE DEF h
  <2>5. h = [s \in SUBSET U |-> h[s]]
    BY DEF h
  <2>6. IsSum(m, U, h)
    BY <2>4, <2>5 DEF IsSum
  <2> QED BY <2>1, <2>6
<1> QED BY <1>1 DEF Sums

\* The recursion, with sums over subsets in place of the function chosen.
LEMMA SumRec ==
  ASSUME NEW m, NEW S, IsFiniteSet(S)
  PROVE  SumOf(m, S) = IF S = {} THEN 0
                       ELSE m[Chosen(S)] + SumOf(m, S \ {Chosen(S)})
<1>1. IsSum(m, S, Sums(m, S))
  BY SumsExist
<1>2. CASE S = {}
  BY <1>1, <1>2, Unfold DEF IsSum, Step
<1>3. CASE S # {}
  <2> DEFINE r == S \ {Chosen(S)}
  <2>1. IsFiniteSet(r) /\ r \in SUBSET S
    BY FS_Subset
  <2>2. IsSum(m, r, Sums(m, r))
    BY <2>1, SumsExist
  <2>3. Sums(m, S)[r] = Sums(m, r)[r]
    <3>1. IsFiniteSet(S \cap r) /\ r \in SUBSET (S \cap r)
      BY <2>1, FS_Subset
    <3> QED BY <1>1, <2>2, <3>1, SumsAgree
  <2>4. Sums(m, S)[S] = m[Chosen(S)] + Sums(m, S)[r]
    BY <1>1, <1>3 DEF IsSum, Step
  <2> QED BY <1>3, <2>3, <2>4, Unfold
<1> QED BY <1>2, <1>3

\* A sum of natural numbers is one.
LEMMA SumType ==
  ASSUME NEW m, NEW S, IsFiniteSet(S), \A x \in S : m[x] \in Nat
  PROVE  SumOf(m, S) \in Nat
<1> DEFINE Bad == {U \in SUBSET S : SumOf(m, U) \notin Nat}
<1> SUFFICES ASSUME Bad # {} PROVE FALSE
  OBVIOUS
<1>1. PICK U \in Bad : \A V \in Bad : V \subseteq U => V = U
  <2>1. Bad \in SUBSET (SUBSET S)
    OBVIOUS
  <2> HIDE DEF Bad
  <2> QED BY <2>1, Smallest
<1>2. IsFiniteSet(U)
  BY FS_Subset
<1>3. CASE U = {}
  <2>1. SumOf(m, U) = 0
    BY <1>2, <1>3, SumRec
  <2> QED BY <2>1
<1>4. CASE U # {}
  <2> DEFINE V == U \ {Chosen(U)}
  <2>1. V # U /\ V \in SUBSET U /\ m[Chosen(U)] \in Nat
    BY <1>4, ChosenIn
  <2>2. SumOf(m, V) \in Nat
    BY <1>1, <2>1
  <2>3. SumOf(m, U) = m[Chosen(U)] + SumOf(m, V)
    BY <1>2, <1>4, SumRec
  <2> HIDE DEF V
  <2> QED BY <2>1, <2>2, <2>3
<1> QED BY <1>3, <1>4

\* Any element may be summed first.
LEMMA SumRemove ==
  ASSUME NEW m, NEW S, IsFiniteSet(S), \A x \in S : m[x] \in Nat, NEW y \in S
  PROVE  SumOf(m, S) = m[y] + SumOf(m, S \ {y})
<1> DEFINE Bad == {U \in SUBSET S : \E z \in U : SumOf(m, U) # m[z] + SumOf(m, U \ {z})}
<1> SUFFICES ASSUME Bad # {} PROVE FALSE
  OBVIOUS
<1>1. PICK U \in Bad : \A V \in Bad : V \subseteq U => V = U
  <2>1. Bad \in SUBSET (SUBSET S)
    OBVIOUS
  <2> HIDE DEF Bad
  <2> QED BY <2>1, Smallest
<1>2. PICK z \in U : SumOf(m, U) # m[z] + SumOf(m, U \ {z})
  OBVIOUS
<1> DEFINE x == Chosen(U)
           W == U \ {x, z}
<1>3. x \in U /\ U \in SUBSET S
  BY ChosenIn
<1>4. /\ IsFiniteSet(U) /\ IsFiniteSet(W)
      /\ \A u \in U : m[u] \in Nat
  BY <1>3, FS_Subset
<1>5. SumOf(m, W) \in Nat
  BY <1>3, <1>4, SumType
<1>6. SumOf(m, U) = m[x] + SumOf(m, U \ {x})
  BY <1>3, <1>4, SumRec
<1>7. z # x
  BY <1>2, <1>6
<1>8. SumOf(m, U \ {x}) = m[z] + SumOf(m, W)
  <2>1. U \ {x} \notin Bad
    BY <1>1, <1>3
  <2>2. z \in U \ {x} /\ (U \ {x}) \ {z} = W
    BY <1>7
  <2> QED BY <1>3, <2>1, <2>2
<1>9. SumOf(m, U \ {z}) = m[x] + SumOf(m, W)
  <2>1. U \ {z} \notin Bad
    BY <1>1
  <2>2. x \in U \ {z} /\ (U \ {z}) \ {x} = W
    BY <1>3, <1>7
  <2> QED BY <1>3, <2>1, <2>2
<1>10. m[x] \in Nat /\ m[z] \in Nat
  BY <1>3, <1>4
<1>11. ASSUME NEW a \in Nat, NEW b \in Nat, NEW w \in Nat PROVE a + (b + w) = b + (a + w)
  OBVIOUS
<1>12. m[x] + (m[z] + SumOf(m, W)) = m[z] + (m[x] + SumOf(m, W))
  BY <1>5, <1>10, <1>11
<1>13. m[x] + SumOf(m, U \ {x}) = m[z] + SumOf(m, U \ {z})
  BY <1>8, <1>9, <1>12
<1> QED BY <1>2, <1>6, <1>13

\* A sum depends on the values of the function in the set only.
LEMMA SumSame ==
  ASSUME NEW m, NEW n, NEW S, IsFiniteSet(S), \A x \in S : m[x] = n[x]
  PROVE  SumOf(m, S) = SumOf(n, S)
<1> DEFINE Bad == {U \in SUBSET S : SumOf(m, U) # SumOf(n, U)}
<1> SUFFICES ASSUME Bad # {} PROVE FALSE
  OBVIOUS
<1>1. PICK U \in Bad : \A V \in Bad : V \subseteq U => V = U
  <2>1. Bad \in SUBSET (SUBSET S)
    OBVIOUS
  <2> HIDE DEF Bad
  <2> QED BY <2>1, Smallest
<1>2. IsFiniteSet(U)
  BY FS_Subset
<1>3. CASE U = {}
  BY <1>2, <1>3, SumRec
<1>4. CASE U # {}
  <2>1. U \ {Chosen(U)} # U /\ Chosen(U) \in S
    BY <1>4, ChosenIn
  <2>2. SumOf(m, U \ {Chosen(U)}) = SumOf(n, U \ {Chosen(U)})
    BY <1>1, <2>1
  <2>3. SumOf(m, U) = m[Chosen(U)] + SumOf(m, U \ {Chosen(U)})
    BY <1>2, <1>4, SumRec
  <2>4. SumOf(n, U) = n[Chosen(U)] + SumOf(n, U \ {Chosen(U)})
    BY <1>2, <1>4, SumRec
  <2> QED BY <2>1, <2>2, <2>3, <2>4
<1> QED BY <1>3, <1>4

\* One more element adds its value.
LEMMA SumAdd ==
  ASSUME NEW m, NEW S, IsFiniteSet(S), NEW y, y \notin S,
         \A x \in S \cup {y} : m[x] \in Nat
  PROVE  SumOf(m, S \cup {y}) = m[y] + SumOf(m, S)
<1>1. IsFiniteSet(S \cup {y}) /\ y \in S \cup {y} /\ (S \cup {y}) \ {y} = S
  BY FS_AddElement
<1> QED BY <1>1, SumRemove

\* A sum over nothing.
LEMMA SumEmpty == ASSUME NEW m PROVE SumOf(m, {}) = 0
BY FS_EmptySet, SumRec

\* Where one value grows by d, so does the sum.
LEMMA SumGrows ==
  ASSUME NEW m, NEW n, NEW S, IsFiniteSet(S), NEW y \in S, NEW d \in Nat,
         \A x \in S : m[x] \in Nat, n[y] = m[y] + d, \A x \in S \ {y} : n[x] = m[x]
  PROVE  SumOf(n, S) = SumOf(m, S) + d
<1>1. IsFiniteSet(S \ {y}) /\ \A x \in S : n[x] \in Nat
  BY FS_RemoveElement
<1>2. SumOf(m, S) = m[y] + SumOf(m, S \ {y})
  BY SumRemove
<1>3. SumOf(n, S) = n[y] + SumOf(n, S \ {y})
  BY <1>1, SumRemove
<1>4. SumOf(n, S \ {y}) = SumOf(m, S \ {y})
  BY <1>1, SumSame
<1>5. SumOf(m, S \ {y}) \in Nat /\ m[y] \in Nat
  BY <1>1, SumType
<1> QED BY <1>2, <1>3, <1>4, <1>5

(***************************************************************************)
(* Folding a sequence: the recursion of FoldLeft takes the last of a set   *)
(* of indexes and goes on with the others.                                 *)
(***************************************************************************)

\* Of some natural numbers one is the least.
LEMMA Least ==
  ASSUME NEW T \in SUBSET Nat, T # {}
  PROVE  \E k \in T : \A j \in T : k <= j
<1>1. PICK t \in T : t \in Nat
  OBVIOUS
<1> DEFINE Upto == {1..j : j \in {i \in T : i <= t}}
<1>2. PICK U \in Upto : \A V \in Upto : V \subseteq U => V = U
  <2>1. IsFiniteSet(1..t)
    BY FS_Interval
  <2>2. Upto \in SUBSET (SUBSET (1..t)) /\ Upto # {}
    OBVIOUS
  <2> DEFINE All == 1..t
  <2>3. IsFiniteSet(All) /\ Upto \in SUBSET (SUBSET All) /\ Upto # {}
    BY <2>1, <2>2
  <2> HIDE DEF Upto, All
  <2> QED BY ONLY <2>3, Smallest
<1>3. PICK k \in T : k <= t /\ U = 1..k
  OBVIOUS
<1>4. ASSUME NEW j \in T, j < k PROVE FALSE
  <2>1. 1..j \in Upto /\ 1..j \subseteq U /\ k \in U /\ k \notin 1..j
    BY <1>3, <1>4
  <2> QED BY <1>2, <2>1
<1> QED BY <1>3, <1>4

\* The members of S from x on.
From(S, x) == {y \in S : y >= x}

\* Of the ends of a finite set one is the smallest.
LEMMA SmallestEnd ==
  ASSUME NEW S, IsFiniteSet(S), S # {}
  PROVE  \E x \in S : \A y \in S : From(S, y) \subseteq From(S, x) => From(S, y) = From(S, x)
<1> DEFINE T == {From(S, x) : x \in S}
<1>1. T # {} /\ T \in SUBSET (SUBSET S)
  BY DEF From
<1>2. \E U \in T : \A V \in T : V \subseteq U => V = U
  <2> HIDE DEF T
  <2> QED BY <1>1, Smallest
<1> QED BY <1>2

\* The largest of finitely many numbers.
LEMMA LargestOf ==
  ASSUME NEW S \in SUBSET Nat, IsFiniteSet(S), S # {}
  PROVE  Max(S) \in S /\ \A x \in S : x <= Max(S)
<1>2. PICK x \in S :
        \A y \in S : From(S, y) \subseteq From(S, x) => From(S, y) = From(S, x)
  BY SmallestEnd
<1>3. \A y \in S : x >= y
  <2> SUFFICES ASSUME NEW y \in S, y > x PROVE FALSE
    OBVIOUS
  <2>1. \A z \in S : z \in Int
    OBVIOUS
  <2>2. x \in From(S, x) /\ x \notin From(S, y)
    BY <2>1 DEF From
  <2>3. \A z \in From(S, y) : z \in From(S, x)
    BY <2>1 DEF From
  <2> QED BY <1>2, <2>2, <2>3
<1>4. Max(S) \in S /\ \A y \in S : Max(S) >= y
  BY <1>3 DEF Max
<1> QED BY <1>4

\* The greatest of some numbers that include the upper bound.
LEMMA Greatest ==
  ASSUME NEW n \in Nat, NEW s \in SUBSET (1..n)
  PROVE  /\ s # {} => Max(s) \in s
         /\ n \in s => Max(s) = n
<1>1. ASSUME n \in s PROVE Max(s) = n
  <2>1. \A x \in s : (\A y \in s : x >= y) <=> x = n
    BY <1>1
  <2>2. \E x \in s : \A y \in s : x >= y
    BY <1>1, <2>1
  <2>3. Max(s) \in s /\ \A y \in s : Max(s) >= y
    BY <2>2 DEF Max
  <2> QED BY <2>1, <2>3
<1>2. ASSUME s # {} PROVE Max(s) \in s
  <2> DEFINE Bounds == {k \in Nat : \A x \in s : x <= k}
  <2>1. n \in Bounds
    OBVIOUS
  <2>2. PICK k \in Bounds : \A j \in Bounds : k <= j
    <3> HIDE DEF Bounds
    <3>1. Bounds \in SUBSET Nat
      BY DEF Bounds
    <3> QED BY <2>1, <3>1, Least
  <2>3. k \in s
    <3> SUFFICES ASSUME k \notin s PROVE FALSE
      OBVIOUS
    <3>1. \A x \in s : x <= k - 1 /\ x \in Nat /\ x >= 1
      OBVIOUS
    <3>2. k - 1 \in Nat
      <4>1. PICK x \in s : TRUE
        BY <1>2
      <4> QED BY <3>1, <4>1
    <3>3. k - 1 \in Bounds
      BY <3>1, <3>2
    <3> QED BY <2>2, <3>3
  <2>4. \A y \in s : k >= y
    OBVIOUS
  <2> QED BY <2>3, <2>4 DEF Max
<1> QED BY <1>1, <1>2

\* One step of the recursion over 1..n from `base', where F[i][acc] is what taking
\* up the i-th element makes of acc; and the functions that satisfy it.
FoldStep(base, F, g, s) == IF s = {} THEN base ELSE F[Max(s)][g[s \ {Max(s)}]]
IsFold(base, F, n, g) == g = [s \in SUBSET (1..n) |-> FoldStep(base, F, g, s)]

\* From a function that satisfies it for 1..n there is one for 1..n + 1.
LEMMA FoldNext ==
  ASSUME NEW base, NEW F, NEW n \in Nat, NEW g, IsFold(base, F, n, g)
  PROVE  \E h : IsFold(base, F, n + 1, h)
<1> DEFINE h == [s \in SUBSET (1..n + 1) |->
                   IF n + 1 \in s THEN F[n + 1][g[s \ {n + 1}]] ELSE g[s]]
<1>1. ASSUME NEW s \in SUBSET (1..n + 1) PROVE h[s] = FoldStep(base, F, h, s)
  <2>1. CASE n + 1 \in s
    <3>1. Max(s) = n + 1
      BY <2>1, Greatest
    <3>2. s \ {n + 1} \in SUBSET (1..n + 1) /\ n + 1 \notin s \ {n + 1}
      OBVIOUS
    <3>3. h[s \ {n + 1}] = g[s \ {n + 1}]
      BY <3>2
    <3> QED BY <2>1, <3>1, <3>3 DEF FoldStep
  <2>2. CASE n + 1 \notin s
    <3>1. s \in SUBSET (1..n)
      BY <2>2
    <3>2. h[s] = g[s] /\ g[s] = FoldStep(base, F, g, s)
      BY <2>2, <3>1 DEF IsFold
    <3>3. CASE s = {}
      BY <3>2, <3>3 DEF FoldStep
    <3>4. CASE s # {}
      <4>1. s \ {Max(s)} \in SUBSET (1..n + 1) /\ n + 1 \notin s \ {Max(s)}
        BY <2>2
      <4>2. h[s \ {Max(s)}] = g[s \ {Max(s)}]
        BY <4>1
      <4> QED BY <3>2, <3>4, <4>2 DEF FoldStep
    <3> QED BY <3>3, <3>4
  <2> QED BY <2>1, <2>2
<1>2. h = [s \in SUBSET (1..n + 1) |-> h[s]]
  OBVIOUS
<1> HIDE DEF h
<1>3. IsFold(base, F, n + 1, h)
  BY <1>1, <1>2 DEF IsFold
<1> QED BY <1>3

\* So there is one for sequences of every length.
LEMMA FoldExists ==
  ASSUME NEW base, NEW F, NEW n \in Nat
  PROVE  \E g : IsFold(base, F, n, g)
<1> DEFINE Bad == {k \in Nat : ~\E g : IsFold(base, F, k, g)}
<1> SUFFICES ASSUME Bad # {} PROVE FALSE
  OBVIOUS
<1>1. PICK k \in Bad : \A j \in Bad : k <= j
  <2>1. Bad \in SUBSET Nat
    OBVIOUS
  <2> HIDE DEF Bad
  <2> QED BY <2>1, Least
<1>2. CASE k = 0
  <2> DEFINE g == [s \in SUBSET (1..0) |-> base]
  <2>1. SUBSET (1..0) = {{}}
    OBVIOUS
  <2>2. IsFold(base, F, 0, g)
    BY <2>1 DEF IsFold, FoldStep
  <2> QED BY <1>1, <1>2, <2>2
<1>3. CASE k # 0
  <2>1. k - 1 \in Nat /\ k - 1 \notin Bad /\ (k - 1) + 1 = k
    BY <1>1, <1>3
  <2>2. PICK g : IsFold(base, F, k - 1, g)
    BY <2>1
  <2>3. \E h : IsFold(base, F, k, h)
    BY <2>1, <2>2, FoldNext
  <2> QED BY <1>1, <2>3
<1> QED BY <1>2, <1>3

\* Its values are of the type of the base, where every element keeps to it.
LEMMA FoldType ==
  ASSUME NEW Acc, NEW base \in Acc, NEW n \in Nat, NEW F \in [1..n -> [Acc -> Acc]], NEW g,
         IsFold(base, F, n, g)
  PROVE  \A s \in SUBSET (1..n) : g[s] \in Acc
<1> DEFINE D == 1..n
           Bad == {s \in SUBSET D : g[s] \notin Acc}
<1> SUFFICES ASSUME Bad # {} PROVE FALSE
  OBVIOUS
<1>1. PICK s \in Bad : \A t \in Bad : t \subseteq s => t = s
  <2>1. Bad \in SUBSET (SUBSET D) /\ IsFiniteSet(D)
    BY FS_Interval
  <2> HIDE DEF Bad, D
  <2> QED BY <2>1, Smallest
<1>2. g[s] = FoldStep(base, F, g, s)
  BY DEF IsFold
<1>3. CASE s = {}
  BY <1>1, <1>2, <1>3 DEF FoldStep
<1>4. CASE s # {}
  <2>1. Max(s) \in s
    BY <1>4, Greatest
  <2>2. g[s \ {Max(s)}] \in Acc
    BY <1>1, <2>1
  <2>3. F[Max(s)] \in [Acc -> Acc]
    BY <2>1
  <2> QED BY <1>1, <1>2, <1>4, <2>2, <2>3 DEF FoldStep
<1> QED BY <1>3, <1>4

(***************************************************************************)
(* Listing a finite set in an order (module Listing).                      *)
(***************************************************************************)

\* The order R tells any two elements of S apart.
Orders(R, S) ==
  /\ \A x \in S : <<x, x>> \notin R
  /\ \A x, y \in S : x # y => <<x, y>> \in R \/ <<y, x>> \in R
  /\ \A x, y, z \in S : <<x, y>> \in R /\ <<y, z>> \in R => <<x, z>> \in R

\* How many elements of S are before x.
Rank(S, R, x) == Cardinality({y \in S : <<y, x>> \in R})

\* Fewer are before the one that is before the other.
LEMMA RankGrows ==
  ASSUME NEW S, IsFiniteSet(S), NEW R, Orders(R, S), NEW x \in S, NEW y \in S,
         <<x, y>> \in R
  PROVE  Rank(S, R, x) < Rank(S, R, y)
<1> DEFINE X == {z \in S : <<z, x>> \in R}
           Y == {z \in S : <<z, y>> \in R}
<1>1. X \subseteq Y /\ x \in Y /\ x \notin X
  BY DEF Orders
<1>2. IsFiniteSet(Y)
  BY FS_Subset
<1>3. Cardinality(X) <= Cardinality(Y) /\ Cardinality(X) # Cardinality(Y)
  <2> HIDE DEF X, Y
  <2> QED BY <1>1, <1>2, FS_Subset
<1>4. Cardinality(X) \in Nat /\ Cardinality(Y) \in Nat
  BY <1>1, <1>2, FS_Subset, FS_CardinalityType
<1> HIDE DEF X, Y
<1>5. Cardinality(X) < Cardinality(Y)
  BY <1>3, <1>4
<1> QED BY <1>5 DEF Rank, X, Y

\* The ranks of the n elements of S are 0..n-1, and they grow in the order.
LEMMA Ranked ==
  ASSUME NEW S, IsFiniteSet(S), NEW R, Orders(R, S)
  PROVE  /\ Cardinality(S) \in Nat
         /\ \A x \in S : Rank(S, R, x) \in 0..Cardinality(S) - 1
         /\ \A x, y \in S : <<x, y>> \in R <=> Rank(S, R, x) < Rank(S, R, y)
         /\ \A r \in 0..Cardinality(S) - 1 : \E x \in S : Rank(S, R, x) = r
<1> DEFINE c == Cardinality(S)
<1>1. c \in Nat
  BY FS_CardinalityType
<1>2. ASSUME NEW x \in S PROVE Rank(S, R, x) \in 0..c - 1
  <2> DEFINE X == {z \in S : <<z, x>> \in R}
  <2>1. X \subseteq S /\ x \notin X
    BY DEF Orders
  <2>2. Cardinality(X) <= c /\ Cardinality(X) # c /\ IsFiniteSet(X)
    <3> HIDE DEF X
    <3> QED BY <2>1, FS_Subset
  <2>3. Cardinality(X) \in Nat
    BY <2>2, FS_CardinalityType
  <2> HIDE DEF X
  <2>4. Cardinality(X) \in 0..c - 1
    BY <1>1, <2>2, <2>3
  <2> QED BY <2>4 DEF Rank, X
<1>3. \A x, y \in S : <<x, y>> \in R => Rank(S, R, x) < Rank(S, R, y)
  BY RankGrows
<1>4. ASSUME NEW x \in S, NEW y \in S, Rank(S, R, x) < Rank(S, R, y) PROVE <<x, y>> \in R
  <2>1. x # y /\ ~(Rank(S, R, y) < Rank(S, R, x))
    BY <1>1, <1>2, <1>4
  <2> QED BY <1>3, <2>1 DEF Orders
<1>5. ASSUME NEW r \in 0..c - 1, \A x \in S : Rank(S, R, x) # r PROVE FALSE
  <2> DEFINE T == (0..c - 1) \ {r}
             f == [x \in S |-> Rank(S, R, x)]
  <2>1. IsFiniteSet(T) /\ Cardinality(T) < c
    <3>1. IsFiniteSet(0..c - 1) /\ Cardinality(0..c - 1) = c
      BY <1>1, <1>5, FS_Interval
    <3>2. IsFiniteSet(T) /\ Cardinality(T) = c - 1
      BY <1>5, <3>1, FS_RemoveElement
    <3> QED BY <1>1, <3>2
  <2>2. f \in [S -> T]
    BY <1>2, <1>5
  <2>3. PICK x, y \in S : x # y /\ f[x] = f[y]
    <3> HIDE DEF f, T
    <3> QED BY <2>1, <2>2, FS_PigeonHole
  <2>4. ~(Rank(S, R, x) < Rank(S, R, y)) /\ ~(Rank(S, R, y) < Rank(S, R, x))
    BY <1>1, <1>2, <2>3
  <2> QED BY <1>3, <2>3, <2>4 DEF Orders
<1> QED BY <1>1, <1>2, <1>3, <1>4, <1>5

\* A sequence of the elements of S by their ranks.
Lists(s, S, R) ==
  /\ DOMAIN s = 1..Cardinality(S)
  /\ \A n \in 1..Cardinality(S) : s[n] \in S /\ Rank(S, R, s[n]) = n - 1

\* The one that takes them by their ranks.
Listed(S, R) == [n \in 1..Cardinality(S) |-> CHOOSE x \in S : Rank(S, R, x) = n - 1]

\* In a strict total order there is an element of every rank to take.
LEMMA ListedLists ==
  ASSUME NEW S, IsFiniteSet(S), NEW R, Orders(R, S)
  PROVE  /\ Lists(Listed(S, R), S, R)
         /\ Listed(S, R) \in [1..Cardinality(S) -> S]
<1> DEFINE c == Cardinality(S)
<1>1. c \in Nat /\ \A r \in 0..c - 1 : \E x \in S : Rank(S, R, x) = r
  BY Ranked
<1>2. ASSUME NEW n \in 1..c
      PROVE  Listed(S, R)[n] \in S /\ Rank(S, R, Listed(S, R)[n]) = n - 1
  <2>1. n - 1 \in 0..c - 1
    BY <1>1
  <2>2. \E x \in S : Rank(S, R, x) = n - 1
    BY <1>1, <2>1
  <2> QED BY <2>2 DEF Listed
<1>3. DOMAIN Listed(S, R) = 1..c /\ Listed(S, R) = [n \in 1..c |-> Listed(S, R)[n]]
  BY DEF Listed
<1>4. Listed(S, R) \in [1..c -> S]
  BY <1>2, <1>3
<1> QED BY <1>2, <1>3, <1>4 DEF Lists

\* It has every element once, in the order.
LEMMA ListsAll ==
  ASSUME NEW S, IsFiniteSet(S), NEW R, Orders(R, S), NEW s, Lists(s, S, R)
  PROVE  /\ \A i, j \in DOMAIN s : <<s[i], s[j]>> \in R <=> i < j
         /\ \A i, j \in DOMAIN s : s[i] = s[j] => i = j
         /\ \A x \in S : \E n \in DOMAIN s : s[n] = x
<1>1. Cardinality(S) \in Nat
  BY Ranked
<1>2. \A i, j \in DOMAIN s : <<s[i], s[j]>> \in R <=> i < j
  <2> TAKE i, j \in DOMAIN s
  <2>1. s[i] \in S /\ s[j] \in S /\ Rank(S, R, s[i]) = i - 1 /\ Rank(S, R, s[j]) = j - 1
        /\ i \in Nat /\ j \in Nat
    BY <1>1 DEF Lists
  <2>2. <<s[i], s[j]>> \in R <=> Rank(S, R, s[i]) < Rank(S, R, s[j])
    BY <2>1, Ranked
  <2> QED BY <2>1, <2>2
<1>3. \A i, j \in DOMAIN s : s[i] = s[j] => i = j
  <2> TAKE i, j \in DOMAIN s
  <2>1. Rank(S, R, s[i]) = i - 1 /\ Rank(S, R, s[j]) = j - 1 /\ i \in Nat /\ j \in Nat
    BY <1>1 DEF Lists
  <2> QED BY <2>1
<1>4. ASSUME NEW x \in S PROVE \E n \in DOMAIN s : s[n] = x
  <2>1. Rank(S, R, x) \in 0..Cardinality(S) - 1
    BY Ranked
  <2> DEFINE n == Rank(S, R, x) + 1
  <2>2. n \in 1..Cardinality(S) /\ n - 1 = Rank(S, R, x)
    BY <1>1, <2>1
  <2>3. n \in DOMAIN s /\ s[n] \in S /\ Rank(S, R, s[n]) = Rank(S, R, x)
    BY <2>2 DEF Lists
  <2>4. s[n] = x
    <3>1. <<s[n], x>> \notin R /\ <<x, s[n]>> \notin R
      <4>1. <<s[n], x>> \in R <=> Rank(S, R, s[n]) < Rank(S, R, x)
        BY <2>3, Ranked
      <4>2. <<x, s[n]>> \in R <=> Rank(S, R, x) < Rank(S, R, s[n])
        BY <2>3, Ranked
      <4> QED BY <1>1, <2>1, <2>3, <4>1, <4>2
    <3> QED BY <2>3, <3>1 DEF Orders
  <2> QED BY <2>3, <2>4
<1> QED BY <1>2, <1>3, <1>4

================================================================================
