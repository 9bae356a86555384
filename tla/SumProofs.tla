----------------------------- MODULE SumProofs -----------------------------
(***************************************************************************)
(* Facts about SumFunction over a finite domain, from its definition as a  *)
(* fold: the recursion it satisfies, and what changing one value changes.  *)
(***************************************************************************)
EXTENDS Integers, FiniteSets, Functions, FiniteSetTheorems, WellFoundedInduction, TLAPS

\* The value of the fold at s, given its values on smaller sets.
SumStep(f, g, s) ==
    IF s = {} THEN 0
    ELSE LET x == CHOOSE x \in s : TRUE IN f[x] + g[s \ {x}]

\* A nonempty set of naturals has a least element.
LEMMA LeastNatural ==
    ASSUME NEW T, T \subseteq Nat, T # {}
    PROVE  \E m \in T : \A n \in T : ~(n < m)
<1>1. PICK m \in T : \A n \in T : ~(<<n, m>> \in OpToRel(<, Nat))
  BY NatLessThanWellFounded, WFMin
<1> QED
  BY <1>1 DEF OpToRel

\* A nonempty family of subsets of a finite set has a minimal member.
LEMMA MinimalSubset ==
    ASSUME NEW S, IsFiniteSet(S), NEW T, T \subseteq SUBSET S, T # {}
    PROVE  \E m \in T : \A s \in T : ~(s \subseteq m /\ s # m)
<1>1. IsWellFoundedOn(StrictSubsetOrdering(S), SUBSET S)
  BY FS_StrictSubsetOrderingWellFounded, FS_FiniteSubsetsOfFinite
<1>2. PICK m \in T : \A s \in T : ~(<<s, m>> \in StrictSubsetOrdering(S))
  BY <1>1, WFMin
<1> QED
  BY <1>2 DEF StrictSubsetOrdering

\* SumFunction, down to the recursive function of the library's fold.
LEMMA Unfold ==
    ASSUME NEW S, NEW f, DOMAIN f = S
    PROVE  LET iter == CHOOSE iter : iter = [s \in SUBSET S |-> SumStep(f, iter, s)]
           IN  SumFunction(f) = iter[S]
BY DEF SumFunction, SumFunctionOnSet, FoldFunctionOnSet, MapThenFoldSet, SumStep

\* g tabulates the sums of f over the subsets of its domain S.
Tabulates(g, f, S) ==
    /\ g \in [SUBSET S -> Nat]
    /\ \A s \in SUBSET S : g[s] = SumStep(f, g, s)

\* Such a table exists: by induction on the size up to which g is right.
LEMMA TableExists ==
    ASSUME NEW S, IsFiniteSet(S), NEW f \in [S -> Nat]
    PROVE  \E g : Tabulates(g, f, S)
<1> DEFINE Upto(n) == \E g \in [SUBSET S -> Nat] :
                        \A s \in SUBSET S : Cardinality(s) <= n => g[s] = SumStep(f, g, s)
<1>1. Upto(0)
  <2>1. \A s \in SUBSET S : Cardinality(s) <= 0 => s = {}
    BY FS_Subset, FS_EmptySet, FS_CardinalityType
  <2> DEFINE g == [s \in SUBSET S |-> 0]
  <2>2. g \in [SUBSET S -> Nat]
    OBVIOUS
  <2>3. \A s \in SUBSET S : Cardinality(s) <= 0 => g[s] = SumStep(f, g, s)
    BY <2>1 DEF SumStep
  <2> QED
    BY <2>2, <2>3
<1>2. ASSUME NEW n \in Nat, Upto(n)
      PROVE  Upto(n + 1)
  <2>1. PICK g \in [SUBSET S -> Nat] :
               \A s \in SUBSET S : Cardinality(s) <= n => g[s] = SumStep(f, g, s)
    BY <1>2
  <2> DEFINE h == [s \in SUBSET S |-> SumStep(f, g, s)]
  <2>2. h \in [SUBSET S -> Nat]
    BY DEF SumStep
  <2>3. ASSUME NEW s \in SUBSET S, Cardinality(s) <= n + 1
        PROVE  h[s] = SumStep(f, h, s)
    <3>1. CASE s = {}
      BY <3>1 DEF SumStep
    <3>2. CASE s # {}
      <4> DEFINE x == CHOOSE x \in s : TRUE
      <4>1. x \in s /\ s \ {x} \in SUBSET S
        BY <3>2
      <4>2. Cardinality(s \ {x}) <= n
        BY <2>3, <4>1, FS_Subset, FS_RemoveElement, FS_CardinalityType
      <4>3. g[s \ {x}] = h[s \ {x}]
        BY <2>1, <4>1, <4>2
      <4> HIDE DEF h
      <4>4. h[s] = SumStep(f, g, s)
        BY DEF h
      <4> QED
        BY <3>2, <4>3, <4>4 DEF SumStep
    <3> QED
      BY <3>1, <3>2
  <2> HIDE DEF h
  <2> QED
    BY <2>2, <2>3
<1>3. \A n \in Nat : Upto(n)
  <2> DEFINE T == {n \in Nat : ~Upto(n)}
  <2> HIDE DEF Upto
  <2> SUFFICES ASSUME T # {} PROVE FALSE
    OBVIOUS
  <2>1. PICK m \in T : \A n \in T : ~(n < m)
    BY LeastNatural
  <2>2. m # 0 /\ m - 1 \in Nat /\ m - 1 \notin T
    BY <1>1, <2>1
  <2>3. Upto((m - 1) + 1)
    BY <1>2, <2>2
  <2> QED
    BY <2>1, <2>2, <2>3
<1>4. PICK g \in [SUBSET S -> Nat] :
             \A s \in SUBSET S : Cardinality(s) <= Cardinality(S) => g[s] = SumStep(f, g, s)
  BY <1>3, FS_CardinalityType
<1> QED
  BY <1>4, FS_Subset DEF Tabulates

\* SumFunction is the entry of such a table for the whole domain.
LEMMA SumIsTabulated ==
    ASSUME NEW S, IsFiniteSet(S), NEW f \in [S -> Nat]
    PROVE  \E g : Tabulates(g, f, S) /\ SumFunction(f) = g[S]
<1> DEFINE iter == CHOOSE iter : iter = [s \in SUBSET S |-> SumStep(f, iter, s)]
<1>1. SumFunction(f) = iter[S]
  BY Unfold
<1>2. PICK h : Tabulates(h, f, S)
  BY TableExists
<1>3. h = [s \in SUBSET S |-> SumStep(f, h, s)]
  BY <1>2 DEF Tabulates
<1>4. iter = [s \in SUBSET S |-> SumStep(f, iter, s)]
  BY <1>3
<1> HIDE DEF iter
<1>5. \A s \in SUBSET S : iter[s] = SumStep(f, iter, s)
  BY <1>4
<1>6. \A s \in SUBSET S : iter[s] \in Nat
  <2> DEFINE T == {s \in SUBSET S : iter[s] \notin Nat}
  <2> SUFFICES ASSUME T # {} PROVE FALSE
    OBVIOUS
  <2>0. T \subseteq SUBSET S
    OBVIOUS
  <2> HIDE DEF T
  <2>1. PICK m \in T : \A s \in T : ~(s \subseteq m /\ s # m)
    BY <2>0, MinimalSubset
  <2> USE DEF T
  <2>2. CASE m = {}
    BY <1>5, <2>1, <2>2 DEF SumStep
  <2>3. CASE m # {}
    <3> DEFINE x == CHOOSE x \in m : TRUE
    <3>1. x \in m
      BY <2>3
    <3>2. m \ {x} \in SUBSET S /\ m \ {x} \notin T
      BY <2>1, <3>1
    <3>3. f[x] \in Nat
      BY <2>1, <3>1
    <3>4. iter[m] = f[x] + iter[m \ {x}]
      BY <1>5, <2>1, <2>3 DEF SumStep
    <3> QED
      BY <2>1, <3>2, <3>3, <3>4
  <2> QED
    BY <2>2, <2>3
<1>7. Tabulates(iter, f, S)
  BY <1>4, <1>5, <1>6 DEF Tabulates
<1> QED
  BY <1>1, <1>7

----------------------------------------------------------------------------
\* The element a sum takes first does not matter.
LEMMA TableRemove ==
    ASSUME NEW S, IsFiniteSet(S), NEW f \in [S -> Nat], NEW g, Tabulates(g, f, S),
           NEW s \in SUBSET S, NEW y \in s
    PROVE  g[s] = f[y] + g[s \ {y}]
<1> DEFINE Bad == {t \in SUBSET S : \E z \in t : g[t] # f[z] + g[t \ {z}]}
<1> SUFFICES ASSUME Bad # {} PROVE FALSE
  OBVIOUS
<1>1. Bad \subseteq SUBSET S
  OBVIOUS
<1> HIDE DEF Bad
<1>2. PICK m \in Bad : \A t \in Bad : ~(t \subseteq m /\ t # m)
  BY <1>1, MinimalSubset
<1>3. PICK z \in m : g[m] # f[z] + g[m \ {z}]
  BY <1>2 DEF Bad
<1> DEFINE x == CHOOSE x \in m : TRUE
<1>4. x \in m /\ m \in SUBSET S
  BY <1>2, <1>3 DEF Bad
<1>5. g[m] = f[x] + g[m \ {x}]
  BY <1>2, <1>3, <1>4 DEF Tabulates, SumStep
<1>6. x # z
  BY <1>3, <1>5
<1> HIDE DEF x
<1>7. g[m \ {x}] = f[z] + g[(m \ {x}) \ {z}]
  <2>1. m \ {x} \notin Bad
    BY <1>2, <1>4
  <2> QED
    BY <2>1, <1>3, <1>4, <1>6 DEF Bad
<1>8. g[m \ {z}] = f[x] + g[(m \ {z}) \ {x}]
  <2>1. m \ {z} \notin Bad
    BY <1>2, <1>3
  <2> QED
    BY <2>1, <1>3, <1>4, <1>6 DEF Bad
<1>9. (m \ {z}) \ {x} = (m \ {x}) \ {z}
  OBVIOUS
<1>10. /\ f[x] \in Nat /\ f[z] \in Nat
       /\ g[(m \ {x}) \ {z}] \in Nat
  BY <1>3, <1>4 DEF Tabulates
<1>11. g[m \ {z}] = f[x] + g[(m \ {x}) \ {z}]
  BY <1>8, <1>9
<1>12. g[m] = f[z] + g[m \ {z}]
  BY <1>5, <1>7, <1>10, <1>11
<1> QED
  BY <1>3, <1>12

\* Sums depend only on the values summed.
LEMMA TablesAgree ==
    ASSUME NEW S, IsFiniteSet(S), NEW f \in [S -> Nat], NEW h \in [S -> Nat],
           NEW g1, Tabulates(g1, f, S), NEW g2, Tabulates(g2, h, S),
           NEW s \in SUBSET S, \A y \in s : f[y] = h[y]
    PROVE  g1[s] = g2[s]
<1> DEFINE Bad == {t \in SUBSET S : t \subseteq s /\ g1[t] # g2[t]}
<1> SUFFICES ASSUME Bad # {} PROVE FALSE
  OBVIOUS
<1>1. Bad \subseteq SUBSET S
  OBVIOUS
<1> HIDE DEF Bad
<1>2. PICK m \in Bad : \A t \in Bad : ~(t \subseteq m /\ t # m)
  BY <1>1, MinimalSubset
<1>3. m \in SUBSET S /\ m \subseteq s /\ g1[m] # g2[m]
  BY <1>2 DEF Bad
<1>4. m # {}
  BY <1>3 DEF Tabulates, SumStep
<1>5. PICK x \in m : TRUE
  BY <1>4
<1>6. g1[m] = f[x] + g1[m \ {x}] /\ g2[m] = h[x] + g2[m \ {x}]
  BY <1>3, <1>5, TableRemove
<1>7. m \ {x} \notin Bad
  BY <1>2, <1>5
<1> QED
  BY <1>3, <1>5, <1>6, <1>7 DEF Bad

----------------------------------------------------------------------------
(***************************************************************************)
(* What the invariants use.                                                *)
(***************************************************************************)

\* A sum of naturals is a natural, and no summand exceeds it.
LEMMA SumBounds ==
    ASSUME NEW S, IsFiniteSet(S), NEW f \in [S -> Nat]
    PROVE  /\ SumFunction(f) \in Nat
           /\ \A x \in S : f[x] <= SumFunction(f)
<1>1. PICK g : Tabulates(g, f, S) /\ SumFunction(f) = g[S]
  BY SumIsTabulated
<1>2. \A s \in SUBSET S : g[s] \in Nat
  BY <1>1 DEF Tabulates
<1>3. ASSUME NEW x \in S
      PROVE  f[x] <= SumFunction(f)
  <2>1. g[S] = f[x] + g[S \ {x}]
    BY <1>1, TableRemove
  <2> QED
    BY <1>1, <1>2, <2>1
<1> QED
  BY <1>1, <1>2, <1>3

\* Changing one value changes the sum by the difference.
LEMMA SumChange ==
    ASSUME NEW S, IsFiniteSet(S), NEW f \in [S -> Nat], NEW h \in [S -> Nat],
           NEW x \in S, \A y \in S \ {x} : h[y] = f[y]
    PROVE  SumFunction(h) = SumFunction(f) - f[x] + h[x]
<1>1. PICK g1 : Tabulates(g1, f, S) /\ SumFunction(f) = g1[S]
  BY SumIsTabulated
<1>2. PICK g2 : Tabulates(g2, h, S) /\ SumFunction(h) = g2[S]
  BY SumIsTabulated
<1>3. g1[S] = f[x] + g1[S \ {x}]
  BY <1>1, TableRemove
<1>4. g2[S] = h[x] + g2[S \ {x}]
  BY <1>2, TableRemove
<1>5. g1[S \ {x}] = g2[S \ {x}]
  BY <1>1, <1>2, TablesAgree
<1>6. g1[S \ {x}] \in Nat
  BY <1>1 DEF Tabulates
<1> QED
  BY <1>1, <1>2, <1>3, <1>4, <1>5, <1>6

\* A sum of zeros is zero.
LEMMA ZeroSum ==
    ASSUME NEW S, IsFiniteSet(S)
    PROVE  SumFunction([x \in S |-> 0]) = 0
<1> DEFINE f == [x \in S |-> 0]
<1>1. f \in [S -> Nat]
  OBVIOUS
<1>2. PICK g : Tabulates(g, f, S) /\ SumFunction(f) = g[S]
  BY <1>1, SumIsTabulated
<1> DEFINE Bad == {s \in SUBSET S : g[s] # 0}
<1>3. ASSUME Bad # {} PROVE FALSE
  <2>0. Bad \subseteq SUBSET S
    OBVIOUS
  <2>1. PICK m \in Bad : \A s \in Bad : ~(s \subseteq m /\ s # m)
    <3> HIDE DEF Bad
    <3> QED
      BY <1>3, <2>0, MinimalSubset
  <2>2. m \in SUBSET S /\ g[m] = SumStep(f, g, m)
    BY <1>2, <2>1 DEF Tabulates
  <2>3. m # {}
    BY <2>1, <2>2 DEF SumStep
  <2>4. PICK x \in m : g[m] = f[x] + g[m \ {x}]
    BY <2>2, <2>3 DEF SumStep
  <2>5. f[x] = 0 /\ m \ {x} \in SUBSET S
    BY <2>2
  <2>6. g[m \ {x}] = 0
    BY <2>1, <2>5
  <2>7. g[m] = 0
    BY <2>4, <2>5, <2>6
  <2> QED
    BY <2>1, <2>7
<1> QED
  BY <1>2, <1>3

\* What such a table is, whichever element is taken away first.
SumsBySubset(g, f, S) ==
    /\ g \in [SUBSET S -> Nat]
    /\ g[{}] = 0
    /\ \A s \in SUBSET S : \A y \in s : g[s] = f[y] + g[s \ {y}]

LEMMA SumRemoves ==
    ASSUME NEW S, IsFiniteSet(S), NEW f \in [S -> Nat]
    PROVE  \E g : SumsBySubset(g, f, S) /\ SumFunction(f) = g[S]
<1>1. PICK g : Tabulates(g, f, S) /\ SumFunction(f) = g[S]
  BY SumIsTabulated
<1>2. ASSUME NEW s \in SUBSET S, NEW y \in s
      PROVE  g[s] = f[y] + g[s \ {y}]
  BY <1>1, TableRemove
<1>3. g[{}] = 0
  BY <1>1 DEF Tabulates, SumStep
<1> QED
  BY <1>1, <1>2, <1>3 DEF Tabulates, SumsBySubset

\* Summing two functions apart or together is the same.
LEMMA SumAdd ==
    ASSUME NEW S, IsFiniteSet(S), NEW f \in [S -> Nat], NEW h \in [S -> Nat],
           NEW both \in [S -> Nat], \A x \in S : both[x] = f[x] + h[x]
    PROVE  SumFunction(both) = SumFunction(f) + SumFunction(h)
<1>1. PICK g1 : SumsBySubset(g1, f, S) /\ SumFunction(f) = g1[S]
  BY SumRemoves
<1>2. PICK g2 : SumsBySubset(g2, h, S) /\ SumFunction(h) = g2[S]
  BY SumRemoves
<1>3. PICK g3 : SumsBySubset(g3, both, S) /\ SumFunction(both) = g3[S]
  BY SumRemoves
<1> DEFINE Bad == {t \in SUBSET S : g3[t] # g1[t] + g2[t]}
<1>4. ASSUME Bad # {} PROVE FALSE
  <2>0. Bad \subseteq SUBSET S
    OBVIOUS
  <2> HIDE DEF Bad
  <2>1. PICK m \in Bad : \A t \in Bad : ~(t \subseteq m /\ t # m)
    BY <1>4, <2>0, MinimalSubset
  <2>2. m \in SUBSET S /\ g3[m] # g1[m] + g2[m]
    BY <2>1 DEF Bad
  <2>3. m # {}
    <3>1. g1[{}] = 0 /\ g2[{}] = 0 /\ g3[{}] = 0
      BY <1>1, <1>2, <1>3 DEF SumsBySubset
    <3> QED
      BY <2>2, <3>1
  <2>4. PICK x \in m : TRUE
    BY <2>3
  <2>5. /\ g1[m] = f[x] + g1[m \ {x}]
        /\ g2[m] = h[x] + g2[m \ {x}]
        /\ g3[m] = both[x] + g3[m \ {x}]
    BY <1>1, <1>2, <1>3, <2>2 DEF SumsBySubset
  <2>6. g3[m \ {x}] = g1[m \ {x}] + g2[m \ {x}]
    BY <2>0, <2>1, <2>2 DEF Bad
  <2>7. /\ f[x] \in Nat /\ h[x] \in Nat /\ both[x] = f[x] + h[x]
        /\ g1[m \ {x}] \in Nat /\ g2[m \ {x}] \in Nat
    BY <1>1, <1>2, <2>2 DEF SumsBySubset
  <2> QED
    BY <2>2, <2>5, <2>6, <2>7
<1> QED
  BY <1>1, <1>2, <1>3, <1>4

\* Larger summands give a larger sum.
LEMMA SumGrows ==
    ASSUME NEW S, IsFiniteSet(S), NEW f \in [S -> Nat], NEW h \in [S -> Nat],
           \A x \in S : f[x] <= h[x]
    PROVE  SumFunction(f) <= SumFunction(h)
<1> DEFINE rest == [x \in S |-> h[x] - f[x]]
<1>1. rest \in [S -> Nat] /\ \A x \in S : h[x] = f[x] + rest[x]
  OBVIOUS
<1> HIDE DEF rest
<1>2. SumFunction(h) = SumFunction(f) + SumFunction(rest)
  BY <1>1, SumAdd
<1>3. SumFunction(f) \in Nat /\ SumFunction(rest) \in Nat
  BY <1>1, SumBounds
<1> QED
  BY <1>2, <1>3

=============================================================================
