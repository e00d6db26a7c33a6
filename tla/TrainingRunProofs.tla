-------------------------- MODULE TrainingRunProofs --------------------------
(***************************************************************************)
(* Proofs about TrainingRun, for any pool, any job and any interval: sums, *)
(* largest remainders, and the invariants of the plan and of the step.     *)
(***************************************************************************)
EXTENDS TrainingRun, FiniteSetTheorems, WellFoundedInduction, TLAPS

-----------------------------------------------------------------------------
(* Induction, over sets instead of predicates: the well-founded orderings of
   the library have a minimal element in every set of counterexamples.      *)

LEMMA NaturalsOneByOne ==
    ASSUME NEW Good, 0 \in Good, \A n \in Nat : n \in Good => n + 1 \in Good
    PROVE  Nat \subseteq Good
<1> DEFINE Bad == Nat \ Good
           Less == {ss \in Nat \X Nat : ss[1] < ss[2]}
<1> SUFFICES ASSUME Bad # {}
             PROVE  FALSE
  OBVIOUS
<1>1. IsWellFoundedOn(Less, Nat)
  BY NatLessThanWellFounded DEF OpToRel
<1>2. PICK n \in Bad : \A k \in Bad : <<k, n>> \notin Less
  <2>1. Bad \subseteq Nat
    OBVIOUS
  <2> HIDE DEF Bad, Less
  <2>2. QED
    BY <1>1, <2>1, WFMin
<1>3. n \in Nat /\ n # 0
  OBVIOUS
<1>4. n - 1 \in Nat /\ <<n - 1, n>> \in Less
  BY <1>3
<1>5. n - 1 \in Good
  BY <1>2, <1>4
<1>6. QED
  BY <1>3, <1>4, <1>5

LEMMA SubsetsOneByOne ==
    ASSUME NEW U, IsFiniteSet(U), NEW Good,
           \A S \in SUBSET U : (\A x \in S : S \ {x} \in Good) => S \in Good
    PROVE  SUBSET U \subseteq Good
<1> DEFINE Bad == (SUBSET U) \ Good
<1> SUFFICES ASSUME Bad # {}
             PROVE  FALSE
  OBVIOUS
<1>1. IsWellFoundedOn(StrictSubsetOrdering(U), FiniteSubsetsOf(U))
  BY FS_StrictSubsetOrderingWellFounded
<1>2. Bad \subseteq FiniteSubsetsOf(U)
  BY FS_Subset DEF FiniteSubsetsOf
<1>3. PICK S \in Bad : \A T \in Bad : <<T, S>> \notin StrictSubsetOrdering(U)
  <2> HIDE DEF Bad
  <2>1. QED
    BY <1>1, <1>2, WFMin
<1>4. PICK x \in S : S \ {x} \notin Good
  OBVIOUS
<1>5. <<S \ {x}, S>> \in StrictSubsetOrdering(U)
  BY <1>4 DEF StrictSubsetOrdering
<1>6. QED
  BY <1>3, <1>4, <1>5

-----------------------------------------------------------------------------
(* Sums.  *)

\* One element of a set after the other is added.
Adds(g, f, U) ==
    g = [s \in SUBSET U |-> IF s = {} THEN 0
                            ELSE f[CHOOSE x \in s : TRUE] + g[s \ {CHOOSE x \in s : TRUE}]]

\* What Adds says of one set.
AddsAt(g, f, s) ==
    g[s] = IF s = {} THEN 0 ELSE f[CHOOSE x \in s : TRUE] + g[s \ {CHOOSE x \in s : TRUE}]

LEMMA OneIsChosen ==
    ASSUME NEW U, IsFiniteSet(U), NEW s \in SUBSET U, s # {}
    PROVE  LET c == CHOOSE x \in s : TRUE
           IN /\ c \in s /\ s \ {c} \in SUBSET U
              /\ Cardinality(s) \in Nat /\ Cardinality(s \ {c}) = Cardinality(s) - 1
<1> DEFINE c == CHOOSE x \in s : TRUE
<1>1. c \in s
  OBVIOUS
<1>2. IsFiniteSet(s)
  BY FS_Subset
<1> HIDE DEF c
<1>3. QED
  BY <1>1, <1>2, FS_RemoveElement, FS_CardinalityType

LEMMA AddsExtends ==
    ASSUME NEW f, NEW U, IsFiniteSet(U), NEW n \in Nat, NEW g,
           \A s \in SUBSET U : Cardinality(s) <= n => AddsAt(g, f, s)
    PROVE  \E h : \A s \in SUBSET U : Cardinality(s) <= n + 1 => AddsAt(h, f, s)
<1> DEFINE c(s) == CHOOSE x \in s : TRUE
           h == [s \in SUBSET U |-> IF Cardinality(s) <= n THEN g[s]
                                    ELSE f[c(s)] + g[s \ {c(s)}]]
<1>1. ASSUME NEW s \in SUBSET U, Cardinality(s) <= n + 1
      PROVE  AddsAt(h, f, s)
  <2>1. Cardinality({}) = 0 /\ IsFiniteSet(s) /\ Cardinality(s) \in Nat
    BY FS_EmptySet, FS_Subset, FS_CardinalityType
  <2>2. CASE s = {}
    BY <2>1, <2>2 DEF AddsAt
  <2>3. CASE s # {}
    <3>1. s \ {c(s)} \in SUBSET U /\ Cardinality(s \ {c(s)}) <= n
      BY <1>1, <2>1, <2>3, OneIsChosen
    <3>2. h[s \ {c(s)}] = g[s \ {c(s)}]
      BY <3>1
    <3>3. h[s] = f[c(s)] + g[s \ {c(s)}]
      BY <2>3 DEF AddsAt
    <3>4. QED
      BY <2>3, <3>2, <3>3 DEF AddsAt
  <2>4. QED
    BY <2>2, <2>3
<1> HIDE DEF h
<1>2. QED
  BY <1>1

LEMMA AddsExists ==
    ASSUME NEW f, NEW U, IsFiniteSet(U)
    PROVE  \E g : Adds(g, f, U)
<1> DEFINE Good == {n \in Nat : \E g : \A s \in SUBSET U : Cardinality(s) <= n => AddsAt(g, f, s)}
<1>1. 0 \in Good
  <2> DEFINE g == [s \in SUBSET U |-> 0]
  <2>1. \A s \in SUBSET U : Cardinality(s) <= 0 => s = {}
    BY FS_Subset, FS_CardinalityType, FS_EmptySet
  <2>2. \A s \in SUBSET U : Cardinality(s) <= 0 => AddsAt(g, f, s)
    BY <2>1 DEF AddsAt
  <2> HIDE DEF g
  <2>3. QED
    BY <2>2
<1>2. ASSUME NEW n \in Nat, n \in Good
      PROVE  n + 1 \in Good
  <2>1. PICK g : \A s \in SUBSET U : Cardinality(s) <= n => AddsAt(g, f, s)
    BY <1>2
  <2>2. \E h : \A s \in SUBSET U : Cardinality(s) <= n + 1 => AddsAt(h, f, s)
    BY <2>1, AddsExtends
  <2>3. QED
    BY <2>2
<1>3. Cardinality(U) \in Good
  <2> HIDE DEF Good
  <2>1. QED
    BY <1>1, <1>2, NaturalsOneByOne, FS_CardinalityType
<1>4. PICK g : \A s \in SUBSET U : AddsAt(g, f, s)
  BY <1>3, FS_Subset
<1> DEFINE c(s) == CHOOSE x \in s : TRUE
           D(s) == IF s = {} THEN 0 ELSE f[c(s)] + g[s \ {c(s)}]
           h == [s \in SUBSET U |-> D(s)]
<1>5. ASSUME NEW s \in SUBSET U
      PROVE  D(s) = IF s = {} THEN 0 ELSE f[c(s)] + h[s \ {c(s)}]
  <2>1. CASE s # {}
    <3>1. s \ {c(s)} \in SUBSET U
      OBVIOUS
    <3>2. h[s \ {c(s)}] = g[s \ {c(s)}]
      BY <1>4, <3>1 DEF AddsAt
    <3>3. QED
      BY <2>1, <3>2
  <2>2. QED
    BY <2>1
<1>6. Adds(h, f, U)
  BY <1>5 DEF Adds
<1> HIDE DEF h
<1>7. QED
  BY <1>6

LEMMA AddsAgree ==
    ASSUME NEW f, NEW U, IsFiniteSet(U), NEW T \in SUBSET U,
           NEW g, Adds(g, f, U), NEW h, Adds(h, f, T)
    PROVE  \A s \in SUBSET T : g[s] = h[s]
<1> DEFINE Good == {s \in SUBSET T : g[s] = h[s]}
<1>1. IsFiniteSet(T)
  BY FS_Subset
<1>2. ASSUME NEW s \in SUBSET T, \A x \in s : s \ {x} \in Good
      PROVE  s \in Good
  <2>1. AddsAt(g, f, s) /\ AddsAt(h, f, s)
    BY DEF Adds, AddsAt
  <2>2. s # {} => (CHOOSE x \in s : TRUE) \in s
    OBVIOUS
  <2>3. QED
    BY <1>2, <2>1, <2>2 DEF AddsAt
<1>3. SUBSET T \subseteq Good
  <2> HIDE DEF Good
  <2>1. QED
    BY <1>1, <1>2, SubsetsOneByOne
<1>4. QED
  BY <1>3

LEMMA TotalIsAdded ==
    ASSUME NEW f, NEW U
    PROVE  Total(f, U) = (CHOOSE g : Adds(g, f, U))[U]
BY DEF Total, FoldFunctionOnSet, MapThenFoldSet, Adds

LEMMA TotalStep ==
    ASSUME NEW f, NEW S, IsFiniteSet(S)
    PROVE  /\ S = {} => Total(f, S) = 0
           /\ S # {} => LET c == CHOOSE x \in S : TRUE
                        IN Total(f, S) = f[c] + Total(f, S \ {c})
<1> DEFINE c == CHOOSE x \in S : TRUE
           g == CHOOSE k : Adds(k, f, S)
           h == CHOOSE k : Adds(k, f, S \ {c})
<1>1. IsFiniteSet(S \ {c})
  BY FS_Subset
<1>2. Adds(g, f, S) /\ Adds(h, f, S \ {c})
  BY <1>1, AddsExists
<1>3. Total(f, S) = g[S] /\ Total(f, S \ {c}) = h[S \ {c}]
  BY TotalIsAdded
<1>4. g[S] = IF S = {} THEN 0 ELSE f[c] + g[S \ {c}]
  BY <1>2 DEF Adds
<1>5. g[S \ {c}] = h[S \ {c}]
  <2> HIDE DEF c, g, h
  <2>1. QED
    BY <1>2, AddsAgree
<1>6. QED
  BY <1>3, <1>4, <1>5

LEMMA TotalEmpty == \A f : Total(f, {}) = 0
BY TotalStep, FS_EmptySet

LEMMA TotalIsNat ==
    ASSUME NEW S, IsFiniteSet(S), NEW f, \A x \in S : f[x] \in Nat
    PROVE  \A T \in SUBSET S : Total(f, T) \in Nat
<1> DEFINE Good == {T \in SUBSET S : Total(f, T) \in Nat}
<1>1. ASSUME NEW T \in SUBSET S, \A x \in T : T \ {x} \in Good
      PROVE  T \in Good
  <2> DEFINE c == CHOOSE x \in T : TRUE
  <2>1. T # {} => c \in T /\ Total(f, T) = f[c] + Total(f, T \ {c})
    BY TotalStep, FS_Subset
  <2> HIDE DEF c
  <2>2. QED
    BY <1>1, <2>1, TotalEmpty
<1>2. SUBSET S \subseteq Good
  <2> HIDE DEF Good
  <2>1. QED
    BY <1>1, SubsetsOneByOne
<1>3. QED
  BY <1>2

\* Whichever element is added first.
LEMMA TotalTakeOne ==
    ASSUME NEW S, IsFiniteSet(S), NEW f, \A x \in S : f[x] \in Nat
    PROVE  \A T \in SUBSET S : \A x \in T : Total(f, T) = f[x] + Total(f, T \ {x})
<1> DEFINE Good == {T \in SUBSET S : \A x \in T : Total(f, T) = f[x] + Total(f, T \ {x})}
<1>0. \A T \in SUBSET S : Total(f, T) \in Nat
  BY TotalIsNat
<1>1. ASSUME NEW T \in SUBSET S, \A x \in T : T \ {x} \in Good
      PROVE  T \in Good
  <2> DEFINE c == CHOOSE x \in T : TRUE
  <2>1. T # {} => c \in T /\ Total(f, T) = f[c] + Total(f, T \ {c})
    BY TotalStep, FS_Subset
  <2> HIDE DEF c
  <2>2. ASSUME NEW x \in T, x # c
        PROVE  Total(f, T) = f[x] + Total(f, T \ {x})
    <3>1. x \in T \ {c} /\ c \in T \ {x} /\ (T \ {c}) \ {x} = (T \ {x}) \ {c}
      BY <2>1, <2>2
    <3>2. /\ Total(f, T \ {c}) = f[x] + Total(f, (T \ {c}) \ {x})
          /\ Total(f, T \ {x}) = f[c] + Total(f, (T \ {x}) \ {c})
      BY <1>1, <2>1, <3>1
    <3>3. f[x] \in Nat /\ f[c] \in Nat /\ Total(f, (T \ {x}) \ {c}) \in Nat
      BY <1>0, <2>1
    <3>4. QED
      BY <2>1, <3>1, <3>2, <3>3
  <2>3. QED
    BY <2>1, <2>2
<1>2. SUBSET S \subseteq Good
  <2> HIDE DEF Good
  <2>1. QED
    BY <1>1, SubsetsOneByOne
<1>3. QED
  BY <1>2

\* The same summands; none that is larger; summands that are zero left out.
LEMMA TotalCompared ==
    ASSUME NEW S, IsFiniteSet(S), NEW f, \A x \in S : f[x] \in Nat,
           NEW g, \A x \in S : g[x] \in Nat
    PROVE  /\ (\A x \in S : f[x] = g[x]) => Total(f, S) = Total(g, S)
           /\ (\A x \in S : f[x] <= g[x]) => Total(f, S) <= Total(g, S)
           /\ \A T \in SUBSET S : (\A x \in S \ T : f[x] = 0) => Total(f, S) = Total(f, T)
           /\ \A x \in S : f[x] <= Total(f, S)
<1>0. /\ \A T \in SUBSET S : Total(f, T) \in Nat /\ Total(g, T) \in Nat
      /\ \A T \in SUBSET S : \A x \in T : /\ Total(f, T) = f[x] + Total(f, T \ {x})
                                          /\ Total(g, T) = g[x] + Total(g, T \ {x})
  BY TotalIsNat, TotalTakeOne
<1>1. ASSUME \A x \in S : f[x] <= g[x]
      PROVE  Total(f, S) <= Total(g, S)
  <2> DEFINE Good == {T \in SUBSET S : Total(f, T) <= Total(g, T)}
  <2>1. ASSUME NEW T \in SUBSET S, \A x \in T : T \ {x} \in Good
        PROVE  T \in Good
    <3>1. CASE T = {}
      BY <3>1, TotalEmpty
    <3>2. CASE T # {}
      <4>1. PICK x \in T : TRUE
        BY <3>2
      <4>2. f[x] \in Nat /\ g[x] \in Nat /\ f[x] <= g[x]
        BY <1>1
      <4>3. /\ Total(f, T \ {x}) \in Nat /\ Total(g, T \ {x}) \in Nat
            /\ Total(f, T \ {x}) <= Total(g, T \ {x})
        BY <1>0, <2>1, <4>1
      <4>4. QED
        BY <1>0, <4>1, <4>2, <4>3
    <3>3. QED
      BY <3>1, <3>2
  <2>2. SUBSET S \subseteq Good
    <3> HIDE DEF Good
    <3>1. QED
      BY <2>1, SubsetsOneByOne
  <2>3. QED
    BY <2>2
<1>2. ASSUME \A x \in S : f[x] = g[x]
      PROVE  Total(f, S) = Total(g, S)
  <2> DEFINE Good == {T \in SUBSET S : Total(f, T) = Total(g, T)}
  <2>1. ASSUME NEW T \in SUBSET S, \A x \in T : T \ {x} \in Good
        PROVE  T \in Good
    <3>1. CASE T = {}
      BY <3>1, TotalEmpty
    <3>2. CASE T # {}
      BY <1>0, <1>2, <2>1, <3>2
    <3>3. QED
      BY <3>1, <3>2
  <2>2. SUBSET S \subseteq Good
    <3> HIDE DEF Good
    <3>1. QED
      BY <2>1, SubsetsOneByOne
  <2>3. QED
    BY <2>2
<1>3. ASSUME NEW T \in SUBSET S, \A x \in S \ T : f[x] = 0
      PROVE  Total(f, S) = Total(f, T)
  <2> DEFINE Good == {R \in SUBSET S : Total(f, R) = Total(f, R \cap T)}
  <2>1. ASSUME NEW R \in SUBSET S, \A x \in R : R \ {x} \in Good
        PROVE  R \in Good
    <3>1. CASE R \subseteq T
      <4>1. R \cap T = R
        BY <3>1
      <4>2. QED
        BY <4>1
    <3>2. ASSUME NEW x \in R, x \notin T
          PROVE  R \in Good
      <4>1. (R \ {x}) \cap T = R \cap T /\ f[x] = 0
        BY <1>3, <3>2
      <4>2. Total(f, R \ {x}) = Total(f, (R \ {x}) \cap T)
        BY <2>1, <3>2
      <4>3. Total(f, R) = 0 + Total(f, R \ {x}) /\ Total(f, R \ {x}) \in Nat
        BY <1>0, <3>2, <4>1
      <4>4. Total(f, R) = Total(f, R \ {x})
        BY <4>3
      <4>5. Total(f, (R \ {x}) \cap T) = Total(f, R \cap T)
        BY <4>1
      <4>6. QED
        BY <4>2, <4>4, <4>5
    <3>3. QED
      BY <3>1, <3>2
  <2>2. SUBSET S \subseteq Good
    <3> HIDE DEF Good
    <3>1. QED
      BY <2>1, SubsetsOneByOne
  <2>3. S \cap T = T
    OBVIOUS
  <2>4. QED
    BY <2>2, <2>3
<1>4. ASSUME NEW x \in S
      PROVE  f[x] <= Total(f, S)
  <2>1. Total(f, S) = f[x] + Total(f, S \ {x}) /\ Total(f, S \ {x}) \in Nat /\ f[x] \in Nat
    BY <1>0
  <2>2. QED
    BY <2>1
<1>5. QED
  BY <1>1, <1>2, <1>3, <1>4

\* One more for each element of a part of the set.
LEMMA TotalWithOneMore ==
    ASSUME NEW S, IsFiniteSet(S), NEW f, \A x \in S : f[x] \in Nat, NEW X \in SUBSET S,
           NEW g, \A x \in S : g[x] = IF x \in X THEN f[x] + 1 ELSE f[x]
    PROVE  Total(g, S) = Total(f, S) + Cardinality(X)
<1> DEFINE Good == {T \in SUBSET S : Total(g, T) = Total(f, T) + Cardinality(X \cap T)}
<1>0. /\ \A T \in SUBSET S : Total(f, T) \in Nat /\ Total(g, T) \in Nat
      /\ \A T \in SUBSET S : \A x \in T : /\ Total(f, T) = f[x] + Total(f, T \ {x})
                                          /\ Total(g, T) = g[x] + Total(g, T \ {x})
  <2>1. \A x \in S : g[x] \in Nat
    OBVIOUS
  <2>2. QED
    BY <2>1, TotalIsNat, TotalTakeOne
<1>1. ASSUME NEW T \in SUBSET S, \A x \in T : T \ {x} \in Good
      PROVE  T \in Good
  <2>1. CASE T = {}
    <3>1. X \cap T = {}
      BY <2>1
    <3>2. QED
      BY <2>1, <3>1, TotalEmpty, FS_EmptySet
  <2>2. ASSUME NEW x \in T
        PROVE  T \in Good
    <3>1. IsFiniteSet(X \cap T) /\ IsFiniteSet(X \cap (T \ {x}))
      BY FS_Subset
    <3>2. Cardinality(X \cap (T \ {x})) \in Nat
      BY <3>1, FS_CardinalityType
    <3>3. Cardinality(X \cap T) = Cardinality(X \cap (T \ {x})) + (IF x \in X THEN 1 ELSE 0)
      <4>1. CASE x \in X
        <5>1. X \cap (T \ {x}) = (X \cap T) \ {x} /\ x \in X \cap T
          BY <2>2, <4>1
        <5>2. Cardinality((X \cap T) \ {x}) = Cardinality(X \cap T) - 1 /\ Cardinality(X \cap T) \in Nat
          BY <3>1, <5>1, FS_RemoveElement, FS_CardinalityType
        <5>3. QED
          BY <4>1, <5>1, <5>2
      <4>2. CASE x \notin X
        <5>1. X \cap (T \ {x}) = X \cap T
          BY <4>2
        <5>2. Cardinality(X \cap T) = Cardinality(X \cap (T \ {x}))
          BY <5>1
        <5>3. QED
          BY <3>2, <4>2, <5>2
      <4>3. QED
        BY <4>1, <4>2
    <3>4. Total(g, T \ {x}) = Total(f, T \ {x}) + Cardinality(X \cap (T \ {x}))
      BY <1>1, <2>2
    <3>5. /\ f[x] \in Nat /\ g[x] = f[x] + (IF x \in X THEN 1 ELSE 0)
          /\ Total(f, T \ {x}) \in Nat
          /\ Total(f, T) = f[x] + Total(f, T \ {x}) /\ Total(g, T) = g[x] + Total(g, T \ {x})
      BY <1>0, <2>2
    <3>6. Total(g, T) = Total(f, T) + Cardinality(X \cap T)
      BY <3>2, <3>3, <3>4, <3>5
    <3>7. QED
      BY <3>6
  <2>3. QED
    BY <2>1, <2>2
<1>2. SUBSET S \subseteq Good
  <2> HIDE DEF Good
  <2>1. QED
    BY <1>1, SubsetsOneByOne
<1>3. X \cap S = X
  OBVIOUS
<1>4. QED
  BY <1>2, <1>3

\* Quotients and remainders are added one by one.
LEMMA TotalDivided ==
    ASSUME NEW S, IsFiniteSet(S), NEW a \in Nat, NEW w \in Nat,
           NEW t, \A x \in S : t[x] \in Nat, NEW d, \A x \in S : d[x] \in Nat,
           NEW p, \A x \in S : p[x] \in Nat,
           \A x \in S : t[x] * a = d[x] * w + p[x]
    PROVE  Total(t, S) * a = Total(d, S) * w + Total(p, S)
<1> DEFINE Good == {T \in SUBSET S : Total(t, T) * a = Total(d, T) * w + Total(p, T)}
<1>1. ASSUME NEW T \in SUBSET S, \A x \in T : T \ {x} \in Good
      PROVE  T \in Good
  <2>1. CASE T = {}
    BY <2>1, TotalEmpty
  <2>2. ASSUME NEW x \in T
        PROVE  T \in Good
    <3> DEFINE R == T \ {x}
    <3>1. /\ Total(t, T) = t[x] + Total(t, R) /\ Total(d, T) = d[x] + Total(d, R)
          /\ Total(p, T) = p[x] + Total(p, R)
      BY TotalTakeOne
    <3>2. /\ Total(t, R) \in Nat /\ Total(d, R) \in Nat /\ Total(p, R) \in Nat
      BY TotalIsNat
    <3>3. /\ Total(t, R) * a = Total(d, R) * w + Total(p, R)
          /\ t[x] * a = d[x] * w + p[x]
      BY <1>1
    <3>4. t[x] \in Nat /\ d[x] \in Nat /\ p[x] \in Nat
      OBVIOUS
    <3> HIDE DEF R, Good
    <3>5. Total(t, T) * a = Total(d, T) * w + Total(p, T)
      <4>1. Total(t, T) * a = t[x] * a + Total(t, R) * a
        BY <3>1, <3>2, <3>4
      <4>2. Total(d, T) * w = d[x] * w + Total(d, R) * w
        BY <3>1, <3>2, <3>4
      <4>3. /\ t[x] * a \in Nat /\ Total(t, R) * a \in Nat /\ d[x] * w \in Nat
            /\ Total(d, R) * w \in Nat
        BY <3>2, <3>4
      <4>4. QED
        BY <3>1, <3>2, <3>3, <3>4, <4>1, <4>2, <4>3
    <3>6. QED
      BY <3>5 DEF Good
  <2>3. QED
    BY <2>1, <2>2
<1>2. SUBSET S \subseteq Good
  <2> HIDE DEF Good
  <2>1. QED
    BY <1>1, SubsetsOneByOne
<1>3. QED
  BY <1>2

\* Remainders below w add up to less than w for each that is not zero.
LEMMA TotalOfSmall ==
    ASSUME NEW S, IsFiniteSet(S), NEW m \in Nat, NEW p, \A x \in S : p[x] \in 0..m
    PROVE  Total(p, S) <= Cardinality({x \in S : p[x] > 0}) * m
<1> DEFINE Some(T) == {x \in T : p[x] > 0}
           Good == {T \in SUBSET S : Total(p, T) <= Cardinality(Some(T)) * m}
<1>1. ASSUME NEW T \in SUBSET S, \A x \in T : T \ {x} \in Good
      PROVE  T \in Good
  <2>1. CASE T = {}
    <3>1. Some(T) = {}
      BY <2>1
    <3>2. QED
      BY <2>1, <3>1, TotalEmpty, FS_EmptySet
  <2>2. ASSUME NEW x \in T
        PROVE  T \in Good
    <3> DEFINE c == Cardinality(Some(T \ {x}))
    <3>1. IsFiniteSet(Some(T)) /\ IsFiniteSet(Some(T \ {x}))
      BY FS_Subset
    <3>2. c \in Nat
      BY <3>1, FS_CardinalityType
    <3>3. Total(p, T \ {x}) <= c * m /\ Total(p, T \ {x}) \in Nat
      BY <1>1, TotalIsNat
    <3>4. Total(p, T) = p[x] + Total(p, T \ {x})
      BY TotalTakeOne
    <3>5. CASE p[x] = 0
      <4>1. Some(T) = Some(T \ {x})
        BY <3>5
      <4>2. Total(p, T) <= c * m
        BY <3>2, <3>3, <3>4, <3>5
      <4>3. QED
        BY <4>1, <4>2
    <3>6. CASE p[x] # 0
      <4>1. Some(T) = Some(T \ {x}) \cup {x} /\ x \notin Some(T \ {x})
        BY <3>6
      <4>2. Cardinality(Some(T)) = c + 1
        BY <3>1, <4>1, FS_AddElement
      <4>3. (c + 1) * m = c * m + m /\ c * m \in Nat
        BY <3>2
      <4>4. Total(p, T) <= (c + 1) * m
        BY <3>2, <3>3, <3>4, <4>3
      <4>5. QED
        BY <4>2, <4>4
    <3>7. QED
      BY <3>5, <3>6
  <2>3. QED
    BY <2>1, <2>2
<1>2. SUBSET S \subseteq Good
  <2> HIDE DEF Good
  <2>1. QED
    BY <1>1, SubsetsOneByOne
<1>3. QED
  BY <1>2

-----------------------------------------------------------------------------
(* Orders.  *)

StrictOrder(R, S) ==
    /\ \A x \in S : <<x, x>> \notin R
    /\ \A x, y \in S : x # y => <<x, y>> \in R \/ <<y, x>> \in R
    /\ \A x, y, z \in S : <<x, y>> \in R /\ <<y, z>> \in R => <<x, z>> \in R

LEMMA SomeoneIsLast ==
    ASSUME NEW S, IsFiniteSet(S), NEW R, StrictOrder(R, S)
    PROVE  \A T \in SUBSET S : T # {} => \E z \in T : \A x \in T \ {z} : <<x, z>> \in R
<1> DEFINE Good == {T \in SUBSET S : T # {} => \E z \in T : \A x \in T \ {z} : <<x, z>> \in R}
<1>1. ASSUME NEW T \in SUBSET S, \A x \in T : T \ {x} \in Good
      PROVE  T \in Good
  <2>1. ASSUME NEW y \in T, T \ {y} # {}
        PROVE  T \in Good
    <3>1. PICK z \in T \ {y} : \A x \in (T \ {y}) \ {z} : <<x, z>> \in R
      BY <1>1, <2>1
    <3>2. CASE <<y, z>> \in R
      BY <3>1, <3>2
    <3>3. CASE <<z, y>> \in R
      <4>1. \A x \in T \ {y} : <<x, y>> \in R
        BY <3>1, <3>3 DEF StrictOrder
      <4>2. QED
        BY <4>1
    <3>4. QED
      BY <3>1, <3>2, <3>3 DEF StrictOrder
  <2>2. ASSUME NEW y \in T, T \ {y} = {}
        PROVE  T \in Good
    BY <2>2
  <2>3. QED
    BY <2>1, <2>2
<1>2. SUBSET S \subseteq Good
  <2> HIDE DEF Good
  <2>1. QED
    BY <1>1, SubsetsOneByOne
<1>3. QED
  BY <1>2

\* As many as are asked for have fewer before them.
LEMMA FirstOnes ==
    ASSUME NEW S, IsFiniteSet(S), NEW R, StrictOrder(R, S), NEW m \in 0..Cardinality(S)
    PROVE  Cardinality({x \in S : Cardinality({k \in S : <<k, x>> \in R}) < m}) = m
<1> DEFINE Before(x, T) == {k \in T : <<k, x>> \in R}
           First(T, n) == {x \in T : Cardinality(Before(x, T)) < n}
           Good == {T \in SUBSET S : \A n \in 0..Cardinality(T) : Cardinality(First(T, n)) = n}
<1>0. /\ \A T \in SUBSET S : IsFiniteSet(T) /\ Cardinality(T) \in Nat
      /\ \A T \in SUBSET S : \A x \in T : Cardinality(T \ {x}) = Cardinality(T) - 1
  BY FS_Subset, FS_CardinalityType, FS_RemoveElement
<1>1. ASSUME NEW T \in SUBSET S, \A x \in T : T \ {x} \in Good
      PROVE  T \in Good
  <2>1. ASSUME NEW x \in T
        PROVE  Cardinality(Before(x, T)) < Cardinality(T)
    <3>1. Before(x, T) \subseteq T \ {x}
      BY DEF StrictOrder
    <3>2. Cardinality(Before(x, T)) <= Cardinality(T \ {x})
      BY <1>0, <3>1, FS_Subset
    <3>3. Cardinality(Before(x, T)) \in Nat /\ Cardinality(T \ {x}) = Cardinality(T) - 1
      BY <1>0
    <3>4. Cardinality(T) \in Nat
      BY <1>0
    <3> HIDE DEF Before
    <3>5. QED
      BY <3>2, <3>3, <3>4
  <2>2. ASSUME NEW n \in 0..Cardinality(T), n = Cardinality(T)
        PROVE  Cardinality(First(T, n)) = n
    <3>1. First(T, n) = T
      BY <2>1, <2>2
    <3>2. QED
      BY <2>2, <3>1
  <2>3. ASSUME NEW n \in 0..Cardinality(T), n # Cardinality(T)
        PROVE  Cardinality(First(T, n)) = n
    <3>1. T # {}
      BY <1>0, <2>3, FS_EmptySet
    <3>2. PICK z \in T : \A x \in T \ {z} : <<x, z>> \in R
      BY <3>1, SomeoneIsLast
    <3>3. Before(z, T) = T \ {z}
      BY <3>2 DEF StrictOrder
    <3>4. Cardinality(T \ {z}) = Cardinality(T) - 1 /\ n \in 0..Cardinality(T \ {z})
      BY <1>0, <2>3
    <3>5. \A x \in T \ {z} : Before(x, T) = Before(x, T \ {z})
      <4>1. \A x \in T \ {z} : <<z, x>> \notin R
        BY <3>2 DEF StrictOrder
      <4>2. QED
        BY <4>1
    <3>6. First(T, n) = First(T \ {z}, n)
      <4>1. z \notin First(T, n)
        <5>1. Cardinality(Before(z, T)) = Cardinality(T \ {z})
          BY <3>3
        <5>2. Cardinality(T \ {z}) \in Nat /\ n <= Cardinality(T \ {z})
          BY <1>0, <3>4
        <5> HIDE DEF Before
        <5>3. QED
          BY <5>1, <5>2
      <4>2. \A x \in T \ {z} : x \in First(T, n) <=> x \in First(T \ {z}, n)
        BY <3>5
      <4> HIDE DEF Before
      <4>3. QED
        BY <4>1, <4>2
    <3>7. QED
      BY <1>1, <3>4, <3>6
  <2>4. QED
    BY <2>2, <2>3
<1>2. SUBSET S \subseteq Good
  <2> HIDE DEF Good
  <2>1. QED
    BY <1>1, SubsetsOneByOne
<1>3. QED
  BY <1>2

-----------------------------------------------------------------------------
(* The split of the batch.  *)

LEMMA CardsAreFinite == IsFiniteSet(CardIds) /\ \A T \in SUBSET CardIds : IsFiniteSet(T)
<1>1. IsFiniteSet(1..Cards)
  BY FS_Interval, TrainingAssumption
<1>2. QED
  BY <1>1, FS_Subset DEF CardIds

LEMMA DivisionLeaves ==
    ASSUME NEW n \in Nat, NEW w \in Nat \ {0}
    PROVE  /\ n \div w \in Nat /\ n % w \in 0..(w - 1)
           /\ n = (n \div w) * w + (n % w)
OBVIOUS

LEMMA LeftOversAreOrdered ==
    ASSUME NEW t \in [CardIds -> Nat], NEW b \in Nat, Total(t, Usable(t)) \in Nat \ {0}
    PROVE  StrictOrder({e \in CardIds \X CardIds : FirstLeft(t, b, e[1], e[2])}, Usable(t))
<1> DEFINE w == Total(t, Usable(t))
           part(i) == (t[i] * b) % w
           R == {e \in CardIds \X CardIds : FirstLeft(t, b, e[1], e[2])}
<1>1. \A i \in CardIds : part(i) \in Nat /\ t[i] \in Nat /\ i \in Nat
  <2> SUFFICES ASSUME NEW i \in CardIds
               PROVE  part(i) \in Nat /\ t[i] \in Nat /\ i \in Nat
    OBVIOUS
  <2>1. t[i] * b \in Nat /\ i \in Nat
    BY DEF CardIds
  <2> HIDE DEF w
  <2>2. w \in Nat \ {0}
    BY DEF w
  <2>3. QED
    BY <2>1, <2>2, DivisionLeaves
<1>2. \A i, k \in CardIds : <<i, k>> \in R <=> \/ part(i) > part(k)
                                               \/ part(i) = part(k) /\ (t[i] > t[k] \/ (t[i] = t[k] /\ i < k))
  BY DEF FirstLeft
<1>3. Usable(t) \subseteq CardIds
  BY DEF Usable
<1> HIDE DEF part, R, w
<1>4. /\ \A x \in Usable(t) : <<x, x>> \notin R
      /\ \A x, y \in Usable(t) : x # y => <<x, y>> \in R \/ <<y, x>> \in R
  BY <1>1, <1>2, <1>3
<1>5. \A x, y, z \in Usable(t) : <<x, y>> \in R /\ <<y, z>> \in R => <<x, z>> \in R
  BY <1>1, <1>2, <1>3
<1>6. StrictOrder(R, Usable(t))
  BY <1>4, <1>5 DEF StrictOrder
<1>7. QED
  BY <1>6 DEF R

\* What is rounded down, and what that leaves.
Down(t, b) ==
    [i \in CardIds |-> IF i \in Usable(t) THEN (t[i] * b) \div Total(t, Usable(t)) ELSE 0]
Part(t, b) ==
    [i \in CardIds |-> IF i \in Usable(t) THEN (t[i] * b) % Total(t, Usable(t)) ELSE 0]
LeftOver(t, b) == b - Total(Down(t, b), Usable(t))

LEMMA PoolHasThroughput ==
    ASSUME NEW t \in [CardIds -> Nat]
    PROVE  /\ Total(t, CardIds) = Total(t, Usable(t)) /\ Total(t, CardIds) \in Nat
           /\ Usable(t) # {} => Total(t, Usable(t)) > 0
<1>1. Usable(t) \in SUBSET CardIds /\ \A i \in CardIds \ Usable(t) : t[i] = 0
  BY DEF Usable
<1>2. \A i \in CardIds : t[i] \in Nat
  OBVIOUS
<1>3. Total(t, CardIds) = Total(t, Usable(t)) /\ Total(t, CardIds) \in Nat
  BY <1>1, <1>2, CardsAreFinite, TotalCompared, TotalIsNat
<1>4. ASSUME NEW i \in Usable(t)
      PROVE  Total(t, Usable(t)) > 0
  <2>1. t[i] > 0 /\ i \in CardIds
    BY DEF Usable
  <2>2. t[i] <= Total(t, CardIds)
    BY <1>2, <2>1, CardsAreFinite, TotalCompared
  <2>3. QED
    BY <1>2, <1>3, <2>1, <2>2
<1>5. QED
  BY <1>3, <1>4

\* Fewer samples are left than there are cards with a remainder.
LEMMA FewAreLeft ==
    ASSUME NEW t \in [CardIds -> Nat], NEW b \in Nat, Usable(t) # {}
    PROVE  LET w == Total(t, Usable(t))
               some == {i \in Usable(t) : Part(t, b)[i] > 0}
           IN /\ w \in Nat \ {0}
              /\ \A i \in Usable(t) : /\ t[i] * b = Down(t, b)[i] * w + Part(t, b)[i]
                                      /\ Down(t, b)[i] \in Nat /\ Part(t, b)[i] \in 0..(w - 1)
              /\ Cardinality(some) \in Nat /\ LeftOver(t, b) \in 0..Cardinality(some)
<1> DEFINE w == Total(t, Usable(t))
           U == Usable(t)
           d == Down(t, b)
           p == Part(t, b)
           some == {i \in U : p[i] > 0}
           c == Cardinality(some)
           left == LeftOver(t, b)
<1>1. w \in Nat \ {0} /\ U \subseteq CardIds /\ IsFiniteSet(U)
  BY PoolHasThroughput, CardsAreFinite DEF Usable
<1>2. ASSUME NEW i \in U
      PROVE  t[i] * b = d[i] * w + p[i] /\ d[i] \in Nat /\ p[i] \in 0..(w - 1) /\ t[i] \in Nat
  <2>1. d[i] = (t[i] * b) \div w /\ p[i] = (t[i] * b) % w
    BY <1>1 DEF Down, Part
  <2>2. t[i] * b \in Nat /\ t[i] \in Nat
    BY <1>1
  <2> HIDE DEF w, d, p, U
  <2>3. QED
    BY <1>1, <2>1, <2>2, DivisionLeaves
<1>3. c \in Nat
  BY <1>1, FS_Subset, FS_CardinalityType
<1>4. Total(d, U) \in Nat /\ Total(p, U) \in Nat
  BY <1>1, <1>2, TotalIsNat
<1>5. left = b - Total(d, U)
  BY DEF LeftOver
<1> HIDE DEF w, d, p, U, left
<1>6. w * b = Total(d, U) * w + Total(p, U)
  <2>1. w = Total(t, U)
    BY DEF w, U
  <2>2. w \in Nat /\ \A i \in U : p[i] \in Nat
    BY <1>1, <1>2
  <2>3. QED
    BY <1>1, <1>2, <2>1, <2>2, TotalDivided
<1>7. Total(p, U) <= c * (w - 1)
  <2>1. w - 1 \in Nat
    BY <1>1
  <2>2. QED
    BY <1>1, <1>2, <2>1, TotalOfSmall
<1> HIDE DEF c
<1>8. left * w = Total(p, U) /\ left \in Int
  <2>1. b = left + Total(d, U) /\ left \in Int
    BY <1>4, <1>5
  <2>2. b * w = left * w + Total(d, U) * w
    BY <1>1, <1>4, <2>1
  <2>3. w * b = b * w /\ left * w \in Int /\ Total(d, U) * w \in Int
    BY <1>1, <1>4, <2>1
  <2>4. QED
    BY <1>4, <1>6, <2>1, <2>2, <2>3
<1>9. left >= 0
  <2> SUFFICES ASSUME left <= 0 - 1
               PROVE  FALSE
    BY <1>8
  <2>1. left * w <= (0 - 1) * w
    BY <1>1, <1>8
  <2>2. QED
    BY <1>1, <1>4, <1>8, <2>1
<1>10. left <= c
  <2> SUFFICES ASSUME left >= c + 1
               PROVE  FALSE
    BY <1>3, <1>8
  <2>1. left * w >= (c + 1) * w
    BY <1>1, <1>3, <1>8
  <2>2. (c + 1) * w = c * (w - 1) + c + w
    BY <1>1, <1>3
  <2>3. c * (w - 1) \in Int
    BY <1>1, <1>3
  <2>4. QED
    BY <1>1, <1>3, <1>4, <1>7, <1>8, <2>1, <2>2, <2>3
<1>11. QED
  BY <1>1, <1>2, <1>3, <1>8, <1>9, <1>10 DEF w, d, p, U, left, c

\* The cards that get one of the samples that are left.
Extra(t, b) ==
    {i \in Usable(t) : Cardinality({k \in Usable(t) \ {i} : FirstLeft(t, b, k, i)}) < LeftOver(t, b)}

LEMMA EachLeftOverIsGiven ==
    ASSUME NEW t \in [CardIds -> Nat], NEW b \in Nat, Usable(t) # {}
    PROVE  /\ Cardinality(Extra(t, b)) = LeftOver(t, b)
           /\ \A i \in Extra(t, b) : Part(t, b)[i] > 0
<1> DEFINE U == Usable(t)
           w == Total(t, U)
           p == Part(t, b)
           some == {i \in U : p[i] > 0}
           left == LeftOver(t, b)
           R == {e \in CardIds \X CardIds : FirstLeft(t, b, e[1], e[2])}
           before(i) == {k \in U \ {i} : FirstLeft(t, b, k, i)}
<1>1. U \subseteq CardIds /\ IsFiniteSet(U)
  BY CardsAreFinite DEF Usable
<1>2. w \in Nat \ {0} /\ Cardinality(some) \in Nat /\ left \in 0..Cardinality(some)
  BY FewAreLeft
<1>3. StrictOrder(R, U)
  BY <1>2, LeftOversAreOrdered
<1>4. \A i \in U : before(i) = {k \in U : <<k, i>> \in R}
  BY <1>1, <1>3 DEF StrictOrder
<1>5. left \in 0..Cardinality(U)
  <2>1. some \subseteq U
    OBVIOUS
  <2>2. Cardinality(some) <= Cardinality(U) /\ Cardinality(U) \in Nat
    BY <1>1, <2>1, FS_Subset, FS_CardinalityType
  <2> HIDE DEF some, U, left
  <2>3. QED
    BY <1>2, <2>2
<1>6. Cardinality(Extra(t, b)) = left
  <2>1. Extra(t, b) = {i \in U : Cardinality({k \in U : <<k, i>> \in R}) < left}
    BY <1>4 DEF Extra
  <2> HIDE DEF R, U, left
  <2>2. QED
    BY <1>1, <1>3, <1>5, <2>1, FirstOnes
<1>7. ASSUME NEW i \in Extra(t, b), ~(p[i] > 0)
      PROVE  FALSE
  <2>1. i \in U /\ Cardinality(before(i)) < left
    BY DEF Extra
  <2>2. some \subseteq before(i)
    <3> SUFFICES ASSUME NEW k \in some
                 PROVE  k \in before(i)
      OBVIOUS
    <3>1. k \in U /\ k # i /\ p[k] > 0 /\ i \in CardIds /\ k \in CardIds
      BY <1>1, <1>7, <2>1
    <3>2. p[i] = (t[i] * b) % w /\ p[k] = (t[k] * b) % w
      BY <1>1, <2>1, <3>1 DEF Part
    <3>3. p[i] \in Nat /\ p[k] \in Nat
      BY <1>2, <2>1, <3>1, FewAreLeft
    <3>4. (t[k] * b) % w > (t[i] * b) % w
      BY <1>7, <3>1, <3>2, <3>3
    <3>5. FirstLeft(t, b, k, i)
      BY <3>4 DEF FirstLeft
    <3>6. QED
      BY <3>1, <3>5
  <2>3. Cardinality(some) <= Cardinality(before(i)) /\ Cardinality(before(i)) \in Nat
    BY <1>1, <2>2, FS_Subset, FS_CardinalityType
  <2> HIDE DEF some, before, left
  <2>4. QED
    BY <1>2, <2>1, <2>3
<1>8. QED
  BY <1>6, <1>7

\* plan_batch_split gives out the whole batch, and each card is within one sample
\* of its share.
LEMMA BatchIsApportioned ==
    ASSUME NEW t \in [CardIds -> Nat], NEW b \in Nat
    PROVE  LET first == Apportioned(t, b)
           IN /\ first \in [CardIds -> Nat]
              /\ \A i \in CardIds \ Usable(t) : first[i] = 0
              /\ Usable(t) # {} =>
                   /\ Total(first, CardIds) = b
                   /\ \A i \in Usable(t) :
                        /\ first[i] * Total(t, CardIds) < t[i] * b + Total(t, CardIds)
                        /\ t[i] * b < first[i] * Total(t, CardIds) + Total(t, CardIds)
<1> DEFINE U == Usable(t)
           w == Total(t, U)
           d == Down(t, b)
           p == Part(t, b)
           X == Extra(t, b)
           first == Apportioned(t, b)
<1>1. first = [i \in CardIds |-> IF i \in X THEN d[i] + 1 ELSE d[i]]
  <2>1. X \subseteq U /\ U \subseteq CardIds
    BY DEF Extra, Usable
  <2>2. first = [i \in CardIds |->
                   IF i \in U /\ Cardinality({k \in U \ {i} : FirstLeft(t, b, k, i)}) < LeftOver(t, b)
                   THEN d[i] + 1 ELSE d[i]]
    BY DEF Apportioned, Down, LeftOver
  <2>3. QED
    BY <2>2 DEF Extra
<1>2. \A i \in CardIds \ U : first[i] = 0 /\ d[i] = 0
  BY <1>1 DEF Down, Extra
<1>3. CASE U = {}
  <2>1. first \in [CardIds -> Nat]
    BY <1>1, <1>2, <1>3
  <2>2. QED
    BY <1>2, <1>3, <2>1
<1>4. CASE U # {}
  <2>1. /\ w \in Nat \ {0} /\ Total(t, CardIds) = w /\ U \subseteq CardIds
        /\ \A i \in U : t[i] * b = d[i] * w + p[i] /\ d[i] \in Nat /\ p[i] \in 0..(w - 1)
    BY <1>4, FewAreLeft, PoolHasThroughput DEF Usable
  <2>2. \A i \in CardIds : d[i] \in Nat
    BY <1>2, <2>1
  <2>3. /\ X \subseteq CardIds /\ X \subseteq U /\ Cardinality(X) = LeftOver(t, b)
        /\ \A i \in X : p[i] > 0
    BY <1>4, EachLeftOverIsGiven DEF Extra, Usable
  <2>4. Total(first, CardIds) = b
    <3>1. \A i \in CardIds : first[i] = IF i \in X THEN d[i] + 1 ELSE d[i]
      BY <1>1
    <3>2. Total(first, CardIds) = Total(d, CardIds) + Cardinality(X)
      <4> HIDE DEF first, X, d
      <4>1. QED
        BY <2>2, <2>3, <3>1, CardsAreFinite, TotalWithOneMore
    <3>3. Total(d, CardIds) = Total(d, U)
      <4>1. \A i \in CardIds \ U : d[i] = 0
        BY <1>2
      <4> HIDE DEF d, U
      <4>2. QED
        BY <2>1, <2>2, <4>1, CardsAreFinite, TotalCompared
    <3>4. Total(d, U) \in Nat
      BY <2>1, <2>2, CardsAreFinite, TotalIsNat
    <3>5. LeftOver(t, b) = b - Total(d, U)
      BY DEF LeftOver
    <3> HIDE DEF first, X, d, U
    <3>6. QED
      BY <2>3, <3>2, <3>3, <3>4, <3>5
  <2>5. ASSUME NEW i \in U
        PROVE  first[i] * w < t[i] * b + w /\ t[i] * b < first[i] * w + w
    <3>1. /\ t[i] * b = d[i] * w + p[i] /\ d[i] \in Nat /\ p[i] \in Nat /\ p[i] < w
          /\ i \in X => p[i] > 0
      BY <2>1, <2>3
    <3>2. first[i] = IF i \in X THEN d[i] + 1 ELSE d[i]
      BY <1>1, <2>1
    <3>3. (d[i] + 1) * w = d[i] * w + w /\ d[i] * w \in Nat
      BY <2>1, <3>1
    <3> HIDE DEF first, X, d, w, p
    <3>4. CASE i \in X
      <4>1. first[i] * w = d[i] * w + w
        BY <3>2, <3>3, <3>4
      <4>2. QED
        BY <2>1, <3>1, <3>3, <3>4, <4>1
    <3>5. CASE i \notin X
      <4>1. first[i] * w = d[i] * w
        BY <3>2, <3>5
      <4>2. QED
        BY <2>1, <3>1, <3>3, <3>5, <4>1
    <3>6. QED
      BY <3>4, <3>5
  <2>6. first \in [CardIds -> Nat]
    BY <1>1, <2>2
  <2>7. QED
    BY <1>2, <2>1, <2>4, <2>5, <2>6
<1>5. QED
  BY <1>3, <1>4

-----------------------------------------------------------------------------
(* The invariant.  *)

\* While the plan is made, no sample is lost: each is on a card, or still over.
PlanInv ==
    phase = "planned" =>
      /\ batch \in 1..Unlimited
      /\ \A i \in CardIds : sizes[i] <= capacity[i] /\ (speed[i] = 0 => sizes[i] = 0)
      /\ IF Usable(speed) = {} THEN overflow = 0 ELSE Total(sizes, CardIds) + overflow = batch
      /\ (\A i \in CardIds : capacity[i] >= batch) =>
           /\ overflow = 0
           /\ \A i \in Usable(speed) :
                /\ sizes[i] * Total(speed, CardIds) < speed[i] * batch + Total(speed, CardIds)
                /\ speed[i] * batch < sizes[i] * Total(speed, CardIds) + Total(speed, CardIds)

\* The replicas that run shards have the weights of the master, and those that are
\* done the gradients of their part.
StepInv ==
    /\ phase \in {"check", "sync", "shards", "reduce", "progress"} => Workers # {}
    /\ phase \in {"idle", "planned"} => step = 0
    /\ hotSteps <= step
    /\ \A i \in Devices : version[i] <= step
    /\ Total(shard, Devices) <= Unlimited
    /\ grad \in [Devices -> SUBSET ((1..Unlimited) \X (0..Steps))]
    /\ phase \in {"shards", "reduce"} =>
         /\ ready \subseteq Workers
         /\ \A i \in Workers : version[i] = version[Master]
         /\ \A i \in ready : grad[i] = Chunk(i) \X {version[i]}
    /\ phase = "reduce" => ready = Workers

TrainingInv == TrainingTypeOK /\ PlanInv /\ StepInv

LEMMA DevicesAreFinite == IsFiniteSet(Devices) /\ CardIds \subseteq Devices /\ 0 \in Devices \ CardIds
<1>1. IsFiniteSet(0..Cards)
  BY FS_Interval, TrainingAssumption
<1>2. QED
  BY <1>1, TrainingAssumption DEF CardIds, Devices

LEMMA TrainingAtFirst == TrainingInit => TrainingInv
<1> SUFFICES ASSUME TrainingInit
             PROVE  TrainingInv
  OBVIOUS
<1>1. Nobody \in [CardIds -> 0..Unlimited] /\ Nobody \in [CardIds -> Nat]
  BY TrainingAssumption DEF Nobody
<1>2. TrainingTypeOK
  <2>1. /\ shard \in [Devices -> 0..Unlimited] /\ version \in [Devices -> 0..Steps]
        /\ 0 \in 0..Unlimited /\ 0 \in 0..Steps
    BY TrainingAssumption DEF TrainingInit
  <2>2. \A i \in Devices : grad[i] \subseteq (1..Unlimited) \X (0..Steps)
    BY DEF TrainingInit
  <2>3. QED
    BY <1>1, <2>1, <2>2 DEF TrainingInit, TrainingTypeOK
<1>3. Total(shard, Devices) = 0
  <2>1. \A i \in Devices : shard[i] = 0
    BY DEF TrainingInit
  <2>2. Total(shard, Devices) = Total(shard, {})
    BY <2>1, DevicesAreFinite, TotalCompared
  <2>3. QED
    BY <2>2, TotalEmpty
<1>4. QED
  BY <1>2, <1>3, TrainingAssumption DEF TrainingInit, TrainingInv, PlanInv, StepInv

LEMMA CapIsWithinBoth ==
    ASSUME NEW a \in Nat, NEW c \in 0..Unlimited
    PROVE  /\ (IF a > c THEN c ELSE a) \in 0..Unlimited
           /\ (IF a > c THEN c ELSE a) <= a /\ (IF a > c THEN c ELSE a) <= c
BY TrainingAssumption

LEMMA PlanKept ==
    ASSUME TrainingInv, NEW t \in [CardIds -> Speeds], NEW b \in Batches,
           NEW c \in [CardIds -> 0..Unlimited], Plan(t, b, c)
    PROVE  TrainingInv'
<1> DEFINE first == Apportioned(t, b)
<1>0. t \in [CardIds -> Nat] /\ b \in 1..Unlimited /\ b \in Nat
  <2>1. Speeds \subseteq Nat /\ b \in 1..Unlimited /\ Unlimited \in Nat
    BY TrainingAssumption
  <2>2. t \in [CardIds -> Nat]
    BY <2>1
  <2>3. b \in Nat
    BY <2>1
  <2>4. QED
    BY <2>1, <2>2, <2>3
<1>1. /\ phase = "idle" /\ phase' = "planned" /\ speed' = t /\ batch' = b /\ capacity' = c
      /\ sizes' = [i \in CardIds |-> IF first[i] > c[i] THEN c[i] ELSE first[i]]
      /\ overflow' = Total(first, CardIds) - Total(sizes', CardIds)
      /\ UNCHANGED <<stepVars, worldVars, hotSteps, outcome>>
  BY DEF Plan
<1>2. /\ first \in [CardIds -> Nat] /\ \A i \in CardIds \ Usable(t) : first[i] = 0
      /\ Usable(t) # {} =>
           /\ Total(first, CardIds) = b
           /\ \A i \in Usable(t) :
                /\ first[i] * Total(t, CardIds) < t[i] * b + Total(t, CardIds)
                /\ t[i] * b < first[i] * Total(t, CardIds) + Total(t, CardIds)
  BY <1>0, <1>1, BatchIsApportioned
<1> HIDE DEF first
<1>3. \A i \in CardIds : /\ sizes'[i] \in 0..Unlimited /\ sizes'[i] \in Nat
                         /\ sizes'[i] <= first[i] /\ sizes'[i] <= c[i]
                         /\ sizes'[i] = IF first[i] > c[i] THEN c[i] ELSE first[i]
  <2> SUFFICES ASSUME NEW i \in CardIds
               PROVE  /\ sizes'[i] \in 0..Unlimited /\ sizes'[i] \in Nat
                      /\ sizes'[i] <= first[i] /\ sizes'[i] <= c[i]
                      /\ sizes'[i] = IF first[i] > c[i] THEN c[i] ELSE first[i]
    OBVIOUS
  <2>1. sizes'[i] = IF first[i] > c[i] THEN c[i] ELSE first[i]
    BY <1>0, <1>1
  <2>2. first[i] \in Nat /\ c[i] \in 0..Unlimited
    BY <1>2
  <2>3. QED
    BY <2>1, <2>2, CapIsWithinBoth
<1>4. sizes' \in [CardIds -> 0..Unlimited]
  <2>1. sizes' = [i \in CardIds |-> sizes'[i]]
    BY <1>0, <1>1
  <2>2. QED
    BY <1>3, <2>1
<1>5. /\ Total(first, CardIds) \in Nat /\ Total(sizes', CardIds) \in Nat
      /\ Total(sizes', CardIds) <= Total(first, CardIds)
  BY <1>2, <1>3, CardsAreFinite, TotalIsNat, TotalCompared
<1>6. Usable(t) = {} => Total(first, CardIds) = 0
  <2> SUFFICES ASSUME Usable(t) = {}
               PROVE  Total(first, CardIds) = 0
    OBVIOUS
  <2>1. Total(first, CardIds) = Total(first, {})
    BY <1>2, CardsAreFinite, TotalCompared
  <2>2. QED
    BY <2>1, TotalEmpty
<1>7. overflow' \in 0..Unlimited /\ overflow' = Total(first, CardIds) - Total(sizes', CardIds)
  BY <1>0, <1>1, <1>2, <1>5, <1>6, TrainingAssumption
<1>8. TrainingTypeOK'
  BY <1>0, <1>1, <1>4, <1>7 DEF TrainingInv, TrainingTypeOK, stepVars, worldVars, Workers
<1>9. PlanInv'
  <2>1. \A i \in CardIds : t[i] = 0 => sizes'[i] = 0
    <3>1. \A i \in CardIds : t[i] = 0 => i \notin Usable(t)
      BY DEF Usable
    <3>2. \A i \in CardIds : t[i] = 0 => first[i] = 0
      BY <1>2, <3>1
    <3>3. QED
      BY <1>2, <1>3, <3>2
  <2>2. IF Usable(t) = {} THEN overflow' = 0 ELSE Total(sizes', CardIds) + overflow' = b
    BY <1>2, <1>5, <1>6, <1>7
  <2>3. ASSUME \A i \in CardIds : c[i] >= b
        PROVE  overflow' = 0 /\ \A i \in Usable(t) : sizes'[i] = first[i]
    <3>1. \A i \in CardIds : first[i] <= b
      <4>1. \A i \in CardIds : first[i] <= Total(first, CardIds)
        BY <1>2, CardsAreFinite, TotalCompared
      <4>2. QED
        BY <1>0, <1>1, <1>2, <1>6, <4>1
    <3>2. \A i \in CardIds : sizes'[i] = first[i]
      <4> SUFFICES ASSUME NEW i \in CardIds
                   PROVE  sizes'[i] = first[i]
        OBVIOUS
      <4>1. c[i] >= b /\ first[i] <= b /\ first[i] \in Nat /\ c[i] \in Nat
        BY <1>2, <2>3, <3>1
      <4>2. QED
        BY <1>0, <1>1, <1>3, <4>1
    <3>3. Total(sizes', CardIds) = Total(first, CardIds)
      BY <1>2, <1>3, <3>2, CardsAreFinite, TotalCompared
    <3>4. QED
      BY <1>5, <1>7, <3>2, <3>3 DEF Usable
  <2>4. QED
    BY <1>0, <1>1, <1>2, <1>3, <2>1, <2>2, <2>3 DEF PlanInv
<1>10. StepInv'
  BY <1>1 DEF TrainingInv, StepInv, stepVars, Workers, Master, Chunk
<1>11. QED
  BY <1>8, <1>9, <1>10 DEF TrainingInv

LEMMA TakeNextKept ==
    ASSUME TrainingInv, TakeNext
    PROVE  TrainingInv'
<1>1. PICK i \in Room : sizes' = [sizes EXCEPT ![i] = @ + 1]
  BY DEF TakeNext
<1>2. /\ phase = "planned" /\ phase' = "planned" /\ overflow > 0 /\ overflow' = overflow - 1
      /\ UNCHANGED <<speed, capacity, batch, stepVars, worldVars, hotSteps, outcome>>
  BY DEF TakeNext
<1>3. /\ sizes \in [CardIds -> 0..Unlimited] /\ overflow \in 0..Unlimited
      /\ capacity \in [CardIds -> 0..Unlimited] /\ speed \in [CardIds -> Nat]
      /\ batch \in 1..Unlimited
  BY <1>2 DEF TrainingInv, TrainingTypeOK, PlanInv
<1>4. i \in CardIds /\ i \in Usable(speed) /\ speed[i] # 0 /\ sizes[i] < capacity[i]
  BY <1>3 DEF Room, Usable
<1>5. /\ sizes' \in [CardIds -> 0..Unlimited]
      /\ \A k \in CardIds : sizes'[k] = IF k = i THEN sizes[k] + 1 ELSE sizes[k]
  <2>1. sizes[i] + 1 \in 0..Unlimited
    <3>1. sizes[i] \in 0..Unlimited /\ capacity[i] \in 0..Unlimited
      BY <1>3, <1>4
    <3>2. QED
      BY <1>4, <3>1, TrainingAssumption
  <2>2. QED
    BY <1>1, <1>3, <1>4, <2>1
<1>6. Total(sizes', CardIds) = Total(sizes, CardIds) + 1 /\ Total(sizes, CardIds) \in Nat
  <2>1. /\ \A k \in CardIds : sizes[k] \in Nat
        /\ \A k \in CardIds : sizes'[k] = IF k \in {i} THEN sizes[k] + 1 ELSE sizes[k]
    BY <1>3, <1>5
  <2>2. Cardinality({i}) = 1
    BY FS_Singleton
  <2>3. QED
    BY <1>4, <2>1, <2>2, CardsAreFinite, TotalWithOneMore, TotalIsNat
<1>7. TrainingTypeOK'
  <2>1. overflow' \in 0..Unlimited
    BY <1>2, <1>3, TrainingAssumption
  <2>2. QED
    BY <1>2, <1>3, <1>5, <2>1 DEF TrainingInv, TrainingTypeOK, stepVars, worldVars, Workers
<1>8. PlanInv'
  <2>1. \A k \in CardIds : sizes'[k] <= capacity[k] /\ (speed[k] = 0 => sizes'[k] = 0)
    <3> SUFFICES ASSUME NEW k \in CardIds
                 PROVE  sizes'[k] <= capacity[k] /\ (speed[k] = 0 => sizes'[k] = 0)
      OBVIOUS
    <3>1. sizes[k] <= capacity[k] /\ (speed[k] = 0 => sizes[k] = 0)
      BY <1>2 DEF TrainingInv, PlanInv
    <3>2. sizes[k] \in Nat /\ capacity[k] \in Nat
      BY <1>3
    <3>3. QED
      BY <1>4, <1>5, <3>1, <3>2
  <2>2. Usable(speed) # {} /\ Total(sizes, CardIds) + overflow = batch
    BY <1>2, <1>4 DEF TrainingInv, PlanInv
  <2>3. Total(sizes', CardIds) + overflow' = batch
    BY <1>2, <1>3, <1>6, <2>2
  <2>4. ~ \A k \in CardIds : capacity[k] >= batch
    BY <1>2, <1>3 DEF TrainingInv, PlanInv
  <2>5. QED
    BY <1>2, <1>3, <2>1, <2>2, <2>3, <2>4 DEF PlanInv
<1>9. StepInv'
  BY <1>2 DEF TrainingInv, StepInv, stepVars, Workers, Master, Chunk
<1>10. QED
  BY <1>7, <1>8, <1>9 DEF TrainingInv

LEMMA ResolveKept ==
    ASSUME TrainingInv, NEW cuda \in BOOLEAN, Resolve(cuda)
    PROVE  TrainingInv'
<1> DEFINE parts == {i \in CardIds : sizes[i] > 0}
           onCards == cuda /\ parts # {}
           alone == IF Cardinality(parts) = 1 THEN Total(sizes, parts) ELSE batch
<1>1. /\ phase = "planned" /\ phase' = "check"
      /\ shard' = [i \in Devices |-> IF i = 0 THEN (IF onCards THEN 0 ELSE alone)
                                     ELSE (IF onCards THEN sizes[i] ELSE 0)]
      /\ speed' = Nobody /\ capacity' = Nobody /\ sizes' = Nobody /\ batch' = 0 /\ overflow' = 0
      /\ UNCHANGED <<version, grad, ready, step, worldVars, hotSteps, outcome>>
  BY DEF Resolve, Planned
<1>2. /\ sizes \in [CardIds -> 0..Unlimited] /\ overflow \in 0..Unlimited
      /\ batch \in 1..Unlimited /\ step = 0
      /\ \A i \in CardIds : sizes[i] <= capacity[i] /\ (speed[i] = 0 => sizes[i] = 0)
      /\ IF Usable(speed) = {} THEN overflow = 0 ELSE Total(sizes, CardIds) + overflow = batch
      /\ speed \in [CardIds -> Nat]
  BY <1>1 DEF TrainingInv, TrainingTypeOK, PlanInv, StepInv
<1>3. /\ \A i \in CardIds : sizes[i] \in Nat
      /\ Total(sizes, CardIds) \in Nat /\ Total(sizes, parts) \in Nat
      /\ Total(sizes, CardIds) = Total(sizes, parts)
      /\ \A i \in CardIds : sizes[i] <= Total(sizes, CardIds)
  <2>1. \A i \in CardIds : sizes[i] \in Nat
    BY <1>2
  <2>2. parts \in SUBSET CardIds /\ \A i \in CardIds \ parts : sizes[i] = 0
    BY <2>1
  <2> HIDE DEF parts
  <2>3. QED
    BY <2>1, <2>2, CardsAreFinite, TotalIsNat, TotalCompared
<1>4. Total(sizes, CardIds) <= batch
  <2>1. CASE Usable(speed) = {}
    <3>1. \A i \in CardIds : sizes[i] = 0
      BY <1>2, <2>1 DEF Usable
    <3>2. parts = {}
      BY <3>1
    <3>3. Total(sizes, CardIds) = 0
      BY <1>3, <3>2, TotalEmpty
    <3>4. QED
      BY <1>2, <3>3
  <2>2. CASE Usable(speed) # {}
    BY <1>2, <1>3, <2>2
  <2>3. QED
    BY <2>1, <2>2
<1>5. alone \in 1..batch
  <2>1. CASE Cardinality(parts) = 1
    <3>1. PICK i \in parts : TRUE
      BY <2>1, FS_EmptySet
    <3>2. sizes[i] > 0 /\ sizes[i] <= Total(sizes, CardIds) /\ sizes[i] \in Nat
      BY <1>3, <3>1
    <3>3. Total(sizes, parts) \in 1..batch
      BY <1>2, <1>3, <1>4, <3>2
    <3>4. QED
      BY <2>1, <3>3
  <2>2. CASE Cardinality(parts) # 1
    BY <1>2, <2>2
  <2>3. QED
    BY <2>1, <2>2
<1> HIDE DEF alone
<1>6. shard' \in [Devices -> 0..Unlimited]
  <2>1. alone \in 0..Unlimited /\ 0 \in 0..Unlimited
    BY <1>2, <1>5, TrainingAssumption
  <2>2. \A i \in Devices : i # 0 => sizes[i] \in 0..Unlimited
    BY <1>2 DEF Devices, CardIds
  <2> HIDE DEF onCards
  <2>3. QED
    BY <1>1, <2>1, <2>2
<1>7. Workers' # {}
  <2>1. CASE onCards
    <3>1. PICK i \in parts : TRUE
      BY <2>1
    <3>2. i \in Devices /\ i # 0 /\ sizes[i] > 0
      BY <3>1, DevicesAreFinite
    <3>3. shard'[i] > 0
      BY <1>1, <2>1, <3>2
    <3>4. QED
      BY <3>2, <3>3 DEF Workers
  <2>2. CASE ~onCards
    <3>1. shard'[0] = alone /\ 0 \in Devices
      BY <1>1, <2>2, DevicesAreFinite
    <3>2. QED
      BY <1>2, <1>5, <3>1 DEF Workers
  <2>3. QED
    BY <2>1, <2>2
<1>8. Total(shard', Devices) <= Unlimited
  <2>1. \A i \in Devices : shard'[i] \in Nat
    BY <1>6
  <2>2. CASE onCards
    <3>1. \A i \in Devices \ CardIds : shard'[i] = 0
      BY <1>1, <2>2 DEF Devices, CardIds
    <3>2. \A i \in CardIds : shard'[i] = sizes[i]
      BY <1>1, <2>2, DevicesAreFinite
    <3>3. Total(shard', Devices) = Total(shard', CardIds)
      BY <2>1, <3>1, DevicesAreFinite, TotalCompared
    <3>4. \A i \in CardIds : shard'[i] \in Nat
      BY <1>3, <3>2
    <3>5. Total(shard', CardIds) = Total(sizes, CardIds)
      BY <1>3, <3>2, <3>4, CardsAreFinite, TotalCompared
    <3>6. QED
      BY <1>2, <1>3, <1>4, <3>3, <3>5, TrainingAssumption
  <2>3. CASE ~onCards
    <3>1. \A i \in Devices \ {0} : shard'[i] = 0
      BY <1>1, <2>3
    <3>2. Total(shard', Devices) = Total(shard', {0})
      BY <2>1, <3>1, DevicesAreFinite, TotalCompared
    <3>3. Total(shard', {0}) = shard'[0] + Total(shard', {})
      <4>1. {0} \ {0} = {} /\ {0} \in SUBSET Devices
        BY DevicesAreFinite
      <4>2. QED
        BY <2>1, <4>1, DevicesAreFinite, TotalTakeOne
    <3>4. shard'[0] = alone
      BY <1>1, <2>3, DevicesAreFinite
    <3>5. QED
      BY <1>2, <1>5, <3>2, <3>3, <3>4, TotalEmpty, TrainingAssumption
  <2>4. QED
    BY <2>2, <2>3
<1>9. TrainingTypeOK'
  <2>1. /\ Nobody \in [CardIds -> Nat] /\ Nobody \in [CardIds -> 0..Unlimited] /\ 0 \in 0..Unlimited
        /\ 0 < Steps
    BY TrainingAssumption DEF Nobody
  <2>2. QED
    BY <1>1, <1>2, <1>6, <1>7, <2>1 DEF TrainingInv, TrainingTypeOK, worldVars
<1>10. PlanInv' /\ StepInv'
  BY <1>1, <1>7, <1>8 DEF TrainingInv, StepInv, PlanInv
<1>11. QED
  BY <1>9, <1>10 DEF TrainingInv

-----------------------------------------------------------------------------
(* The steps.  *)

LEMMA MasterIsFirst ==
    ASSUME Workers # {}
    PROVE  Master \in Workers /\ \A i \in Workers : Master <= i
<1> DEFINE R == {e \in Devices \X Devices : e[1] > e[2]}
<1>1. Workers \in SUBSET Devices /\ \A i \in Devices : i \in Nat
  BY DEF Workers, Devices
<1>2. StrictOrder(R, Devices)
  BY <1>1 DEF StrictOrder
<1>3. PICK i \in Workers : \A k \in Workers \ {i} : <<k, i>> \in R
  <2> HIDE DEF R
  <2>1. QED
    BY <1>1, <1>2, DevicesAreFinite, SomeoneIsLast
<1>4. ASSUME NEW k \in Workers
      PROVE  i <= k
  <2>1. i \in Nat /\ k \in Nat
    BY <1>1
  <2>2. k # i => <<k, i>>[1] > <<k, i>>[2]
    BY <1>3
  <2>3. QED
    BY <2>1, <2>2
<1>5. QED
  BY <1>4 DEF Master

\* The parts of the devices before n, one after another.
UpTo(n) == {k \in Workers : k < n}

LEMMA ChunksFillTheBatch ==
    ASSUME shard \in [Devices -> 0..Unlimited]
    PROVE  /\ \A n \in Nat : /\ Total(shard, UpTo(n)) \in Nat
                             /\ UNION {Chunk(i) : i \in UpTo(n)} = 1..Total(shard, UpTo(n))
                             /\ \A i, k \in UpTo(n) : i # k => Chunk(i) \cap Chunk(k) = {}
           /\ UpTo(Cards + 1) = Workers
           /\ Total(shard, Workers) = Total(shard, Devices)
<1>1. /\ Workers \in SUBSET Devices /\ \A i \in Devices : i \in Nat /\ shard[i] \in Nat
      /\ \A i \in Devices \ Workers : shard[i] = 0
  BY TrainingAssumption DEF Workers, Devices
<1>2. UpTo(Cards + 1) = Workers
  BY TrainingAssumption DEF UpTo, Workers, Devices
<1>3. Total(shard, Workers) = Total(shard, Devices)
  BY <1>1, DevicesAreFinite, TotalCompared
<1>4. \A n \in Nat : Total(shard, UpTo(n)) \in Nat
  <2>1. \A n \in Nat : UpTo(n) \in SUBSET Devices
    BY <1>1 DEF UpTo
  <2>2. QED
    BY <1>1, <2>1, DevicesAreFinite, TotalIsNat
<1> DEFINE Good == {n \in Nat : /\ UNION {Chunk(i) : i \in UpTo(n)} = 1..Total(shard, UpTo(n))
                                /\ \A i, k \in UpTo(n) : i # k => Chunk(i) \cap Chunk(k) = {}}
<1>5. 0 \in Good
  <2>1. UpTo(0) = {}
    BY <1>1 DEF UpTo
  <2>2. QED
    BY <2>1, TotalEmpty
<1>6. ASSUME NEW n \in Nat, n \in Good
      PROVE  n + 1 \in Good
  <2>1. CASE n \notin Workers
    <3>1. UpTo(n + 1) = UpTo(n)
      BY <1>1, <2>1 DEF UpTo
    <3>2. QED
      BY <1>6, <3>1
  <2>2. CASE n \in Workers
    <3> DEFINE o == Total(shard, UpTo(n))
    <3>1. UpTo(n + 1) = UpTo(n) \cup {n} /\ n \notin UpTo(n) /\ UpTo(n + 1) \in SUBSET Devices
      <4>1. \A k \in Workers : k \in Nat /\ (k < n + 1 <=> k < n \/ k = n)
        BY <1>1
      <4>2. n \notin UpTo(n) /\ n < n + 1
        BY DEF UpTo
      <4>3. \A k : k \in UpTo(n + 1) <=> k \in UpTo(n) \/ k = n
        BY <2>2, <4>1 DEF UpTo
      <4>4. UpTo(n + 1) \in SUBSET Devices
        BY <1>1 DEF UpTo
      <4>5. QED
        BY <4>2, <4>3, <4>4
    <3>2. Total(shard, UpTo(n + 1)) = shard[n] + o
      <4>1. UpTo(n + 1) \ {n} = UpTo(n) /\ n \in UpTo(n + 1)
        BY <3>1
      <4>2. QED
        BY <1>1, <3>1, <4>1, DevicesAreFinite, TotalTakeOne
    <3>3. Chunk(n) = (o + 1)..(o + shard[n]) /\ o \in Nat /\ shard[n] \in Nat
      BY <1>1, <1>4, <2>2 DEF Chunk, UpTo
    <3>4. /\ UNION {Chunk(i) : i \in UpTo(n)} = 1..o
          /\ \A i, k \in UpTo(n) : i # k => Chunk(i) \cap Chunk(k) = {}
      BY <1>6
    <3> HIDE DEF o
    <3>5. UNION {Chunk(i) : i \in UpTo(n + 1)} = 1..Total(shard, UpTo(n + 1))
      <4>1. UNION {Chunk(i) : i \in UpTo(n + 1)} = (1..o) \cup Chunk(n)
        BY <3>1, <3>4
      <4>2. (1..o) \cup ((o + 1)..(o + shard[n])) = 1..(shard[n] + o)
        BY <3>3
      <4>3. QED
        BY <3>2, <3>3, <4>1, <4>2
    <3>6. ASSUME NEW i \in UpTo(n + 1), NEW k \in UpTo(n + 1), i # k
          PROVE  Chunk(i) \cap Chunk(k) = {}
      <4>1. \A j \in UpTo(n) : Chunk(j) \subseteq 1..o
        BY <3>4
      <4>2. \A j \in UpTo(n) : Chunk(j) \cap Chunk(n) = {}
        BY <3>3, <4>1
      <4>3. QED
        BY <3>1, <3>4, <3>6, <4>2
    <3>7. QED
      BY <3>5, <3>6
  <2>3. QED
    BY <2>1, <2>2
<1>7. Nat \subseteq Good
  <2> HIDE DEF Good
  <2>1. QED
    BY <1>5, <1>6, NaturalsOneByOne
<1>8. QED
  BY <1>2, <1>3, <1>4, <1>7

LEMMA SameShards ==
    ASSUME shard' = shard
    PROVE  /\ Workers' = Workers /\ Master' = Master
           /\ \A i \in Devices : Chunk(i)' = Chunk(i)
BY DEF Workers, Master, Chunk

LEMMA ChunksAreOfTheBatch ==
    ASSUME TrainingInv
    PROVE  /\ UNION {Chunk(i) : i \in Workers} = 1..Total(shard, Workers)
           /\ \A i, k \in Workers : i # k => Chunk(i) \cap Chunk(k) = {}
           /\ \A i \in Workers : Chunk(i) \subseteq 1..Unlimited
<1>1. shard \in [Devices -> 0..Unlimited] /\ Total(shard, Devices) <= Unlimited
  BY DEF TrainingInv, TrainingTypeOK, StepInv
<1>2. Cards + 1 \in Nat
  BY TrainingAssumption
<1>3. /\ UNION {Chunk(i) : i \in Workers} = 1..Total(shard, Workers)
      /\ \A i, k \in Workers : i # k => Chunk(i) \cap Chunk(k) = {}
      /\ Total(shard, Workers) = Total(shard, Devices) /\ Total(shard, Workers) \in Nat
  BY <1>1, <1>2, ChunksFillTheBatch
<1>4. 1..Total(shard, Workers) \subseteq 1..Unlimited
  BY <1>1, <1>3, TrainingAssumption
<1>5. QED
  BY <1>3, <1>4

LEMMA CheckKept == ASSUME TrainingInv, Check PROVE TrainingInv'
<1>1. /\ phase = "check" /\ phase' \in {"over", "sync"} /\ outcome' \in {"hot", outcome}
      /\ phase' = "over" <=> outcome' = "hot" /\ phase' = "over"
      /\ phase' = "sync" => outcome' = outcome
      /\ UNCHANGED <<planVars, stepVars, worldVars, hotSteps>>
  BY DEF Check, Ends
<1>2. outcome = "none"
  BY <1>1 DEF TrainingInv, TrainingTypeOK
<1>3. shard' = shard
  BY <1>1 DEF stepVars
<1>4. TrainingTypeOK'
  BY <1>1, <1>2, <1>3, SameShards DEF TrainingInv, TrainingTypeOK, planVars, stepVars, worldVars
<1>5. PlanInv' /\ StepInv'
  BY <1>1, <1>3, SameShards DEF TrainingInv, PlanInv, StepInv, planVars, stepVars
<1>6. QED
  BY <1>4, <1>5 DEF TrainingInv

LEMMA SyncKept == ASSUME TrainingInv, Sync PROVE TrainingInv'
<1>1. /\ phase = "sync" /\ phase' = "shards" /\ ready' = {}
      /\ version' = [i \in Devices |-> IF i \in Workers THEN version[Master] ELSE version[i]]
      /\ UNCHANGED <<planVars, shard, grad, step, worldVars, hotSteps, outcome>>
  BY DEF Sync
<1>2. /\ version \in [Devices -> 0..Steps] /\ \A i \in Devices : version[i] <= step
      /\ Workers # {} /\ Workers \subseteq Devices
  BY <1>1 DEF TrainingInv, TrainingTypeOK, StepInv, Workers
<1>3. Master \in Workers /\ Workers' = Workers /\ Master' = Master
  BY <1>1, <1>2, MasterIsFirst, SameShards
<1>4. /\ version' \in [Devices -> 0..Steps] /\ \A i \in Devices : version'[i] <= step
      /\ \A i \in Workers : version'[i] = version'[Master]
  BY <1>1, <1>2, <1>3
<1>5. TrainingTypeOK'
  BY <1>1, <1>3, <1>4 DEF TrainingInv, TrainingTypeOK, planVars, worldVars
<1>6. PlanInv' /\ StepInv'
  BY <1>1, <1>3, <1>4 DEF TrainingInv, PlanInv, StepInv, planVars
<1>7. QED
  BY <1>5, <1>6 DEF TrainingInv

LEMMA RunShardKept == ASSUME TrainingInv, NEW i \in Devices, RunShard(i) PROVE TrainingInv'
<1>1. /\ phase = "shards" /\ i \in Workers \ ready
      /\ grad' = [grad EXCEPT ![i] = Chunk(i) \X {version[i]}]
      /\ ready' = ready \cup {i}
      /\ phase' = IF ready' = Workers THEN "reduce" ELSE phase
      /\ UNCHANGED <<planVars, shard, version, step, worldVars, hotSteps, outcome>>
  BY DEF RunShard
<1>2. /\ Workers' = Workers /\ Master' = Master /\ \A k \in Devices : Chunk(k)' = Chunk(k)
      /\ Workers \subseteq Devices
  BY <1>1, SameShards DEF Workers
<1>3. grad' \in [Devices -> SUBSET ((1..Unlimited) \X (0..Steps))]
  <2>1. version[i] \in 0..Steps /\ Chunk(i) \subseteq 1..Unlimited
    BY <1>1, ChunksAreOfTheBatch DEF TrainingInv, TrainingTypeOK
  <2>2. Chunk(i) \X {version[i]} \in SUBSET ((1..Unlimited) \X (0..Steps))
    BY <2>1
  <2>3. grad \in [Devices -> SUBSET ((1..Unlimited) \X (0..Steps))]
    BY DEF TrainingInv, StepInv
  <2>4. QED
    BY <1>1, <2>2, <2>3
<1>4. \A k \in ready' : grad'[k] = Chunk(k) \X {version[k]}
  <2>1. \A k \in ready : grad[k] = Chunk(k) \X {version[k]}
    BY <1>1 DEF TrainingInv, StepInv
  <2>2. ready \subseteq Devices /\ grad \in [Devices -> SUBSET ((1..Unlimited) \X (0..Steps))]
    BY DEF TrainingInv, TrainingTypeOK, StepInv
  <2>3. QED
    BY <1>1, <2>1, <2>2
<1>5. phase' \in {"shards", "reduce"} /\ ready' \subseteq Workers /\ (phase' = "reduce" => ready' = Workers)
  BY <1>1 DEF TrainingInv, StepInv
<1>6. TrainingTypeOK'
  BY <1>1, <1>2, <1>3, <1>5 DEF TrainingInv, TrainingTypeOK, planVars, worldVars
<1>7. PlanInv'
  BY <1>5 DEF PlanInv
<1>8. StepInv'
  <2>1. \A k \in ready' : grad'[k] = Chunk(k)' \X {version'[k]}
    BY <1>1, <1>2, <1>4, <1>5
  <2>2. \A k \in Workers' : version'[k] = version'[Master']
    BY <1>1, <1>2 DEF TrainingInv, StepInv
  <2>3. QED
    BY <1>1, <1>2, <1>3, <1>5, <2>1, <2>2 DEF TrainingInv, StepInv
<1>9. QED
  BY <1>6, <1>7, <1>8 DEF TrainingInv

LEMMA ReduceKept == ASSUME TrainingInv, Reduce PROVE TrainingInv'
<1>1. /\ phase = "reduce" /\ phase' = "progress"
      /\ version' = [version EXCEPT ![Master] = @ + 1]
      /\ grad' = [grad EXCEPT ![Master] = {}]
      /\ step' = step + 1
      /\ hotSteps' = 0 \/ hotSteps' = hotSteps + 1
      /\ UNCHANGED <<planVars, shard, ready, worldVars, outcome>>
  BY DEF Reduce
<1>2. /\ step \in 0..Steps /\ step < Steps /\ hotSteps \in 0..Steps /\ hotSteps <= step
      /\ version \in [Devices -> 0..Steps] /\ \A i \in Devices : version[i] <= step
      /\ grad \in [Devices -> SUBSET ((1..Unlimited) \X (0..Steps))]
      /\ Workers # {}
  BY <1>1 DEF TrainingInv, TrainingTypeOK, StepInv
<1>3. Workers' = Workers
  BY <1>1, SameShards
<1>4. /\ step' \in 0..Steps /\ hotSteps' \in 0..Steps /\ hotSteps' <= step'
  BY <1>1, <1>2, TrainingAssumption
<1>5. version' \in [Devices -> 0..Steps] /\ \A i \in Devices : version'[i] <= step'
  <2>1. \A i \in Devices : version[i] \in 0..Steps /\ version[i] <= step /\ version[i] + 1 \in 0..Steps
    BY <1>2, TrainingAssumption
  <2>2. version' = [i \in Devices |-> IF i = Master THEN version[i] + 1 ELSE version[i]]
    BY <1>1, <1>2
  <2>3. version' \in [Devices -> 0..Steps]
    BY <2>1, <2>2
  <2>4. ASSUME NEW i \in Devices PROVE version'[i] <= step'
    <3>1. /\ version[i] \in 0..Steps /\ version[i] <= step
          /\ version'[i] = IF i = Master THEN version[i] + 1 ELSE version[i]
      BY <2>1, <2>2
    <3>2. version[i] \in Int /\ step \in Int
      BY <3>1, <1>2, TrainingAssumption
    <3>3. QED
      BY <3>1, <3>2, <1>1
  <2>5. QED
    BY <2>3, <2>4
<1>6. grad' \in [Devices -> SUBSET ((1..Unlimited) \X (0..Steps))]
  BY <1>1, <1>2
<1>7. TrainingTypeOK'
  BY <1>1, <1>4, <1>5, <1>6 DEF TrainingInv, TrainingTypeOK, planVars, worldVars
<1>8. PlanInv' /\ StepInv'
  BY <1>1, <1>2, <1>3, <1>4, <1>5, <1>6 DEF TrainingInv, PlanInv, StepInv
<1>9. QED
  BY <1>7, <1>8 DEF TrainingInv

LEMMA ProgressKept == ASSUME TrainingInv, Progress \/ ShardFails PROVE TrainingInv'
<1>1. /\ phase \in {"progress", "shards"}
      /\ \/ phase' = "over" /\ outcome' \in {"cancelled", "completed", "failed"}
         \/ phase' = "check" /\ outcome' = outcome /\ step # Steps /\ phase = "progress"
      /\ UNCHANGED <<planVars, stepVars, worldVars, hotSteps>>
  BY DEF Progress, ShardFails, Ends
<1>2. outcome = "none" /\ step \in 0..Steps
  BY <1>1 DEF TrainingInv, TrainingTypeOK
<1>3. shard' = shard /\ step' = step
  BY <1>1 DEF stepVars
<1>4. phase' = "check" => Workers # {} /\ step < Steps
  BY <1>1, <1>2, TrainingAssumption DEF TrainingInv, StepInv
<1>5. TrainingTypeOK'
  BY <1>1, <1>2, <1>3, <1>4, SameShards DEF TrainingInv, TrainingTypeOK, planVars, stepVars, worldVars
<1>6. PlanInv' /\ StepInv'
  BY <1>1, <1>3, <1>4, SameShards DEF TrainingInv, PlanInv, StepInv, planVars, stepVars
<1>7. QED
  BY <1>5, <1>6 DEF TrainingInv

LEMMA WorldKept ==
    ASSUME TrainingInv,
           TemperatureChanges \/ SensorFails \/ StopIsAsked \/ UNCHANGED trainingVars
    PROVE  TrainingInv'
<1>1. /\ UNCHANGED <<phase, planVars, stepVars, outcome>>
      /\ hotSteps' = 0 \/ hotSteps' = hotSteps
      /\ hot' = ~hot \/ hot' = hot
      /\ sensor' = FALSE \/ sensor' = sensor
      /\ stopFlag' = TRUE \/ stopFlag' = stopFlag
  BY DEF TemperatureChanges, SensorFails, StopIsAsked, trainingVars, worldVars
<1>2. /\ hotSteps \in 0..Steps /\ hotSteps <= step /\ step \in 0..Steps
      /\ hot \in BOOLEAN /\ sensor \in BOOLEAN /\ stopFlag \in BOOLEAN
  BY DEF TrainingInv, TrainingTypeOK, StepInv
<1>3. hotSteps' \in 0..Steps /\ hotSteps' <= step
  BY <1>1, <1>2, TrainingAssumption
<1>4. shard' = shard
  BY <1>1 DEF stepVars
<1>5. hot' \in BOOLEAN /\ sensor' \in BOOLEAN /\ stopFlag' \in BOOLEAN
  BY <1>1, <1>2
<1>6. TrainingTypeOK'
  BY <1>1, <1>3, <1>4, <1>5, SameShards DEF TrainingInv, TrainingTypeOK, planVars, stepVars
<1>7. PlanInv'
  BY <1>1 DEF TrainingInv, PlanInv, planVars
<1>8. StepInv'
  <2>1. ready \subseteq Devices
    BY DEF TrainingInv, TrainingTypeOK
  <2>2. QED
    BY <1>1, <1>3, <1>4, <2>1, SameShards DEF TrainingInv, StepInv, stepVars
<1>9. QED
  BY <1>6, <1>7, <1>8 DEF TrainingInv

LEMMA TrainingKept == TrainingInv /\ [TrainingNext]_trainingVars => TrainingInv'
BY PlanKept, TakeNextKept, ResolveKept, CheckKept, SyncKept, RunShardKept, ReduceKept,
   ProgressKept, WorldKept DEF TrainingNext, TrainStep

LEMMA TrainingInvariant == TrainingSpec => []TrainingInv
BY TrainingAtFirst, TrainingKept, PTL DEF TrainingSpec

\* Every state of a training run has its type: no step is taken past the last, no
\* run is over without an outcome, and none steps on no device (trainer.py train).
THEOREM TrainingTypeCorrect == TrainingSpec => []TrainingTypeOK
<1>1. TrainingInv => TrainingTypeOK
  BY DEF TrainingInv
<1>2. QED
  BY <1>1, TrainingInvariant, PTL

\* The split of a batch loses and invents no sample, gives no card more than it
\* holds, and is within one sample of each card's throughput where all fits: for
\* any number of cards, any throughputs, any batch (poolPlanner.py plan_batch_split).
THEOREM PlanIsFairCorrect == TrainingSpec => []PlanIsFair
<1>1. TrainingInv => PlanIsFair
  <2> SUFFICES ASSUME TrainingInv, Planned
               PROVE  PlanIsFair
    BY DEF PlanIsFair
  <2> DEFINE U == Usable(speed)
             held == Total(capacity, U)
             sum == Total(sizes, CardIds)
  <2>1. /\ sizes \in [CardIds -> 0..Unlimited] /\ capacity \in [CardIds -> 0..Unlimited]
        /\ speed \in [CardIds -> Nat] /\ overflow \in 0..Unlimited /\ batch \in 1..Unlimited
        /\ \A i \in CardIds : sizes[i] <= capacity[i] /\ (speed[i] = 0 => sizes[i] = 0)
        /\ U # {} => sum + overflow = batch
        /\ overflow = 0 \/ Room = {}
    BY DEF Planned, TrainingInv, TrainingTypeOK, PlanInv
  <2>2. /\ U \in SUBSET CardIds /\ IsFiniteSet(U) /\ \A i \in CardIds \ U : sizes[i] = 0
        /\ \A i \in CardIds : sizes[i] \in Nat /\ capacity[i] \in Nat
    BY <2>1, CardsAreFinite DEF Usable
  <2>3. sum = Total(sizes, U) /\ sum \in Nat /\ held \in Nat
    <3> HIDE DEF U
    <3>1. QED
      BY <2>2, CardsAreFinite, TotalCompared, TotalIsNat
  <2>4. sum <= held /\ (Room = {} => sum = held)
    <3>1. Room = {} => \A i \in U : sizes[i] = capacity[i]
      BY <2>1, <2>2 DEF Room
    <3>2. \A i \in U : sizes[i] \in Nat /\ capacity[i] \in Nat /\ sizes[i] <= capacity[i]
      BY <2>1, <2>2
    <3> HIDE DEF U
    <3>3. Total(sizes, U) <= Total(capacity, U) /\ (Room = {} => Total(sizes, U) = Total(capacity, U))
      BY <2>2, <3>1, <3>2, TotalCompared
    <3>4. QED
      BY <2>3, <3>3
  <2>5. U # {} => sum = IF held < batch THEN held ELSE batch
    <3> HIDE DEF U, sum, held
    <3>1. QED
      BY <2>1, <2>3, <2>4
  <2>6. (\A i \in CardIds : capacity[i] >= batch) =>
            \A i \in U :
              /\ sizes[i] * Total(speed, CardIds) < speed[i] * batch + Total(speed, CardIds)
              /\ speed[i] * batch < sizes[i] * Total(speed, CardIds) + Total(speed, CardIds)
    BY DEF Planned, TrainingInv, PlanInv
  <2>7. QED
    BY <2>1, <2>5, <2>6 DEF PlanIsFair
<1>2. QED
  BY <1>1, TrainingInvariant, PTL

\* The gradients of a step are those of the whole batch for the master's weights,
\* each sample once, on any number of replicas (trainer.py train_step).
THEOREM StepIsOfTheWholeBatchCorrect == TrainingSpec => []StepIsOfTheWholeBatch
<1>1. TrainingInv => StepIsOfTheWholeBatch
  <2> SUFFICES ASSUME TrainingInv, phase = "reduce"
               PROVE  StepIsOfTheWholeBatch
    BY DEF StepIsOfTheWholeBatch
  <2>1. \A i \in Workers : grad[i] = Chunk(i) \X {version[Master]}
    BY DEF TrainingInv, StepInv
  <2>2. /\ UNION {Chunk(i) : i \in Workers} = 1..Total(shard, Workers)
        /\ \A i, k \in Workers : i # k => Chunk(i) \cap Chunk(k) = {}
    BY ChunksAreOfTheBatch
  <2>3. UNION {grad[i] : i \in Workers} = (UNION {Chunk(i) : i \in Workers}) \X {version[Master]}
    BY <2>1
  <2>4. \A i, k \in Workers : i # k => grad[i] \cap grad[k] = {}
    BY <2>1, <2>2
  <2>5. QED
    BY <2>2, <2>3, <2>4 DEF StepIsOfTheWholeBatch
<1>2. QED
  BY <1>1, TrainingInvariant, PTL

-----------------------------------------------------------------------------
(* The heat of the cards.  *)

\* The step before a multiple of the interval, and the others.
LEMMA NextRemainder ==
    ASSUME NEW s \in Nat, NEW c \in Nat \ {0}
    PROVE  /\ s % c \in 0..(c - 1)
           /\ (s + 1) % c = 0 \/ (s + 1) % c = (s % c) + 1
OBVIOUS

LEMMA OneMoreStep ==
    ASSUME NEW s \in Nat, NEW c \in Nat \ {0}, NEW h \in Nat, NEW k,
           h <= 1 + (s % c), (s + 1) % c = 0 => h = 0, k = 0 \/ k = h + 1
    PROVE  k <= 1 + ((s + 1) % c)
<1> DEFINE r == s % c
           n == (s + 1) % c
<1>1. r \in 0..(c - 1) /\ (n = 0 \/ n = r + 1)
  BY NextRemainder
<1>2. n \in Nat
  BY <1>1
<1>3. h <= 1 + r /\ (n = 0 => h = 0)
  OBVIOUS
<1> HIDE DEF r, n
<1>4. k <= 1 + n
  BY <1>1, <1>2, <1>3
<1>5. QED
  BY <1>4 DEF n

\* Steps on a hot card are those since the last reading at most; one that follows
\* a reading in the same round is the first.
HeatInv ==
    /\ step \in Nat /\ hotSteps \in Nat
    /\ ~(hot /\ sensor) => hotSteps = 0
    /\ hotSteps <= 1 + (step % CheckEvery)
    /\ phase \in {"sync", "shards", "reduce"} /\ (step + 1) % CheckEvery = 0 => hotSteps = 0

LEMMA HeatAtFirst == TrainingInit => HeatInv
BY NextRemainder, TrainingAssumption DEF TrainingInit, HeatInv

LEMMA HeatKept == HeatInv /\ [TrainingNext]_trainingVars => HeatInv'
<1> SUFFICES ASSUME HeatInv, [TrainingNext]_trainingVars
             PROVE  HeatInv'
  OBVIOUS
<1>0. step % CheckEvery \in 0..(CheckEvery - 1) /\ CheckEvery \in Nat \ {0}
  BY NextRemainder, TrainingAssumption DEF HeatInv
<1> USE DEF HeatInv
<1>1. CASE UNCHANGED <<step, hotSteps, hot, sensor>> /\ phase' \notin {"sync", "shards", "reduce"}
  BY <1>1
<1>2. CASE UNCHANGED <<step, hotSteps, hot, sensor>> /\ phase \in {"sync", "shards", "reduce"}
  BY <1>2
<1>3. CASE Check
  <2>1. UNCHANGED <<step, hotSteps, hot, sensor>>
    BY <1>3 DEF Check, stepVars, worldVars
  <2>2. CASE (step + 1) % CheckEvery = 0 /\ hot /\ sensor
    BY <1>3, <2>1, <2>2 DEF Check, Ends
  <2>3. CASE ~((step + 1) % CheckEvery = 0 /\ hot /\ sensor)
    BY <2>1, <2>3
  <2>4. QED
    BY <2>2, <2>3
<1>4. CASE Reduce
  <2>1. step' = step + 1 /\ phase = "reduce" /\ phase' = "progress"
    BY <1>4 DEF Reduce
  <2>2. step \in Nat /\ hotSteps \in Nat /\ hotSteps <= 1 + (step % CheckEvery)
    OBVIOUS
  <2>3. (step + 1) % CheckEvery \in 0..(CheckEvery - 1)
    BY <1>0, <2>2, NextRemainder
  <2>4. (hotSteps' = 0 \/ hotSteps' = hotSteps + 1) /\ (~(hot' /\ sensor') => hotSteps' = 0)
    BY <1>4 DEF Reduce, worldVars
  <2>5. (step + 1) % CheckEvery = 0 => hotSteps = 0
    BY <2>1
  <2>6. hotSteps' \in Nat /\ step' \in Nat
    BY <2>1, <2>2, <2>4
  <2>7. hotSteps' <= 1 + ((step + 1) % CheckEvery)
    BY <1>0, <2>2, <2>4, <2>5, OneMoreStep
  <2>8. QED
    BY <2>1, <2>4, <2>6, <2>7
<1>5. CASE TemperatureChanges \/ SensorFails
  <2>1. UNCHANGED step /\ hotSteps' = 0
    BY <1>5 DEF TemperatureChanges, SensorFails, stepVars
  <2>2. QED
    BY <1>0, <2>1
<1>6. ASSUME NEW t, NEW b, NEW c, Plan(t, b, c)
      PROVE  HeatInv'
  BY <1>1, <1>6 DEF Plan, stepVars, worldVars
<1>7. ASSUME NEW cuda, Resolve(cuda)
      PROVE  HeatInv'
  BY <1>1, <1>7 DEF Resolve, worldVars
<1>8. ASSUME NEW i, RunShard(i)
      PROVE  HeatInv'
  BY <1>2, <1>8 DEF RunShard, worldVars
<1>9. CASE TakeNext \/ StopIsAsked \/ UNCHANGED trainingVars
  <2>1. UNCHANGED <<step, hotSteps, hot, sensor, phase>>
    BY <1>9 DEF TakeNext, StopIsAsked, trainingVars, stepVars, worldVars
  <2>2. QED
    BY <2>1
<1>10. CASE Sync
  BY <1>2, <1>10 DEF Sync, worldVars
<1>11. CASE Progress
  BY <1>1, <1>11 DEF Progress, Ends, stepVars, worldVars
<1>12. CASE ShardFails
  BY <1>1, <1>12 DEF ShardFails, Ends, stepVars, worldVars
<1>13. QED
  BY <1>3, <1>4, <1>5, <1>6, <1>7, <1>8, <1>9, <1>10, <1>11, <1>12 DEF TrainingNext, TrainStep

\* A run takes at most CheckEvery steps on a card that stays at its limit and says
\* so, for every interval and every length of the job (trainer.py train).
THEOREM HeatIsNoticedCorrect == TrainingSpec => []HeatIsNoticed
<1>1. HeatInv => HeatIsNoticed
  <2> SUFFICES ASSUME HeatInv
               PROVE  hotSteps <= CheckEvery
    BY DEF HeatIsNoticed
  <2>1. step % CheckEvery \in 0..(CheckEvery - 1)
    BY NextRemainder, TrainingAssumption DEF HeatInv
  <2>2. QED
    BY <2>1, TrainingAssumption DEF HeatInv
<1>2. QED
  BY <1>1, HeatAtFirst, HeatKept, PTL DEF TrainingSpec
=============================================================================
