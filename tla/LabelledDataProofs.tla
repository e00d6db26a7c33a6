------------------------- MODULE LabelledDataProofs -------------------------
(***************************************************************************)
(* Proofs about LabelledData, for any labels, any files and any number of  *)
(* runs of a job.                                                          *)
(***************************************************************************)
EXTENDS LabelledData, FiniteSetTheorems, SequenceTheorems, TLAPS

-----------------------------------------------------------------------------
(* Sorted names.  *)

\* Every finite set of numbers can be sorted: by how many there are below each.
LEMMA SortedIsThere ==
    ASSUME NEW S \in SUBSET Nat, IsFiniteSet(S)
    PROVE  /\ Sorted(S) \in Seq(S) /\ Len(Sorted(S)) = Cardinality(S)
           /\ \A i, k \in 1..Cardinality(S) : i < k => Sorted(S)[i] < Sorted(S)[k]
           /\ IsInjective(Sorted(S)) /\ ToSet(Sorted(S)) = S
<1> DEFINE size == Cardinality(S)
           rank == [n \in S |-> Cardinality({m \in S : m < n}) + 1]
           Increasing(s) == \A i, k \in 1..size : i < k => s[i] < s[k]
<1>1. size \in Nat /\ IsFiniteSet(1..size) /\ Cardinality(1..size) = size
  BY FS_CardinalityType, FS_Interval
<1>2. ASSUME NEW n \in S, NEW T \in SUBSET S, T = {m \in S : m < n}
      PROVE  IsFiniteSet(T) /\ Cardinality(T) \in 0..(size - 1)
  <2>1. IsFiniteSet(S \ {n}) /\ Cardinality(S \ {n}) = size - 1
    BY FS_RemoveElement
  <2>2. T \subseteq S \ {n}
    BY <1>2
  <2>3. IsFiniteSet(T) /\ Cardinality(T) <= Cardinality(S \ {n})
    BY <2>1, <2>2, FS_Subset
  <2>4. Cardinality(T) \in Nat
    BY <2>3, FS_CardinalityType
  <2>5. QED
    BY <1>1, <2>1, <2>3, <2>4
<1>3. rank \in [S -> 1..size]
  <2>1. ASSUME NEW n \in S
        PROVE  Cardinality({m \in S : m < n}) + 1 \in 1..size
    BY <1>1, <1>2
  <2>2. QED
    BY <2>1
<1>4. ASSUME NEW n \in S, NEW m \in S, n < m
      PROVE  rank[n] < rank[m]
  <2> DEFINE A == {x \in S : x < n}
             B == {x \in S : x < m}
  <2>1. IsFiniteSet(A) /\ IsFiniteSet(B) /\ Cardinality(A) \in Nat
    BY <1>1, <1>2
  <2>2. A \cup {n} \subseteq B /\ n \notin A
    <3>1. \A x \in S : x \in Nat /\ (x < n => x < m)
      BY <1>4
    <3>2. n \in Nat /\ ~(n < n) /\ n < m
      BY <1>4
    <3>3. QED
      BY <3>1, <3>2
  <2>3. rank[n] = Cardinality(A) + 1 /\ rank[m] = Cardinality(B) + 1
    OBVIOUS
  <2> HIDE DEF A, B, rank
  <2>4. Cardinality(A \cup {n}) = Cardinality(A) + 1
    BY <2>1, <2>2, FS_AddElement
  <2>5. Cardinality(A \cup {n}) <= Cardinality(B) /\ Cardinality(B) \in Nat
    BY <2>1, <2>2, FS_Subset, FS_CardinalityType
  <2>6. QED
    BY <2>1, <2>3, <2>4, <2>5
<1> HIDE DEF rank
<1>5. rank \in Surjection(S, 1..size)
  <2>1. \A n, m \in S : rank[n] = rank[m] => n = m
    <3>1. ASSUME NEW n \in S, NEW m \in S, n # m
          PROVE  rank[n] # rank[m]
      <4>1. n < m \/ m < n
        BY <3>1
      <4>2. rank[n] \in Nat /\ rank[m] \in Nat
        BY <1>1, <1>3
      <4>3. QED
        BY <1>4, <4>1, <4>2
    <3>2. QED
      BY <3>1
  <2>2. rank \in Injection(S, 1..size)
    BY <1>3, <2>1 DEF Injection, IsInjective
  <2>3. QED
    BY <1>1, <2>2, FS_Injection
<1> DEFINE nth == [i \in 1..size |-> CHOOSE n \in S : rank[n] = i]
<1>6. nth \in [1..size -> S] /\ \A i \in 1..size : rank[nth[i]] = i
  BY <1>5 DEF Surjection
<1>7. Increasing(nth)
  <2>1. ASSUME NEW i \in 1..size, NEW k \in 1..size, i < k
        PROVE  nth[i] < nth[k]
    <3>1. nth[i] \in S /\ nth[k] \in S /\ rank[nth[i]] = i /\ rank[nth[k]] = k
      BY <1>6
    <3> HIDE DEF nth
    <3>2. i # k /\ ~(k < i)
      BY <2>1
    <3>3. nth[i] # nth[k]
      BY <3>1, <3>2
    <3>4. ~(nth[k] < nth[i])
      BY <1>4, <3>1, <3>2
    <3>5. nth[i] \in Nat /\ nth[k] \in Nat
      BY <3>1
    <3>6. QED
      BY <3>3, <3>4, <3>5
  <2>2. QED
    BY <2>1
<1>8. Sorted(S) \in [1..size -> S] /\ Increasing(Sorted(S))
  <2>1. Sorted(S) = CHOOSE s \in [1..size -> S] : \A i, k \in DOMAIN s : i < k => s[i] < s[k]
    BY DEF Sorted
  <2>2. \A s \in [1..size -> S] : DOMAIN s = 1..size
    OBVIOUS
  <2>3. \E s \in [1..size -> S] : \A i, k \in DOMAIN s : i < k => s[i] < s[k]
    BY <1>6, <1>7, <2>2
  <2>4. QED
    BY <2>1, <2>2, <2>3
<1>9. IsInjective(Sorted(S))
  <2>1. ASSUME NEW i \in 1..size, NEW k \in 1..size, Sorted(S)[i] = Sorted(S)[k]
        PROVE  i = k
    <3>1. Sorted(S)[i] \in Nat /\ Sorted(S)[k] \in Nat
      BY <1>8
    <3>2. ~(i < k) /\ ~(k < i)
      BY <1>8, <2>1, <3>1
    <3>3. QED
      BY <1>1, <3>2
  <2>2. DOMAIN Sorted(S) = 1..size
    BY <1>8
  <2>3. QED
    BY <2>1, <2>2 DEF IsInjective
<1>10. Sorted(S) \in Surjection(1..size, S)
  <2>1. Sorted(S) \in Injection(1..size, S)
    BY <1>8, <1>9 DEF Injection
  <2>2. QED
    BY <1>1, <2>1, FS_Injection
<1>11. Sorted(S) \in Seq(S) /\ Len(Sorted(S)) = size
  BY <1>1, <1>8
<1>12. ToSet(Sorted(S)) = S
  BY <1>8, <1>10 DEF ToSet, Surjection
<1>13. QED
  BY <1>8, <1>9, <1>11, <1>12

\* The largest of a finite set of numbers is one of them.
LEMMA MaxIsThere ==
    ASSUME NEW S \in SUBSET Nat, IsFiniteSet(S), S # {}
    PROVE  Max(S) \in S /\ \A n \in S : Max(S) >= n
<1> DEFINE size == Cardinality(S)
           last == Sorted(S)[size]
<1>1. size \in Nat \ {0}
  BY FS_CardinalityType, FS_EmptySet
<1>2. \A i \in 1..size : Sorted(S)[i] \in S
  BY <1>1, SortedIsThere
<1>3. last \in S
  BY <1>1, <1>2
<1>4. ASSUME NEW n \in S
      PROVE  last >= n
  <2>1. PICK i \in 1..size : Sorted(S)[i] = n
    BY <1>1, SortedIsThere DEF ToSet
  <2>2. i < size => n < last
    BY <1>1, <2>1, SortedIsThere
  <2>3. i = size => n = last
    BY <2>1
  <2>4. n \in Nat /\ last \in Nat
    BY <1>3
  <2> HIDE DEF last
  <2>5. QED
    BY <1>1, <2>2, <2>3, <2>4
<1> HIDE DEF last
<1>5. \E x \in S : \A y \in S : x >= y
  BY <1>3, <1>4
<1>6. QED
  BY <1>5 DEF Max

-----------------------------------------------------------------------------
(* Datasets.  *)

\* A dataset in which every index has a name, or a number is itself.
DataFits(d) ==
    /\ d.named \in BOOLEAN /\ d.stored \in BOOLEAN
    /\ d.names \in Seq(Labels) /\ IsInjective(d.names)
    /\ ~d.named => d.names = <<>>
    /\ d.y \in Seq(Labels) /\ d.said \in Seq(Labels) /\ Len(d.said) = Len(d.y)
    /\ \A r \in 1..Len(d.y) :
         IF d.named THEN d.y[r] + 1 \in 1..Len(d.names) /\ d.names[d.y[r] + 1] = d.said[r]
                    ELSE d.y[r] = d.said[r]

\* There are no more names than labels.
LEMMA NamesAreFew ==
    ASSUME NEW s \in Seq(Labels), IsInjective(s)
    PROVE  Len(s) \in 0..(MaxLabel + 1)
<1>1. IsFiniteSet(0..MaxLabel) /\ Cardinality(0..MaxLabel) = MaxLabel + 1
  BY FS_Interval, LabelsAssumption
<1>2. Len(s) \in Nat /\ s \in [1..Len(s) -> Labels]
  OBVIOUS
<1>3. s \in Injection(1..Len(s), Labels)
  BY <1>2 DEF Injection
<1>4. Cardinality(1..Len(s)) <= MaxLabel + 1
  BY <1>1, <1>3, FS_Injection DEF Labels
<1>5. Cardinality(1..Len(s)) = Len(s)
  BY <1>2, FS_Interval
<1>6. QED
  BY <1>2, <1>4, <1>5, LabelsAssumption

\* A name has an index, counted from zero.
LEMMA NameHasAnIndex ==
    ASSUME NEW names \in Seq(Labels), IsInjective(names), NEW n \in ToSet(names)
    PROVE  LET at == (CHOOSE i \in DOMAIN names : names[i] = n) - 1
           IN  at \in Labels /\ at + 1 \in 1..Len(names) /\ names[at + 1] = n
<1> DEFINE i0 == CHOOSE i \in DOMAIN names : names[i] = n
<1>1. DOMAIN names = 1..Len(names) /\ Len(names) \in 0..(MaxLabel + 1)
  BY NamesAreFew
<1>2. \E i \in DOMAIN names : names[i] = n
  BY DEF ToSet
<1>3. i0 \in 1..Len(names) /\ names[i0] = n
  BY <1>1, <1>2
<1> HIDE DEF i0
<1>4. i0 - 1 \in Labels /\ (i0 - 1) + 1 = i0
  BY <1>1, <1>3, LabelsAssumption DEF Labels
<1>5. QED
  BY <1>3, <1>4 DEF i0

LEMMA LabelsAreFinite ==
    /\ Labels \subseteq Nat
    /\ \A T \in SUBSET Labels : T \in SUBSET Nat /\ IsFiniteSet(T)
<1>1. IsFiniteSet(0..MaxLabel) /\ 0..MaxLabel \subseteq Nat
  BY FS_Interval, LabelsAssumption
<1>2. QED
  BY <1>1, FS_Subset DEF Labels

\* Names that come after others, none of them twice.
LEMMA JoinedNames ==
    ASSUME NEW s \in Seq(Labels), IsInjective(s), NEW T \in SUBSET Labels
    PROVE  LET joined == s \o Sorted(T \ ToSet(s))
           IN  /\ joined \in Seq(Labels) /\ IsInjective(joined)
               /\ T \subseteq ToSet(joined)
               /\ Len(s) <= Len(joined) /\ \A i \in 1..Len(s) : joined[i] = s[i]
<1> DEFINE new == Sorted(T \ ToSet(s))
           joined == s \o new
<1>1. /\ new \in Seq(T \ ToSet(s)) /\ IsInjective(new) /\ ToSet(new) = T \ ToSet(s)
  BY LabelsAreFinite, SortedIsThere
<1>2. new \in Seq(Labels) /\ \A i \in 1..Len(new) : new[i] \notin ToSet(s)
  BY <1>1, SeqMonotonic, ElementOfSeq
<1> HIDE DEF new
<1>3. /\ joined \in Seq(Labels) /\ Len(joined) = Len(s) + Len(new)
      /\ Len(s) \in Nat /\ Len(new) \in Nat
      /\ \A i \in 1..Len(joined) : joined[i] = IF i <= Len(s) THEN s[i] ELSE new[i - Len(s)]
  BY <1>2, ConcatProperties, LenProperties
<1>4. DOMAIN s = 1..Len(s) /\ DOMAIN new = 1..Len(new) /\ DOMAIN joined = 1..Len(joined)
  BY <1>2, <1>3, LenProperties
<1> HIDE DEF joined
<1>5. ASSUME NEW i \in 1..Len(joined), NEW k \in 1..Len(joined), joined[i] = joined[k]
      PROVE  i = k
  <2>1. CASE i <= Len(s) /\ k <= Len(s)
    BY <1>3, <1>4, <1>5, <2>1 DEF IsInjective
  <2>2. CASE i > Len(s) /\ k > Len(s)
    <3>1. i - Len(s) \in 1..Len(new) /\ k - Len(s) \in 1..Len(new)
      BY <1>3, <2>2
    <3>2. new[i - Len(s)] = new[k - Len(s)]
      BY <1>3, <1>5, <2>2
    <3>3. i - Len(s) = k - Len(s)
      BY <1>1, <1>4, <3>1, <3>2 DEF IsInjective
    <3>4. QED
      BY <1>3, <3>3
  <2>3. ASSUME NEW a \in 1..Len(joined), NEW b \in 1..Len(joined), a <= Len(s), b > Len(s)
        PROVE  joined[a] # joined[b]
    <3>1. a \in 1..Len(s) /\ b - Len(s) \in 1..Len(new)
      BY <1>3, <2>3
    <3>2. joined[a] = s[a] /\ joined[b] = new[b - Len(s)]
      BY <1>3, <2>3
    <3>3. joined[a] \in ToSet(s) /\ joined[b] \notin ToSet(s)
      BY <1>2, <1>4, <3>1, <3>2 DEF ToSet
    <3>4. QED
      BY <3>3
  <2>4. QED
    BY <1>3, <1>5, <2>1, <2>2, <2>3
<1>6. T \subseteq ToSet(joined)
  <2>1. ASSUME NEW n \in T
        PROVE  \E i \in 1..Len(joined) : joined[i] = n
    <3>1. CASE n \in ToSet(s)
      <4>1. PICK i \in 1..Len(s) : s[i] = n
        BY <1>4, <3>1 DEF ToSet
      <4>2. i \in 1..Len(joined) /\ joined[i] = n
        BY <1>3, <4>1
      <4>3. QED
        BY <4>2
    <3>2. CASE n \notin ToSet(s)
      <4>1. PICK i \in 1..Len(new) : new[i] = n
        BY <1>1, <1>4, <3>2 DEF ToSet
      <4>2. Len(s) + i \in 1..Len(joined) /\ ~(Len(s) + i <= Len(s)) /\ (Len(s) + i) - Len(s) = i
        BY <1>3
      <4>3. joined[Len(s) + i] = n
        BY <1>3, <4>1, <4>2
      <4>4. QED
        BY <4>2, <4>3
    <3>3. QED
      BY <3>1, <3>2
  <2>2. QED
    BY <1>4, <2>1 DEF ToSet
<1>7. IsInjective(joined)
  BY <1>4, <1>5 DEF IsInjective
<1>8. Len(s) <= Len(joined) /\ \A i \in 1..Len(s) : joined[i] = s[i]
  BY <1>3
<1>9. QED
  BY <1>3, <1>6, <1>7, <1>8 DEF joined, new

\* What is read from one file fits.
LEMMA ParsedFits == ASSUME NEW f \in Files PROVE DataFits(Parsed(f))
<1> DEFINE names == Sorted(ToSet(f.labels))
           index(l) == (CHOOSE i \in DOMAIN names : names[i] = l) - 1
           y == [r \in DOMAIN f.labels |-> IF f.named THEN index(f.labels[r]) ELSE f.labels[r]]
           d == Parsed(f)
<1>1. /\ f.named \in BOOLEAN /\ f.labels \in Seq(Labels)
      /\ DOMAIN f.labels = 1..Len(f.labels) /\ Len(f.labels) \in Nat
  <2>1. f.named \in BOOLEAN /\ f.labels \in UNION {[1..n -> Labels] : n \in 1..MaxRows}
    BY DEF Files
  <2>2. PICK n \in 1..MaxRows : f.labels \in [1..n -> Labels]
    BY <2>1
  <2>3. QED
    BY <2>1, <2>2, LabelsAssumption
<1>2. \A r \in 1..Len(f.labels) : f.labels[r] \in Labels /\ f.labels[r] \in ToSet(f.labels)
  BY <1>1 DEF ToSet
<1>3. ToSet(f.labels) \in SUBSET Labels
  BY <1>1 DEF ToSet
<1>4. names \in Seq(Labels) /\ IsInjective(names) /\ ToSet(names) = ToSet(f.labels)
  BY <1>3, LabelsAreFinite, SortedIsThere, SeqMonotonic
<1>5. /\ d.named = f.named /\ d.stored = TRUE /\ d.names = (IF f.named THEN names ELSE <<>>)
      /\ d.y = y /\ d.said = f.labels
  BY DEF Parsed
<1> HIDE DEF d, names
<1>6. \A l \in ToSet(f.labels) : index(l) \in Labels /\ index(l) + 1 \in 1..Len(names) /\ names[index(l) + 1] = l
  BY <1>4, NameHasAnIndex
<1> HIDE DEF index
<1>7. /\ y \in Seq(Labels) /\ Len(y) = Len(f.labels)
      /\ \A r \in 1..Len(f.labels) : y[r] = IF f.named THEN index(f.labels[r]) ELSE f.labels[r]
  <2>1. \A r \in 1..Len(f.labels) : (IF f.named THEN index(f.labels[r]) ELSE f.labels[r]) \in Labels
    BY <1>2, <1>6
  <2>2. y \in [1..Len(f.labels) -> Labels]
    BY <1>1, <2>1
  <2>3. \A r \in 1..Len(f.labels) : y[r] = IF f.named THEN index(f.labels[r]) ELSE f.labels[r]
    BY <1>1
  <2> HIDE DEF y
  <2>4. QED
    BY <1>1, <2>2, <2>3
<1> HIDE DEF y
<1>8. ASSUME NEW r \in 1..Len(d.y)
      PROVE  IF d.named THEN d.y[r] + 1 \in 1..Len(d.names) /\ d.names[d.y[r] + 1] = d.said[r]
                        ELSE d.y[r] = d.said[r]
  BY <1>2, <1>5, <1>6, <1>7
<1>9. d.names \in Seq(Labels) /\ IsInjective(d.names)
  BY <1>4, <1>5 DEF IsInjective
<1>10. DataFits(d)
  BY <1>1, <1>5, <1>7, <1>8, <1>9 DEF DataFits
<1>11. QED
  BY <1>10 DEF d

\* What is joined of two fits, and has the rows of the first.
LEMMA MergedFits ==
    ASSUME NEW d, NEW e, DataFits(d), DataFits(e), d.named = e.named
    PROVE  DataFits(Merged(d, e)) /\ DOMAIN d.y \subseteq DOMAIN Merged(d, e).y
<1> DEFINE names == d.names \o Sorted(ToSet(e.names) \ ToSet(d.names))
           index(n) == (CHOOSE i \in DOMAIN names : names[i] = n) - 1
           y == [r \in DOMAIN e.y |-> IF d.named THEN index(e.names[e.y[r] + 1]) ELSE e.y[r]]
           m == Merged(d, e)
<1>1. /\ d.named \in BOOLEAN
      /\ d.names \in Seq(Labels) /\ IsInjective(d.names) /\ (~d.named => d.names = <<>>)
      /\ d.y \in Seq(Labels) /\ d.said \in Seq(Labels) /\ Len(d.said) = Len(d.y)
      /\ \A r \in 1..Len(d.y) :
           IF d.named THEN d.y[r] + 1 \in 1..Len(d.names) /\ d.names[d.y[r] + 1] = d.said[r]
                      ELSE d.y[r] = d.said[r]
  BY DEF DataFits
<1>2. /\ e.names \in Seq(Labels) /\ (~d.named => e.names = <<>>)
      /\ e.y \in Seq(Labels) /\ e.said \in Seq(Labels) /\ Len(e.said) = Len(e.y)
      /\ \A r \in 1..Len(e.y) :
           IF d.named THEN e.y[r] + 1 \in 1..Len(e.names) /\ e.names[e.y[r] + 1] = e.said[r]
                      ELSE e.y[r] = e.said[r]
  BY DEF DataFits
<1>3. ToSet(e.names) \in SUBSET Labels /\ DOMAIN e.names = 1..Len(e.names) /\ DOMAIN e.y = 1..Len(e.y)
  BY <1>2 DEF ToSet
<1>4. /\ m.named = d.named /\ m.stored = FALSE /\ m.names = names
      /\ m.y = d.y \o y /\ m.said = d.said \o e.said
  BY DEF Merged
<1> HIDE DEF m
<1>5. /\ names \in Seq(Labels) /\ IsInjective(names) /\ ToSet(e.names) \subseteq ToSet(names)
      /\ Len(d.names) <= Len(names) /\ \A i \in 1..Len(d.names) : names[i] = d.names[i]
  BY <1>1, <1>3, JoinedNames
<1>6. ~d.named => names = <<>>
  <2> SUFFICES ASSUME ~d.named
               PROVE  names = <<>>
    OBVIOUS
  <2>1. d.names = <<>> /\ ToSet(e.names) \ ToSet(d.names) = {}
    BY <1>1, <1>2 DEF ToSet
  <2>2. Sorted({}) \in Seq({}) /\ Len(Sorted({})) = 0
    BY SortedIsThere, FS_EmptySet
  <2>3. Sorted({}) = <<>>
    BY <2>2, EmptySeq
  <2>4. QED
    BY <2>1, <2>3
<1> HIDE DEF names
<1>7. \A n \in ToSet(e.names) : index(n) \in Labels /\ index(n) + 1 \in 1..Len(names) /\ names[index(n) + 1] = n
  BY <1>5, NameHasAnIndex
<1> HIDE DEF index
<1>8. \A r \in 1..Len(e.y) : d.named => e.names[e.y[r] + 1] \in ToSet(e.names) /\ e.names[e.y[r] + 1] = e.said[r]
  BY <1>2, <1>3 DEF ToSet
<1>9. /\ y \in Seq(Labels) /\ Len(y) = Len(e.y)
      /\ \A r \in 1..Len(e.y) :
           IF d.named THEN y[r] + 1 \in 1..Len(names) /\ names[y[r] + 1] = e.said[r]
                      ELSE y[r] = e.said[r]
  <2>1. \A r \in 1..Len(e.y) : (IF d.named THEN index(e.names[e.y[r] + 1]) ELSE e.y[r]) \in Labels
    BY <1>2, <1>7, <1>8
  <2>2. y \in [1..Len(e.y) -> Labels]
    BY <1>3, <2>1
  <2>3. \A r \in 1..Len(e.y) : y[r] = IF d.named THEN index(e.names[e.y[r] + 1]) ELSE e.y[r]
    BY <1>3
  <2> HIDE DEF y
  <2>4. Len(e.y) \in Nat
    BY <1>2, LenProperties
  <2>5. y \in Seq(Labels) /\ Len(y) = Len(e.y)
    BY <2>2, <2>4
  <2>6. ASSUME NEW r \in 1..Len(e.y)
        PROVE  IF d.named THEN y[r] + 1 \in 1..Len(names) /\ names[y[r] + 1] = e.said[r]
                          ELSE y[r] = e.said[r]
    BY <1>2, <1>7, <1>8, <2>3
  <2>7. QED
    BY <2>5, <2>6
<1> HIDE DEF y
<1> DEFINE a == Len(d.y)
           b == Len(e.y)
<1>10. a \in Nat /\ b \in Nat
  BY <1>1, <1>2, LenProperties
<1>11. /\ m.y \in Seq(Labels) /\ Len(m.y) = a + b
       /\ \A r \in 1..(a + b) : m.y[r] = IF r <= a THEN d.y[r] ELSE y[r - a]
  <2>1. d.y \in Seq(Labels) /\ y \in Seq(Labels) /\ Len(y) = b
    BY <1>1, <1>9
  <2>2. /\ d.y \o y \in Seq(Labels) /\ Len(d.y \o y) = a + b
        /\ \A r \in 1..(a + b) : (d.y \o y)[r] = IF r <= a THEN d.y[r] ELSE y[r - a]
    <3> HIDE DEF b
    <3>1. QED
      BY <2>1, ConcatProperties
  <2>3. QED
    BY <1>4, <2>2
<1>12. /\ m.said \in Seq(Labels) /\ Len(m.said) = a + b
       /\ \A r \in 1..(a + b) : m.said[r] = IF r <= a THEN d.said[r] ELSE e.said[r - a]
  <2>1. d.said \in Seq(Labels) /\ e.said \in Seq(Labels) /\ Len(d.said) = a /\ Len(e.said) = b
    BY <1>1, <1>2
  <2>2. /\ d.said \o e.said \in Seq(Labels) /\ Len(d.said \o e.said) = a + b
        /\ \A r \in 1..(a + b) : (d.said \o e.said)[r] = IF r <= a THEN d.said[r] ELSE e.said[r - a]
    <3> HIDE DEF a, b
    <3>1. QED
      BY <2>1, ConcatProperties
  <2>3. QED
    BY <1>4, <2>2
<1>13. \A r \in 1..a :
         IF d.named THEN d.y[r] + 1 \in 1..Len(d.names) /\ d.names[d.y[r] + 1] = d.said[r]
                    ELSE d.y[r] = d.said[r]
  BY <1>1
<1>14. \A r \in 1..b :
         IF d.named THEN y[r] + 1 \in 1..Len(names) /\ names[y[r] + 1] = e.said[r]
                    ELSE y[r] = e.said[r]
  BY <1>9
<1> HIDE DEF a, b
<1>15. ASSUME NEW r \in 1..(a + b)
       PROVE  IF m.named THEN m.y[r] + 1 \in 1..Len(m.names) /\ m.names[m.y[r] + 1] = m.said[r]
                         ELSE m.y[r] = m.said[r]
  <2>1. CASE r <= a
    <3>1. r \in 1..a
      BY <1>10, <2>1
    <3>2. m.y[r] = d.y[r] /\ m.said[r] = d.said[r]
      BY <1>11, <1>12, <2>1
    <3>3. Len(d.names) \in Nat /\ Len(names) \in Nat
      BY <1>1, <1>5, LenProperties
    <3>4. 1..Len(d.names) \subseteq 1..Len(names)
      BY <1>5, <3>3
    <3>5. d.named => d.y[r] + 1 \in 1..Len(names) /\ names[d.y[r] + 1] = d.said[r]
      BY <1>5, <1>13, <3>1, <3>4
    <3>6. QED
      BY <1>4, <1>13, <3>1, <3>2, <3>5
  <2>2. CASE ~(r <= a)
    <3>1. r - a \in 1..b
      BY <1>10, <2>2
    <3>2. m.y[r] = y[r - a] /\ m.said[r] = e.said[r - a]
      BY <1>11, <1>12, <2>2
    <3>3. QED
      BY <1>4, <1>14, <3>1, <3>2
  <2>3. QED
    BY <2>1, <2>2
<1>16. DataFits(m)
  BY <1>1, <1>4, <1>5, <1>6, <1>11, <1>12, <1>15 DEF DataFits
<1>17. DOMAIN d.y \subseteq DOMAIN m.y
  <2>1. DOMAIN d.y = 1..a /\ DOMAIN m.y = 1..(a + b)
    BY <1>1, <1>11, LenProperties DEF a
  <2>2. QED
    BY <1>10, <2>1
<1>18. QED
  BY <1>16, <1>17 DEF m

\* The outputs of a model are those that were stated, unless a row needs more.
LEMMA OutputsCover ==
    ASSUME dataset.y \in Seq(Labels), NEW stated \in Dims, NEW rows \in SUBSET DataRows
    PROVE  /\ Outputs(stated, rows) \in Dims
           /\ (\A r \in rows : dataset.y[r] + 1 <= stated) => Outputs(stated, rows) = stated
<1> DEFINE S == {stated} \cup {dataset.y[r] + 1 : r \in rows}
<1>1. \A r \in rows : dataset.y[r] \in 0..MaxLabel
  BY ElementOfSeq, LenProperties DEF DataRows, Labels
<1>2. S \subseteq 0..(MaxLabel + 1) /\ S # {} /\ stated \in S /\ MaxLabel \in Nat
  BY <1>1, LabelsAssumption DEF Dims
<1>3. IsFiniteSet(S) /\ S \in SUBSET Nat
  <2>1. IsFiniteSet(0..(MaxLabel + 1)) /\ 0..(MaxLabel + 1) \subseteq Nat
    BY <1>2, FS_Interval
  <2>2. QED
    BY <1>2, <2>1, FS_Subset
<1>4. (\A r \in rows : dataset.y[r] + 1 <= stated) => \A n \in S : n <= stated
  BY <1>2 DEF Dims
<1> HIDE DEF S
<1>5. Max(S) \in S /\ \A n \in S : Max(S) >= n
  BY <1>2, <1>3, MaxIsThere
<1>6. Max(S) \in 0..(MaxLabel + 1) /\ Max(S) >= stated /\ stated \in Nat
  BY <1>2, <1>3, <1>5
<1>7. (\A r \in rows : dataset.y[r] + 1 <= stated) => Max(S) = stated
  BY <1>4, <1>5, <1>6
<1>8. QED
  BY <1>6, <1>7 DEF Outputs, Dims, S

\* Some rows are held back and some are not.
LEMMA SomeAreHeldBack ==
    ASSUME NEW n \in Nat, n >= 4
    PROVE  HoldoutRows(n) \in 1..(n - 1)
<1> DEFINE fifth == (2 * n + 5) \div 10
           A == {1, fifth}
           B == {HoldoutCap, n - 1, Max(A)}
<1>1. fifth \in Nat
  OBVIOUS
<1> HIDE DEF fifth
<1>2. Max(A) \in Nat /\ Max(A) >= 1
  <2>1. \E x \in A : \A y \in A : x >= y
    BY <1>1
  <2>2. Max(A) \in A /\ \A y \in A : Max(A) >= y
    BY <2>1 DEF Max
  <2>3. QED
    BY <1>1, <2>2
<1> DEFINE most == Max(A)
<1>3. most \in Nat /\ most >= 1 /\ B = {HoldoutCap, n - 1, most}
  BY <1>2
<1> HIDE DEF A, B, most
<1>4. \A x \in B : x \in Nat /\ x >= 1
  BY <1>3, LabelsAssumption
<1>5. \E x \in B : \A y \in B : x <= y
  <2>1. \A x, y \in B : x \in Int /\ y \in Int
    BY <1>4
  <2>2. QED
    BY <1>3, <2>1
<1>6. Min(B) \in B /\ \A y \in B : Min(B) <= y
  BY <1>5 DEF Min
<1>7. Min(B) \in 1..(n - 1)
  BY <1>3, <1>4, <1>6
<1>8. QED
  BY <1>7 DEF HoldoutRows, A, B, fifth

-----------------------------------------------------------------------------
(* The invariant.  *)

\* A run with the outputs its job was queued with: it has one for each name.
RunFits(run, d) ==
    ~run.changed =>
      /\ run.outputs = Len(d.names)
      /\ d.named => /\ run.dim = IF run.state \in {"done", "scored"} THEN Len(d.names) ELSE 0
                    /\ run.verdict # "unloadable"

LabelsInv ==
    /\ DataFits(dataset)
    /\ held \subseteq DataRows /\ runs \in Seq(RunRecords)
    /\ runs # <<>> => held # {} /\ held # DataRows
    /\ \A i \in DOMAIN runs : RunFits(runs[i], dataset)

LEMMA LabelsAtFirst == LabelsInit => LabelsInv
<1> SUFFICES ASSUME LabelsInit
             PROVE  LabelsInv
  OBVIOUS
<1>1. /\ dataset.named = FALSE /\ dataset.stored = FALSE /\ dataset.names = <<>>
      /\ dataset.y = <<>> /\ dataset.said = <<>> /\ held = {} /\ runs = <<>>
  BY DEF LabelsInit, NoData
<1>2. DataFits(dataset)
  <2>1. IsInjective(<<>>)
    BY DEF IsInjective
  <2>2. <<>> \in Seq(Labels) /\ Len(<<>>) = 0 /\ 1..0 = {}
    OBVIOUS
  <2>3. QED
    BY <1>1, <2>1, <2>2 DEF DataFits
<1>3. QED
  BY <1>1, <1>2 DEF LabelsInv

LEMMA RunKept ==
    ASSUME LabelsInv, NEW i \in DOMAIN runs, NEW run \in RunRecords, RunFits(run, dataset),
           Becomes(i, run)
    PROVE  LabelsInv'
<1>1. /\ runs' = [runs EXCEPT ![i] = run] /\ UNCHANGED <<dataset, held>>
      /\ runs \in Seq(RunRecords)
  BY DEF Becomes, LabelsInv
<1>2. runs' \in Seq(RunRecords) /\ DOMAIN runs' = DOMAIN runs
  BY <1>1, ExceptSeq, LenProperties
<1>3. \A k \in DOMAIN runs' : runs'[k] = IF k = i THEN run ELSE runs[k]
  BY <1>1, <1>2
<1>4. runs # <<>>
  OBVIOUS
<1>5. \A k \in DOMAIN runs' : RunFits(runs'[k], dataset)
  BY <1>2, <1>3 DEF LabelsInv
<1>6. QED
  BY <1>1, <1>2, <1>4, <1>5 DEF LabelsInv, DataRows

LEMMA UploadKept == ASSUME LabelsInv, NEW f \in Files, UploadFile(f) PROVE LabelsInv'
<1>1. /\ dataset = NoData /\ dataset' = Parsed(f) /\ UNCHANGED <<held, runs>>
  BY DEF UploadFile
<1>2. held = {} /\ runs = <<>>
  BY <1>1 DEF LabelsInv, DataRows, NoData
<1>3. DataFits(dataset')
  BY <1>1, ParsedFits
<1>4. QED
  BY <1>1, <1>2, <1>3 DEF LabelsInv

LEMMA JoinKept == ASSUME LabelsInv, NEW f \in Files, JoinFile(f) PROVE LabelsInv'
<1>1. /\ runs = <<>> /\ f.named = dataset.named
      /\ dataset' = Merged(dataset, Parsed(f)) /\ UNCHANGED <<held, runs>>
  BY DEF JoinFile
<1>2. DataFits(Parsed(f)) /\ Parsed(f).named = f.named
  BY ParsedFits DEF Parsed
<1>3. DataFits(dataset') /\ DataRows \subseteq DataRows'
  BY <1>1, <1>2, MergedFits DEF LabelsInv, DataRows
<1>4. QED
  BY <1>1, <1>3 DEF LabelsInv

LEMMA QueueKept == ASSUME LabelsInv, NEW ordered \in BOOLEAN, SplitAndQueue(ordered) PROVE LabelsInv'
<1> DEFINE n == Len(dataset.y)
           h == HoldoutRows(n)
<1>1. /\ n >= 4 /\ UNCHANGED dataset /\ runs' = <<QueuedRun>>
      /\ held' \in IF ordered THEN {{r \in DataRows : r > n - h}} ELSE kSubset(h, DataRows)
  BY DEF SplitAndQueue
<1>2. n \in Nat /\ DataRows = 1..n /\ dataset.names \in Seq(Labels) /\ IsInjective(dataset.names)
  BY LenProperties DEF LabelsInv, DataFits, DataRows
<1>3. h \in 1..(n - 1)
  BY <1>1, <1>2, SomeAreHeldBack
<1>4. held' \subseteq DataRows /\ held' # {} /\ held' # DataRows
  <2>1. CASE ordered
    <3>1. held' = {r \in DataRows : r > n - h}
      BY <1>1, <2>1
    <3> HIDE DEF n, h
    <3>2. n \in held' /\ 1 \notin held' /\ 1 \in DataRows
      BY <1>1, <1>2, <1>3, <3>1
    <3>3. QED
      BY <3>1, <3>2
  <2>2. CASE ~ordered
    <3>1. held' \subseteq DataRows /\ Cardinality(held') = h
      BY <1>1, <2>2 DEF kSubset
    <3> HIDE DEF n, h
    <3>2. Cardinality(1..n) = n /\ Cardinality({}) = 0
      BY <1>2, FS_Interval, FS_EmptySet
    <3>3. h # 0 /\ h # n
      BY <1>2, <1>3
    <3>4. QED
      BY <1>2, <3>1, <3>2, <3>3
  <2>3. QED
    BY <2>1, <2>2
<1>5. QueuedRun \in RunRecords /\ RunFits(QueuedRun, dataset)
  <2>1. Len(dataset.names) \in Dims /\ 0 \in Dims
    BY <1>2, NamesAreFew, LabelsAssumption DEF Dims
  <2>2. QED
    BY <2>1 DEF QueuedRun, NewRun, RunRecords, RunFits
<1>6. runs' \in Seq(RunRecords) /\ DOMAIN runs' = {1} /\ runs'[1] = QueuedRun
  BY <1>1, <1>5
<1>7. QED
  BY <1>1, <1>4, <1>5, <1>6 DEF LabelsInv, DataRows

-----------------------------------------------------------------------------
(* The runs.  *)

LEMMA RunIsTyped ==
    ASSUME LabelsInv, NEW i \in DOMAIN runs
    PROVE  runs[i] \in RunRecords /\ RunFits(runs[i], dataset)
BY ElementOfSeq, LenProperties DEF LabelsInv

LEMMA RerunKept ==
    ASSUME LabelsInv, NEW i \in DOMAIN runs, NEW changes \in BOOLEAN, NEW warm \in BOOLEAN,
           RerunOf(i, changes, warm)
    PROVE  LabelsInv'
<1> DEFINE run == NewRun(IF changes THEN Validated(runs[i].outputs) ELSE runs[i].outputs,
                         changes \/ runs[i].changed,
                         IF warm THEN runs[i].dim ELSE 0)
<1>1. runs' = Append(runs, run) /\ UNCHANGED <<dataset, held>> /\ runs \in Seq(RunRecords)
  BY DEF RerunOf, LabelsInv
<1>2. runs[i] \in RunRecords /\ RunFits(runs[i], dataset) /\ 0 \in Dims
  BY RunIsTyped, LabelsAssumption DEF Dims
<1>3. run \in RunRecords
  BY <1>2 DEF NewRun, RunRecords, Validated
<1>4. RunFits(run, dataset)
  BY <1>2 DEF NewRun, RunFits, RunRecords
<1> HIDE DEF run
<1>5. /\ runs' \in Seq(RunRecords) /\ Len(runs') = Len(runs) + 1
      /\ \A k \in 1..Len(runs) : runs'[k] = runs[k]
      /\ runs'[Len(runs) + 1] = run
  BY <1>1, <1>3, AppendProperties
<1>6. DOMAIN runs = 1..Len(runs) /\ DOMAIN runs' = 1..Len(runs') /\ Len(runs) \in Nat
  BY <1>1, <1>5, LenProperties
<1>7. \A k \in DOMAIN runs' : RunFits(runs'[k], dataset)
  <2>1. ASSUME NEW k \in DOMAIN runs'
        PROVE  RunFits(runs'[k], dataset)
    <3>1. k \in 1..Len(runs) \/ k = Len(runs) + 1
      BY <1>5, <1>6
    <3>2. k \in 1..Len(runs) => RunFits(runs[k], dataset) /\ runs'[k] = runs[k]
      BY <1>5, <1>6 DEF LabelsInv
    <3>3. QED
      BY <1>4, <1>5, <3>1, <3>2
  <2>2. QED
    BY <2>1
<1>8. runs # <<>>
  BY <1>6
<1>9. QED
  BY <1>1, <1>5, <1>7, <1>8 DEF LabelsInv, DataRows

\* However the rows are divided, a run that states its outputs gets no others.
LEMMA StatedIsEnough ==
    ASSUME LabelsInv, NEW run \in RunRecords, RunFits(run, dataset), ~run.changed, dataset.named,
           NEW rows \in SUBSET DataRows
    PROVE  Outputs(run.outputs, rows) = Len(dataset.names)
<1>1. run.outputs \in Dims /\ run.outputs = Len(dataset.names) /\ dataset.y \in Seq(Labels)
  BY DEF RunRecords, RunFits, LabelsInv, DataFits
<1>2. \A r \in DataRows : dataset.y[r] + 1 \in 1..Len(dataset.names)
  BY <1>1, LenProperties DEF LabelsInv, DataFits, DataRows
<1>3. \A r \in rows : dataset.y[r] + 1 <= run.outputs
  BY <1>1, <1>2 DEF Dims
<1>4. QED
  BY <1>1, <1>3, OutputsCover

LEMMA TrainKept ==
    ASSUME LabelsInv, NEW i \in DOMAIN runs, NEW lazy \in BOOLEAN, TrainRun(i, lazy)
    PROVE  LabelsInv'
<1> DEFINE run == runs[i]
           dim == Outputs(run.outputs, DataRows \ held)
           failed == [run EXCEPT !.state = "failed"]
           done == [run EXCEPT !.state = "done", !.dim = dim, !.handedBack = lazy]
<1>1. run \in RunRecords /\ RunFits(run, dataset) /\ run.outputs \in Dims
  BY RunIsTyped DEF RunRecords
<1>2. run.state = "queued" /\ (Becomes(i, failed) \/ Becomes(i, done))
  BY DEF TrainRun
<1>3. dim \in Dims
  BY <1>1, OutputsCover DEF LabelsInv, DataFits
<1>4. ~run.changed /\ dataset.named => dim = Len(dataset.names)
  BY <1>1, StatedIsEnough
<1> HIDE DEF run, dim
<1>5. failed \in RunRecords /\ RunFits(failed, dataset)
  BY <1>1, <1>2 DEF RunRecords, RunFits
<1>6. done \in RunRecords
  BY <1>1, <1>3 DEF RunRecords
<1>7. RunFits(done, dataset)
  BY <1>1, <1>4 DEF RunRecords, RunFits
<1> HIDE DEF failed, done
<1>8. QED
  BY <1>2, <1>5, <1>6, <1>7, RunKept

LEMMA FailKept ==
    ASSUME LabelsInv, NEW i \in DOMAIN runs, RunFails(i)
    PROVE  LabelsInv'
<1> DEFINE failed == [runs[i] EXCEPT !.state = "failed"]
<1>1. runs[i].state = "queued" /\ Becomes(i, failed)
  BY DEF RunFails
<1>2. runs[i] \in RunRecords /\ RunFits(runs[i], dataset)
  BY RunIsTyped
<1>3. failed \in RunRecords /\ RunFits(failed, dataset)
  BY <1>1, <1>2 DEF RunRecords, RunFits
<1> HIDE DEF failed
<1>4. QED
  BY <1>1, <1>3, RunKept

LEMMA ScoreKept ==
    ASSUME LabelsInv, NEW i \in DOMAIN runs, NEW numbers \in BOOLEAN, NEW readable \in BOOLEAN,
           ScoreRun(i, numbers, readable)
    PROVE  LabelsInv'
<1>1. PICK v \in Verdicts(runs[i], numbers, readable) :
        Becomes(i, [runs[i] EXCEPT !.state = "scored", !.verdict = v])
  BY DEF ScoreRun
<1> DEFINE run == runs[i]
           scored == [run EXCEPT !.state = "scored", !.verdict = v]
<1>2. run.state \in {"done", "scored"} /\ Becomes(i, scored)
  BY <1>1 DEF ScoreRun
<1>3. run \in RunRecords /\ RunFits(run, dataset)
  BY RunIsTyped
<1>4. v \in {"accepted", "suspicious", "rejected", "unloadable"} /\ (v = "unloadable" => ~Loads(run))
  BY DEF Verdicts
<1>5. ~run.changed /\ dataset.named => Loads(run)
  <2>1. held \in SUBSET DataRows
    BY DEF LabelsInv
  <2> HIDE DEF run
  <2>2. QED
    BY <1>2, <1>3, <2>1, StatedIsEnough DEF Loads, RunFits
<1> HIDE DEF run
<1>6. scored \in RunRecords
  BY <1>3, <1>4 DEF RunRecords
<1>7. RunFits(scored, dataset)
  BY <1>2, <1>3, <1>4, <1>5 DEF RunRecords, RunFits
<1> HIDE DEF scored
<1>8. QED
  BY <1>2, <1>6, <1>7, RunKept

LEMMA LabelsKept == LabelsInv /\ [LabelsNext]_labelVars => LabelsInv'
<1> SUFFICES ASSUME LabelsInv, [LabelsNext]_labelVars
             PROVE  LabelsInv'
  OBVIOUS
<1>1. CASE UNCHANGED labelVars
  BY <1>1 DEF labelVars, LabelsInv, DataRows
<1>2. CASE LabelsNext
  BY <1>2, UploadKept, JoinKept, QueueKept, RerunKept, TrainKept, FailKept, ScoreKept DEF LabelsNext
<1>3. QED
  BY <1>1, <1>2

LEMMA LabelsInvariant == LabelsSpec => []LabelsInv
BY LabelsAtFirst, LabelsKept, PTL DEF LabelsSpec

\* Every state has its type: an index stands for a name, no name is twice among
\* them, and the machines and the verifier each have rows (verification.py
\* split_holdout).
THEOREM LabelsTypeCorrect == LabelsSpec => []LabelsTypeOK
<1>1. LabelsInv => LabelsTypeOK
  <2> SUFFICES ASSUME LabelsInv
               PROVE  LabelsTypeOK
    OBVIOUS
  <2>1. DataFits(dataset) /\ DataRows = 1..Len(dataset.y) /\ DOMAIN dataset.names = 1..Len(dataset.names)
    BY LenProperties DEF LabelsInv, DataFits, DataRows
  <2>2. dataset.said \in [DataRows -> Labels]
    BY <2>1, LenProperties DEF DataFits
  <2>3. QED
    BY <2>1, <2>2 DEF LabelsInv, DataFits, LabelsTypeOK
<1>2. QED
  BY <1>1, LabelsInvariant, PTL

\* An index means the label its file said, after any number of joins and for any
\* labels (artifacts.py parse_csv_dataset, merge_datasets).
THEOREM LabelsKeepTheirMeaningCorrect == LabelsSpec => []LabelsKeepTheirMeaning
<1>1. LabelsInv => LabelsKeepTheirMeaning
  <2> SUFFICES ASSUME LabelsInv
               PROVE  LabelsKeepTheirMeaning
    OBVIOUS
  <2>1. DataFits(dataset) /\ DataRows = 1..Len(dataset.y)
    BY LenProperties DEF LabelsInv, DataFits, DataRows
  <2>2. QED
    BY <2>1 DEF DataFits, LabelsKeepTheirMeaning
<1>2. QED
  BY <1>1, LabelsInvariant, PTL

\* The weights of a job with named labels load at the verifier, whatever rows the
\* split left on each side, and however often the job is run again unchanged
\* (routes/tasks.py _queue_task, trainer.py infer_spec_from_dataset).
THEOREM NamedWorkFitsCorrect == LabelsSpec => []NamedWorkFits
<1>1. LabelsInv => NamedWorkFits
  BY DEF LabelsInv, RunFits, NamedWorkFits
<1>2. QED
  BY <1>1, LabelsInvariant, PTL
=============================================================================
