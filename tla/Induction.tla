------------------------------ MODULE Induction ------------------------------
(***************************************************************************)
(* Induction over numbers and finite sets, stated of sets rather than of    *)
(* predicates, and what it gives for sums over finite sets, the folds       *)
(* MapThenSumSet of the community modules.                                  *)
(***************************************************************************)
EXTENDS Integers, FiniteSetsExt, FiniteSetTheorems, WellFoundedInduction, TLAPS

\* The order of the numbers as a relation.
Less == {p \in Nat \X Nat : p[1] < p[2]}

LEMMA LessWellFounded == IsWellFoundedOn(Less, Nat)
BY NatLessThanWellFounded DEF OpToRel, Less

\* A set of numbers that is not empty has a least one.
LEMMA LeastNumber ==
  ASSUME NEW T, T \subseteq Nat, T # {}
  PROVE  \E x \in T : \A y \in T : x <= y
<1>1. PICK x \in T : \A y \in T : ~(<<y, x>> \in Less)
  BY LessWellFounded, WFMin
<1>2. ASSUME NEW y \in T PROVE x <= y
  <2>1. x \in Nat /\ y \in Nat
    OBVIOUS
  <2>2. ~(<<y, x>> \in Less)
    BY <1>1
  <2> QED
    BY <2>1, <2>2 DEF Less
<1> QED
  BY <1>2

\* A set that has 0 and with every number the next one has all numbers.
LEMMA AllNumbers ==
  ASSUME NEW S, 0 \in S, \A n \in Nat : n \in S => n + 1 \in S
  PROVE  Nat \subseteq S
<1> DEFINE T == Nat \ S
<1>1. SUFFICES ASSUME T # {} PROVE FALSE
  OBVIOUS
<1>2. PICK x \in T : \A y \in T : x <= y
  BY <1>1, LeastNumber
<1>3. x \in Nat /\ x # 0
  OBVIOUS
<1>4. x - 1 \in Nat /\ ~(x <= x - 1)
  BY <1>3
<1>5. x - 1 \in S
  BY <1>2, <1>4
<1> QED
  BY <1>4, <1>5

\* A set of subsets of a finite set that has the empty one, and with every subset those
\* that have one element more, has the finite set itself.
LEMMA AllFiniteSets ==
  ASSUME NEW A, IsFiniteSet(A), NEW P, {} \in P,
         \A T \in SUBSET A : \A x \in A \ T : T \in P => T \cup {x} \in P
  PROVE  A \in P
<1> DEFINE S == {n \in Nat : \A T \in SUBSET A : Cardinality(T) = n => T \in P}
<1>1. 0 \in S
  <2>1. ASSUME NEW T \in SUBSET A, Cardinality(T) = 0 PROVE T = {}
    BY <2>1, FS_Subset, FS_EmptySet
  <2> QED
    BY <2>1
<1>2. ASSUME NEW n \in Nat, n \in S PROVE n + 1 \in S
  <2>1. ASSUME NEW T \in SUBSET A, Cardinality(T) = n + 1 PROVE T \in P
    <3>1. IsFiniteSet(T)
      BY FS_Subset
    <3>2. PICK x \in T : TRUE
      <4>1. Cardinality({}) = 0 /\ n + 1 # 0
        BY FS_EmptySet
      <4> QED
        BY <2>1, <4>1
    <3>3. Cardinality(T \ {x}) = n
      <4>1. Cardinality(T \ {x}) = Cardinality(T) - 1
        BY <3>1, <3>2, FS_RemoveElement
      <4> QED
        BY <2>1, <4>1
    <3>4. T \ {x} \in P
      BY <1>2, <3>3
    <3>5. (T \ {x}) \cup {x} \in P
      BY <3>4, <3>2
    <3>6. (T \ {x}) \cup {x} = T
      BY <3>2
    <3> QED
      BY <3>5, <3>6
  <2> QED
    BY <2>1
<1> HIDE DEF S
<1>3. Nat \subseteq S
  BY <1>1, <1>2, AllNumbers
<1>4. Cardinality(A) \in Nat
  BY FS_CardinalityType
<1>5. Cardinality(A) \in S
  BY <1>3, <1>4
<1> QED
  BY <1>5 DEF S

-----------------------------------------------------------------------------
(* Sums over finite sets. *)

Total(f, S) == MapThenSumSet(LAMBDA x : f[x], S)

Some(s) == CHOOSE x \in s : TRUE

\* A function that adds up f over every subset of S, one chosen element at a time.
Adds(g, f, S) ==
  g = [s \in SUBSET S |-> IF s = {} THEN 0 ELSE f[Some(s)] + g[s \ {Some(s)}]]

LEMMA TotalUnfolds ==
  ASSUME NEW f, NEW S
  PROVE  Total(f, S) = (CHOOSE g : Adds(g, f, S))[S]
BY DEF Total, MapThenSumSet, MapThenFoldSet, Adds, Some

Numeric(f, S) == \A x \in S : f[x] \in Int

LEMMA AddsExists ==
  ASSUME NEW S, IsFiniteSet(S), NEW f, Numeric(f, S)
  PROVE  \E g \in [SUBSET S -> Int] : Adds(g, f, S)
<1> DEFINE Upto(n) == {s \in SUBSET S : Cardinality(s) <= n}
           Good(g, n) == \A s \in Upto(n) :
                           g[s] = IF s = {} THEN 0 ELSE f[Some(s)] + g[s \ {Some(s)}]
           N == {n \in Nat : \E g \in [Upto(n) -> Int] : Good(g, n)}
<1>f. \A s \in SUBSET S : IsFiniteSet(s) /\ Cardinality(s) \in Nat /\ (Cardinality(s) = 0 <=> s = {})
  BY FS_Subset, FS_CardinalityType, FS_EmptySet
<1>s. \A s \in SUBSET S : s # {} => /\ Some(s) \in s /\ Some(s) \in S /\ f[Some(s)] \in Int
                                    /\ s \ {Some(s)} \in SUBSET S
                                    /\ Cardinality(s \ {Some(s)}) = Cardinality(s) - 1
  <2> SUFFICES ASSUME NEW s \in SUBSET S, s # {}
               PROVE  /\ Some(s) \in s /\ Some(s) \in S /\ f[Some(s)] \in Int
                      /\ s \ {Some(s)} \in SUBSET S
                      /\ Cardinality(s \ {Some(s)}) = Cardinality(s) - 1
    OBVIOUS
  <2>1. Some(s) \in s
    BY DEF Some
  <2>2. Cardinality(s \ {Some(s)}) = Cardinality(s) - 1
    BY <1>f, <2>1, FS_RemoveElement
  <2> QED
    BY <2>1, <2>2 DEF Numeric
<1>1. 0 \in N
  <2> DEFINE g == [s \in Upto(0) |-> 0]
  <2>1. \A s \in Upto(0) : s = {}
    BY <1>f
  <2>2. g \in [Upto(0) -> Int] /\ Good(g, 0)
    BY <2>1
  <2> HIDE DEF g, Good, Upto
  <2> QED
    BY <2>2
<1>2. ASSUME NEW n \in Nat, n \in N PROVE n + 1 \in N
  <2>1. PICK h \in [Upto(n) -> Int] : Good(h, n)
    BY <1>2
  <2> DEFINE g == [s \in Upto(n + 1) |-> IF s = {} THEN 0 ELSE f[Some(s)] + h[s \ {Some(s)}]]
  <2>2. \A s \in Upto(n + 1) : s # {} => s \ {Some(s)} \in Upto(n) /\ s \ {Some(s)} \in Upto(n + 1)
    BY <1>f, <1>s
  <2>3. g \in [Upto(n + 1) -> Int]
    <3>1. ASSUME NEW s \in Upto(n + 1), s # {} PROVE f[Some(s)] + h[s \ {Some(s)}] \in Int
      <4>1. f[Some(s)] \in Int
        BY <3>1, <1>s
      <4>2. h[s \ {Some(s)}] \in Int
        BY <3>1, <2>2
      <4> QED
        BY <4>1, <4>2
    <3> QED
      BY <3>1
  <2>4. \A t \in Upto(n) : g[t] = h[t]
    <3>1. \A t \in Upto(n) : t \in Upto(n + 1)
      BY <1>f
    <3> HIDE DEF Upto
    <3> QED
      BY <2>1, <3>1
  <2>5. \A s \in Upto(n + 1) : s # {} => g[s \ {Some(s)}] = h[s \ {Some(s)}]
    BY <2>2, <2>4
  <2>6. Good(g, n + 1)
    <3> HIDE DEF Upto
    <3> QED
      BY <2>5
  <2> HIDE DEF g, Good, Upto
  <2>7. n + 1 \in Nat /\ \E k \in [Upto(n + 1) -> Int] : Good(k, n + 1)
    BY <2>3, <2>6
  <2> QED
    BY <2>7
<1> HIDE DEF N
<1>3. Nat \subseteq N
  BY <1>1, <1>2, AllNumbers
<1> DEFINE c == Cardinality(S)
<1>4. c \in Nat /\ c \in N
  BY <1>3, FS_CardinalityType
<1>5. Upto(c) = SUBSET S
  <2>1. \A s \in SUBSET S : Cardinality(s) <= c
    BY FS_Subset
  <2> QED
    BY <2>1
<1>6. PICK g \in [Upto(c) -> Int] : Good(g, c)
  BY <1>4 DEF N
<1>7. g \in [SUBSET S -> Int] /\ g = [s \in SUBSET S |-> g[s]]
  BY <1>5, <1>6
<1>8. \A s \in SUBSET S : g[s] = IF s = {} THEN 0 ELSE f[Some(s)] + g[s \ {Some(s)}]
  BY <1>5, <1>6
<1>9. Adds(g, f, S)
  BY <1>7, <1>8 DEF Adds
<1> QED
  BY <1>7, <1>9

\* What a function that adds up f says of a smaller set is the sum over that set.
LEMMA AddsAgree ==
  ASSUME NEW S, IsFiniteSet(S), NEW f, NEW g, NEW T, IsFiniteSet(T), NEW h,
         Adds(g, f, S), Adds(h, f, T)
  PROVE  \A s \in SUBSET (S \cap T) : g[s] = h[s]
<1> DEFINE N == {n \in Nat : \A s \in SUBSET (S \cap T) : Cardinality(s) = n => g[s] = h[s]}
<1>f. \A s \in SUBSET (S \cap T) : /\ IsFiniteSet(s) /\ Cardinality(s) \in Nat
                                   /\ Cardinality(s) = 0 <=> s = {}
  BY FS_Subset, FS_CardinalityType, FS_EmptySet
<1>g. \A s \in SUBSET (S \cap T) : s # {} => /\ g[s] = f[Some(s)] + g[s \ {Some(s)}]
                                              /\ h[s] = f[Some(s)] + h[s \ {Some(s)}]
  BY DEF Adds
<1>1. 0 \in N
  <2>1. g[{}] = 0 /\ h[{}] = 0
    BY DEF Adds
  <2> QED
    BY <1>f, <2>1
<1>2. ASSUME NEW n \in Nat, n \in N PROVE n + 1 \in N
  <2>1. ASSUME NEW s \in SUBSET (S \cap T), Cardinality(s) = n + 1 PROVE g[s] = h[s]
    <3>1. s # {} /\ IsFiniteSet(s)
      BY <1>f, <2>1
    <3>2. Some(s) \in s
      BY <3>1 DEF Some
    <3>3. Cardinality(s \ {Some(s)}) = Cardinality(s) - 1
      BY <3>1, <3>2, FS_RemoveElement
    <3>4. Cardinality(s \ {Some(s)}) = n
      BY <2>1, <3>3
    <3>5. g[s \ {Some(s)}] = h[s \ {Some(s)}]
      BY <1>2, <3>4
    <3> QED
      BY <1>g, <3>1, <3>5
  <2> QED
    BY <2>1
<1> HIDE DEF N
<1>3. Nat \subseteq N
  BY <1>1, <1>2, AllNumbers
<1>4. ASSUME NEW s \in SUBSET (S \cap T) PROVE g[s] = h[s]
  <2>1. Cardinality(s) \in N
    BY <1>3, <1>f
  <2> QED
    BY <2>1 DEF N
<1> QED
  BY <1>4

\* A function that has the sums of f over the subsets of S.
HasTotals(g, f, S) == Adds(g, f, S) /\ \A T \in SUBSET S : Total(f, T) = g[T]

LEMMA TotalAdds ==
  ASSUME NEW S, IsFiniteSet(S), NEW f, Numeric(f, S)
  PROVE  \E g \in [SUBSET S -> Int] : HasTotals(g, f, S)
<1>1. PICK g \in [SUBSET S -> Int] : Adds(g, f, S)
  BY AddsExists
<1>2. ASSUME NEW T \in SUBSET S PROVE Total(f, T) = g[T]
  <2>1. IsFiniteSet(T) /\ Numeric(f, T)
    BY FS_Subset DEF Numeric
  <2>2. \E h : Adds(h, f, T)
    BY <2>1, AddsExists
  <2> DEFINE h == CHOOSE h : Adds(h, f, T)
  <2>3. Adds(h, f, T)
    BY <2>2
  <2>4. Total(f, T) = h[T]
    BY TotalUnfolds
  <2> HIDE DEF h
  <2>5. T \in SUBSET (S \cap T)
    OBVIOUS
  <2> QED
    BY <1>1, <2>1, <2>3, <2>4, <2>5, AddsAgree
<1> QED
  BY <1>1, <1>2 DEF HasTotals

LEMMA TotalEmpty == ASSUME NEW f PROVE Total(f, {}) = 0
<1>1. IsFiniteSet({}) /\ Numeric(f, {})
  BY FS_EmptySet DEF Numeric
<1>2. PICK g \in [SUBSET {} -> Int] : HasTotals(g, f, {})
  BY <1>1, TotalAdds
<1> QED
  BY <1>2 DEF HasTotals, Adds

LEMMA TotalInt == ASSUME NEW S, IsFiniteSet(S), NEW f, Numeric(f, S) PROVE Total(f, S) \in Int
<1>1. PICK g \in [SUBSET S -> Int] : HasTotals(g, f, S)
  BY TotalAdds
<1> QED
  BY <1>1 DEF HasTotals

LEMMA TotalSome ==
  ASSUME NEW S, IsFiniteSet(S), NEW f, Numeric(f, S), S # {}
  PROVE  Total(f, S) = f[Some(S)] + Total(f, S \ {Some(S)})
<1>1. PICK g \in [SUBSET S -> Int] : HasTotals(g, f, S)
  BY TotalAdds
<1>2. g[S] = f[Some(S)] + g[S \ {Some(S)}]
  BY <1>1 DEF HasTotals, Adds
<1> QED
  BY <1>1, <1>2 DEF HasTotals

\* Any element may be taken first.
LEMMA TotalTakes ==
  ASSUME NEW S, IsFiniteSet(S), NEW f, Numeric(f, S), NEW x \in S
  PROVE  Total(f, S) = f[x] + Total(f, S \ {x})
<1> DEFINE N == {n \in Nat : \A T \in SUBSET S : Cardinality(T) = n =>
                   \A y \in T : Total(f, T) = f[y] + Total(f, T \ {y})}
<1>f. \A T \in SUBSET S : /\ IsFiniteSet(T) /\ Cardinality(T) \in Nat /\ Numeric(f, T)
                          /\ Total(f, T) \in Int
                          /\ Cardinality(T) = 0 <=> T = {}
                          /\ \A y \in T : Cardinality(T \ {y}) = Cardinality(T) - 1
  <2> SUFFICES ASSUME NEW T \in SUBSET S
               PROVE  /\ IsFiniteSet(T) /\ Cardinality(T) \in Nat /\ Numeric(f, T)
                      /\ Total(f, T) \in Int
                      /\ Cardinality(T) = 0 <=> T = {}
                      /\ \A y \in T : Cardinality(T \ {y}) = Cardinality(T) - 1
    OBVIOUS
  <2>1. IsFiniteSet(T) /\ Numeric(f, T)
    BY FS_Subset DEF Numeric
  <2>2. Cardinality(T) \in Nat /\ (Cardinality(T) = 0 <=> T = {})
    BY <2>1, FS_CardinalityType, FS_EmptySet
  <2>3. \A y \in T : Cardinality(T \ {y}) = Cardinality(T) - 1
    BY <2>1, FS_RemoveElement
  <2>4. Total(f, T) \in Int
    BY <2>1, TotalInt
  <2> QED
    BY <2>1, <2>2, <2>3, <2>4
<1>1. 0 \in N
  BY <1>f
<1>2. ASSUME NEW n \in Nat, n \in N PROVE n + 1 \in N
  <2>1. ASSUME NEW T \in SUBSET S, Cardinality(T) = n + 1, NEW y \in T
        PROVE  Total(f, T) = f[y] + Total(f, T \ {y})
    <3> DEFINE c == Some(T)
    <3>1. c \in T /\ Total(f, T) = f[c] + Total(f, T \ {c})
      <4>1. c \in T
        BY DEF Some
      <4> QED
        BY <4>1, <1>f, TotalSome
    <3> HIDE DEF c
    <3>2. CASE c = y
      BY <3>1, <3>2
    <3>3. CASE c # y
      <4>1. /\ T \ {c} \in SUBSET S /\ y \in T \ {c} /\ Cardinality(T \ {c}) = n
            /\ T \ {y} \in SUBSET S /\ c \in T \ {y} /\ Cardinality(T \ {y}) = n
        BY <1>f, <2>1, <3>1, <3>3
      <4>2. Total(f, T \ {c}) = f[y] + Total(f, (T \ {c}) \ {y})
        BY <1>2, <4>1
      <4>3. Total(f, T \ {y}) = f[c] + Total(f, (T \ {y}) \ {c})
        BY <1>2, <4>1
      <4>4. (T \ {c}) \ {y} = (T \ {y}) \ {c} /\ (T \ {y}) \ {c} \in SUBSET S
        OBVIOUS
      <4> DEFINE r == (T \ {y}) \ {c}
      <4>5. f[c] \in Int /\ f[y] \in Int /\ Total(f, r) \in Int
        BY <1>f, <3>1, <4>4 DEF Numeric
      <4>6. /\ Total(f, T) = f[c] + Total(f, T \ {c}) /\ Total(f, T \ {c}) = f[y] + Total(f, r)
            /\ Total(f, T \ {y}) = f[c] + Total(f, r)
        BY <3>1, <4>2, <4>3, <4>4
      <4> HIDE DEF r
      <4> QED
        BY <4>5, <4>6
    <3> QED
      BY <3>2, <3>3
  <2> QED
    BY <2>1
<1> HIDE DEF N
<1>3. Nat \subseteq N
  BY <1>1, <1>2, AllNumbers
<1>4. Cardinality(S) \in N
  BY <1>3, <1>f
<1> QED
  BY <1>4 DEF N

LEMMA TotalAdd ==
  ASSUME NEW S, IsFiniteSet(S), NEW x, x \notin S, NEW f, Numeric(f, S \cup {x})
  PROVE  Total(f, S \cup {x}) = f[x] + Total(f, S)
<1>1. IsFiniteSet(S \cup {x}) /\ x \in S \cup {x} /\ (S \cup {x}) \ {x} = S
  BY FS_AddElement
<1>2. Total(f, S \cup {x}) = f[x] + Total(f, (S \cup {x}) \ {x})
  BY <1>1, TotalTakes
<1> QED
  BY <1>1, <1>2

LEMMA TotalOfPart ==
  ASSUME NEW S, IsFiniteSet(S), NEW T \in SUBSET S, NEW f, Numeric(f, S)
  PROVE  IsFiniteSet(T) /\ Numeric(f, T) /\ Total(f, T) \in Int
<1>1. IsFiniteSet(T) /\ Numeric(f, T)
  BY FS_Subset DEF Numeric
<1> QED
  BY <1>1, TotalInt

\* What one element adds to the sum over a part.
LEMMA TotalNext ==
  ASSUME NEW S, IsFiniteSet(S), NEW T \in SUBSET S, NEW x \in S \ T, NEW f, Numeric(f, S)
  PROVE  /\ Total(f, T \cup {x}) = f[x] + Total(f, T)
         /\ f[x] \in Int /\ Total(f, T) \in Int
<1>1. /\ IsFiniteSet(T) /\ Total(f, T) \in Int
      /\ x \notin T /\ Numeric(f, T \cup {x}) /\ f[x] \in Int
  BY TotalOfPart DEF Numeric
<1>2. Total(f, T \cup {x}) = f[x] + Total(f, T)
  BY <1>1, TotalAdd
<1> QED
  BY <1>1, <1>2

LEMMA TotalSteps ==
  ASSUME NEW S, IsFiniteSet(S), NEW f, Numeric(f, S)
  PROVE  \A T \in SUBSET S : \A x \in S \ T :
           Total(f, T \cup {x}) = f[x] + Total(f, T) /\ f[x] \in Int /\ Total(f, T) \in Int
<1> TAKE T \in SUBSET S
<1> TAKE x \in S \ T
<1>1. /\ Total(f, T \cup {x}) = f[x] + Total(f, T)
      /\ f[x] \in Int /\ Total(f, T) \in Int
  BY TotalNext
<1> QED
  BY <1>1

\* Greater summands, greater sums.
LEMMA TotalGrows ==
  ASSUME NEW S, IsFiniteSet(S), NEW f, Numeric(f, S), NEW g, Numeric(g, S), \A x \in S : f[x] <= g[x]
  PROVE  Total(f, S) <= Total(g, S)
<1>f. \A T \in SUBSET S : \A x \in S \ T :
        Total(f, T \cup {x}) = f[x] + Total(f, T) /\ f[x] \in Int /\ Total(f, T) \in Int
  BY TotalSteps, Zenon
<1>g. \A T \in SUBSET S : \A x \in S \ T :
        Total(g, T \cup {x}) = g[x] + Total(g, T) /\ g[x] \in Int /\ Total(g, T) \in Int
  BY TotalSteps, Zenon
<1> DEFINE P == {T \in SUBSET S : Total(f, T) <= Total(g, T)}
<1>1. {} \in P
  BY TotalEmpty
<1>2. ASSUME NEW T \in SUBSET S, NEW x \in S \ T, T \in P PROVE T \cup {x} \in P
  <2>1. Total(f, T \cup {x}) = f[x] + Total(f, T) /\ f[x] \in Int /\ Total(f, T) \in Int
    BY <1>f, Zenon
  <2>2. Total(g, T \cup {x}) = g[x] + Total(g, T) /\ g[x] \in Int /\ Total(g, T) \in Int
    BY <1>g, Zenon
  <2>3. Total(f, T) <= Total(g, T) /\ f[x] <= g[x] /\ T \cup {x} \in SUBSET S
    BY <1>2
  <2>4. f[x] + Total(f, T) <= g[x] + Total(g, T)
    BY <2>1, <2>2, <2>3
  <2> QED
    BY <2>1, <2>2, <2>3, <2>4
<1> HIDE DEF P
<1>3. S \in P
  BY <1>1, <1>2, AllFiniteSets
<1> QED
  BY <1>3 DEF P

LEMMA TotalSame ==
  ASSUME NEW S, IsFiniteSet(S), NEW f, Numeric(f, S), NEW g, \A x \in S : f[x] = g[x]
  PROVE  Total(f, S) = Total(g, S)
<1>1. Numeric(g, S) /\ \A x \in S : f[x] <= g[x] /\ g[x] <= f[x]
  BY DEF Numeric
<1>2. Total(f, S) <= Total(g, S) /\ Total(g, S) <= Total(f, S)
  BY <1>1, TotalGrows
<1>3. Total(f, S) \in Int /\ Total(g, S) \in Int
  BY <1>1, TotalInt
<1> QED
  BY <1>2, <1>3

\* One summand changes.
LEMMA TotalChange ==
  ASSUME NEW S, IsFiniteSet(S), NEW f, Numeric(f, S), NEW g, Numeric(g, S), NEW x \in S,
         \A y \in S : y # x => g[y] = f[y]
  PROVE  Total(g, S) = Total(f, S) + (g[x] - f[x])
<1>1. Total(f, S) = f[x] + Total(f, S \ {x}) /\ Total(g, S) = g[x] + Total(g, S \ {x})
  BY TotalTakes
<1>2. /\ IsFiniteSet(S \ {x}) /\ Numeric(f, S \ {x})
      /\ Total(f, S \ {x}) \in Int /\ f[x] \in Int /\ g[x] \in Int
  BY TotalOfPart DEF Numeric
<1>3. Total(f, S \ {x}) = Total(g, S \ {x})
  BY <1>2, TotalSame
<1> QED
  BY <1>1, <1>2, <1>3

LEMMA TotalNatural ==
  ASSUME NEW S, IsFiniteSet(S), NEW f, \A x \in S : f[x] \in Nat
  PROVE  Total(f, S) \in Nat
<1>n. Numeric(f, S)
  BY DEF Numeric
<1>f. \A T \in SUBSET S : \A x \in S \ T : Total(f, T \cup {x}) = f[x] + Total(f, T)
  BY <1>n, TotalNext
<1> DEFINE P == {T \in SUBSET S : Total(f, T) \in Nat}
<1>1. {} \in P
  BY TotalEmpty
<1>2. ASSUME NEW T \in SUBSET S, NEW x \in S \ T, T \in P PROVE T \cup {x} \in P
  <2>1. Total(f, T \cup {x}) = f[x] + Total(f, T)
    BY <1>f, Zenon
  <2>2. f[x] \in Nat /\ Total(f, T) \in Nat
    BY <1>2
  <2>3. Total(f, T \cup {x}) \in Nat
    BY <2>1, <2>2
  <2> QED
    BY <2>3
<1> HIDE DEF P
<1>3. S \in P
  BY <1>1, <1>2, AllFiniteSets
<1> QED
  BY <1>3 DEF P

LEMMA TotalNat ==
  ASSUME NEW S, IsFiniteSet(S), NEW f, \A x \in S : f[x] \in Nat
  PROVE  Numeric(f, S) /\ Total(f, S) \in Nat /\ \A x \in S : f[x] <= Total(f, S)
<1>n. Numeric(f, S)
  BY DEF Numeric
<1>1. Total(f, S) \in Nat
  BY TotalNatural
<1>2. ASSUME NEW x \in S PROVE f[x] <= Total(f, S)
  <2>1. Total(f, S) = f[x] + Total(f, S \ {x})
    BY <1>n, TotalTakes, Zenon
  <2>2. Total(f, S \ {x}) \in Nat
    BY FS_Subset, TotalNatural
  <2>3. f[x] \in Nat
    OBVIOUS
  <2> QED
    BY <2>1, <2>2, <2>3
<1> QED
  BY <1>n, <1>1, <1>2

\* A sum over a set is the sums over a part and the rest of it.
LEMMA TotalParts ==
  ASSUME NEW S, IsFiniteSet(S), NEW f, Numeric(f, S), NEW T \in SUBSET S
  PROVE  Total(f, S) = Total(f, T) + Total(f, S \ T)
<1> DEFINE R == S \ T
           P == {U \in SUBSET R : Total(f, T \cup U) = Total(f, T) + Total(f, U)}
<1>t. R \in SUBSET S /\ IsFiniteSet(R) /\ Numeric(f, R) /\ Total(f, T) \in Int
  BY TotalOfPart
<1>1. {} \in P
  <2>1. T \cup {} = T
    OBVIOUS
  <2> QED
    BY <1>t, <2>1, TotalEmpty
<1>2. ASSUME NEW U \in SUBSET R, NEW x \in R \ U, U \in P PROVE U \cup {x} \in P
  <2>1. Total(f, U \cup {x}) = f[x] + Total(f, U) /\ f[x] \in Int /\ Total(f, U) \in Int
    BY <1>t, TotalNext
  <2>2. /\ T \cup U \in SUBSET S /\ x \in S \ (T \cup U)
        /\ T \cup (U \cup {x}) = (T \cup U) \cup {x}
    OBVIOUS
  <2>3. \A V : V \in SUBSET S /\ x \in S \ V => Total(f, V \cup {x}) = f[x] + Total(f, V)
    BY TotalNext, Zenon
  <2>4. Total(f, T \cup U) = Total(f, T) + Total(f, U)
    BY <1>2
  <2>5. Total(f, (T \cup U) \cup {x}) = f[x] + Total(f, T \cup U)
    BY <2>2, <2>3, Zenon
  <2>6. Total(f, (T \cup U) \cup {x}) = Total(f, T) + Total(f, U \cup {x})
    <3>1. f[x] + (Total(f, T) + Total(f, U)) = Total(f, T) + (f[x] + Total(f, U))
      BY <1>t, <2>1
    <3> QED
      BY <2>1, <2>4, <2>5, <3>1
  <2>7. Total(f, T \cup (U \cup {x})) = Total(f, T) + Total(f, U \cup {x})
    BY <2>2, <2>6, Zenon
  <2> QED
    BY <2>7
<1> HIDE DEF P
<1>3. R \in P
  BY <1>t, <1>1, <1>2, AllFiniteSets
<1>4. T \cup R = S
  OBVIOUS
<1> QED
  BY <1>3, <1>4 DEF P

LEMMA TotalZero ==
  ASSUME NEW S, IsFiniteSet(S), NEW f, \A x \in S : f[x] = 0
  PROVE  Total(f, S) = 0
<1> DEFINE P == {T \in SUBSET S : Total(f, T) = 0}
<1>n. Numeric(f, S)
  BY DEF Numeric
<1>1. {} \in P
  BY TotalEmpty
<1>2. ASSUME NEW T \in SUBSET S, NEW x \in S \ T, T \in P PROVE T \cup {x} \in P
  <2>1. Total(f, T \cup {x}) = f[x] + Total(f, T) /\ f[x] = 0 /\ Total(f, T) = 0
    BY <1>n, <1>2, TotalNext
  <2> QED
    BY <2>1
<1> HIDE DEF P
<1>3. S \in P
  BY <1>1, <1>2, AllFiniteSets
<1> QED
  BY <1>3 DEF P

\* A sum over a part is one over the whole set, with 0 elsewhere.
LEMMA TotalWhere ==
  ASSUME NEW S, IsFiniteSet(S), NEW T \in SUBSET S, NEW f, Numeric(f, T),
         NEW g, \A x \in S : g[x] = IF x \in T THEN f[x] ELSE 0
  PROVE  Numeric(g, S) /\ Total(f, T) = Total(g, S)
<1>1. Numeric(g, S)
  BY DEF Numeric
<1>2. IsFiniteSet(T) /\ IsFiniteSet(S \ T)
  BY FS_Subset
<1>3. Total(g, S) = Total(g, T) + Total(g, S \ T)
  BY <1>1, TotalParts
<1>4. Total(g, S \ T) = 0
  BY <1>2, TotalZero
<1>5. Total(f, T) = Total(g, T) /\ Total(f, T) \in Int
  BY <1>2, TotalSame, TotalInt
<1> QED
  BY <1>1, <1>3, <1>4, <1>5

\* A part of natural numbers adds up to no more than all.
LEMMA TotalLess ==
  ASSUME NEW S, IsFiniteSet(S), NEW f, \A x \in S : f[x] \in Nat, NEW T \in SUBSET S
  PROVE  /\ Total(f, T) <= Total(f, S) /\ Total(f, T) \in Nat /\ Total(f, S) \in Nat
         /\ (\A x \in S \ T : f[x] = 0) => Total(f, T) = Total(f, S)
<1>1. Numeric(f, S) /\ Total(f, S) \in Nat
  BY TotalNat
<1>2. IsFiniteSet(T) /\ IsFiniteSet(S \ T)
  BY FS_Subset
<1>3. Total(f, T) \in Nat /\ Total(f, S \ T) \in Nat
  BY <1>2, TotalNatural
<1>4. Total(f, S) = Total(f, T) + Total(f, S \ T)
  BY <1>1, TotalParts
<1>5. (\A x \in S \ T : f[x] = 0) => Total(f, S \ T) = 0
  BY <1>2, TotalZero
<1> QED
  BY <1>1, <1>3, <1>4, <1>5

LEMMA FiniteImage ==
  ASSUME NEW S, IsFiniteSet(S), NEW r
  PROVE  IsFiniteSet({r[x] : x \in S})
<1> DEFINE Img(T) == {r[x] : x \in T}
           P == {T \in SUBSET S : IsFiniteSet(Img(T))}
<1>1. {} \in P
  <2>1. Img({}) = {}
    OBVIOUS
  <2> QED
    BY <2>1, FS_EmptySet
<1>2. ASSUME NEW T \in SUBSET S, NEW x \in S \ T, T \in P PROVE T \cup {x} \in P
  <2>1. Img(T \cup {x}) = Img(T) \cup {r[x]}
    OBVIOUS
  <2>2. IsFiniteSet(Img(T))
    BY <1>2
  <2> HIDE DEF Img
  <2>3. IsFiniteSet(Img(T) \cup {r[x]})
    BY <2>2, FS_AddElement
  <2>4. IsFiniteSet(Img(T \cup {x})) /\ T \cup {x} \in SUBSET S
    BY <2>1, <2>3
  <2> QED
    BY <2>4
<1> HIDE DEF P
<1>3. S \in P
  BY <1>1, <1>2, AllFiniteSets
<1> QED
  BY <1>3 DEF P

\* r gives every element of S a name of its own, U being the names, and g is f by names.
Renames(r, S, U) ==
  /\ \A x, y \in S : r[x] = r[y] => x = y
  /\ \A x \in S : r[x] \in U
  /\ \A y \in U : \E x \in S : y = r[x]
Renamed(g, f, r, S) == \A x \in S : g[x] = f[r[x]]

\* Adding up under other names.
LEMMA TotalImage ==
  ASSUME NEW S, IsFiniteSet(S), NEW r, NEW U, Renames(r, S, U),
         NEW f, Numeric(f, U), NEW g, Renamed(g, f, r, S)
  PROVE  IsFiniteSet(U) /\ Total(g, S) = Total(f, U)
<1> DEFINE Img(T) == {r[x] : x \in T}
           P == {T \in SUBSET S : Total(g, T) = Total(f, Img(T))}
<1>u. Img(S) = U
  BY DEF Renames
<1>n. Numeric(g, S) /\ Numeric(f, Img(S)) /\ IsFiniteSet(Img(S))
  BY <1>u, FiniteImage DEF Numeric, Renames, Renamed
<1>s. \A T \in SUBSET S : \A x \in S \ T :
        Total(g, T \cup {x}) = g[x] + Total(g, T) /\ g[x] \in Int /\ Total(g, T) \in Int
  BY <1>n, TotalSteps, Zenon
<1>t. \A T \in SUBSET Img(S) : \A x \in Img(S) \ T :
        Total(f, T \cup {x}) = f[x] + Total(f, T) /\ f[x] \in Int /\ Total(f, T) \in Int
  <2> HIDE DEF Img
  <2> QED
    BY <1>n, TotalSteps, Zenon
<1>1. {} \in P
  <2>1. Img({}) = {}
    OBVIOUS
  <2> QED
    BY <2>1, TotalEmpty
<1>2. ASSUME NEW T \in SUBSET S, NEW x \in S \ T, T \in P PROVE T \cup {x} \in P
  <2>1. /\ Img(T \cup {x}) = Img(T) \cup {r[x]} /\ Img(T) \in SUBSET Img(S)
        /\ r[x] \in Img(S) \ Img(T)
    BY DEF Renames
  <2>2. Total(g, T) = Total(f, Img(T)) /\ g[x] = f[r[x]] /\ T \cup {x} \in SUBSET S
    BY <1>2 DEF Renamed
  <2> HIDE DEF Img, P
  <2>3. Total(g, T \cup {x}) = g[x] + Total(g, T)
    BY <1>s, Zenon
  <2>4. Total(f, Img(T) \cup {r[x]}) = f[r[x]] + Total(f, Img(T))
    BY <1>t, <2>1, Zenon
  <2>5. Total(g, T \cup {x}) = Total(f, Img(T \cup {x}))
    BY <2>1, <2>2, <2>3, <2>4, Zenon
  <2> QED
    BY <2>2, <2>5 DEF P
<1> HIDE DEF P
<1>3. S \in P
  BY <1>1, <1>2, AllFiniteSets
<1>4. Total(g, S) = Total(f, Img(S))
  BY <1>3 DEF P
<1> HIDE DEF Img
<1> QED
  BY <1>n, <1>u, <1>4

\* Adding up class by class.
LEMMA TotalGroups ==
  ASSUME NEW S, IsFiniteSet(S), NEW f, Numeric(f, S), NEW h, NEW K, IsFiniteSet(K),
         \A x \in S : h[x] \in K, NEW of,
         \A k \in K : of[k] \in SUBSET S /\ \A x \in S : x \in of[k] <=> h[x] = k,
         NEW g, \A k \in K : g[k] = Total(f, of[k])
  PROVE  Numeric(g, K) /\ Total(g, K) = Total(f, S)
<1> DEFINE In(L) == {x \in S : h[x] \in L}
           Of(k) == of[k]
           P == {L \in SUBSET K : Total(g, L) = Total(f, In(L))}
<1>n. Numeric(g, K)
  <2>1. ASSUME NEW k \in K PROVE g[k] \in Int
    <3>1. Of(k) \in SUBSET S /\ g[k] = Total(f, Of(k))
      OBVIOUS
    <3> HIDE DEF Of
    <3> QED
      BY <3>1, TotalOfPart
  <2> QED
    BY <2>1 DEF Numeric
<1>s. \A L \in SUBSET K : \A x \in K \ L :
        Total(g, L \cup {x}) = g[x] + Total(g, L) /\ g[x] \in Int /\ Total(g, L) \in Int
  BY <1>n, TotalSteps, Zenon
<1>1. {} \in P
  <2>1. In({}) = {}
    OBVIOUS
  <2> QED
    BY <2>1, TotalEmpty
<1>2. ASSUME NEW L \in SUBSET K, NEW k \in K \ L, L \in P PROVE L \cup {k} \in P
  <2> DEFINE B == In(L \cup {k})
  <2>1. /\ B \in SUBSET S /\ Of(k) \in SUBSET B /\ In(L) = B \ Of(k) /\ g[k] = Total(f, Of(k))
    OBVIOUS
  <2>2. Total(g, L) = Total(f, In(L)) /\ L \cup {k} \in SUBSET K
    BY <1>2
  <2> HIDE DEF P, Of, In, B
  <2>3. IsFiniteSet(B) /\ Numeric(f, B)
    BY <2>1, TotalOfPart
  <2>4. Total(f, B) = Total(f, Of(k)) + Total(f, B \ Of(k))
    BY <2>1, <2>3, TotalParts
  <2>5. Total(g, L \cup {k}) = g[k] + Total(g, L)
    BY <1>s, Zenon
  <2>6. Total(g, L \cup {k}) = Total(f, B)
    BY <2>1, <2>2, <2>4, <2>5, Zenon
  <2> QED
    BY <2>2, <2>6 DEF P, B
<1> HIDE DEF P
<1>3. K \in P
  BY <1>1, <1>2, AllFiniteSets
<1>4. Total(g, K) = Total(f, In(K))
  BY <1>3 DEF P
<1>5. In(K) = S
  OBVIOUS
<1> QED
  BY <1>n, <1>4, <1>5

LEMMA TotalPlus ==
  ASSUME NEW S, IsFiniteSet(S), NEW f, Numeric(f, S), NEW g, Numeric(g, S),
         NEW h, \A x \in S : h[x] = f[x] + g[x]
  PROVE  Total(h, S) = Total(f, S) + Total(g, S)
<1> DEFINE P == {T \in SUBSET S : Total(h, T) = Total(f, T) + Total(g, T)}
<1>n. Numeric(h, S)
  BY DEF Numeric
<1>f. \A T \in SUBSET S : \A x \in S \ T :
        Total(f, T \cup {x}) = f[x] + Total(f, T) /\ f[x] \in Int /\ Total(f, T) \in Int
  BY TotalSteps, Zenon
<1>g. \A T \in SUBSET S : \A x \in S \ T :
        Total(g, T \cup {x}) = g[x] + Total(g, T) /\ g[x] \in Int /\ Total(g, T) \in Int
  BY TotalSteps, Zenon
<1>h. \A T \in SUBSET S : \A x \in S \ T :
        Total(h, T \cup {x}) = h[x] + Total(h, T) /\ h[x] \in Int /\ Total(h, T) \in Int
  BY <1>n, TotalSteps, Zenon
<1>1. {} \in P
  BY TotalEmpty
<1>2. ASSUME NEW T \in SUBSET S, NEW x \in S \ T, T \in P PROVE T \cup {x} \in P
  <2>1. Total(f, T \cup {x}) = f[x] + Total(f, T) /\ f[x] \in Int /\ Total(f, T) \in Int
    BY <1>f, Zenon
  <2>2. Total(g, T \cup {x}) = g[x] + Total(g, T) /\ g[x] \in Int /\ Total(g, T) \in Int
    BY <1>g, Zenon
  <2>3. Total(h, T \cup {x}) = h[x] + Total(h, T) /\ h[x] = f[x] + g[x]
    BY <1>h
  <2>4. Total(h, T) = Total(f, T) + Total(g, T) /\ T \cup {x} \in SUBSET S
    BY <1>2
  <2>5. Total(h, T \cup {x}) = Total(f, T \cup {x}) + Total(g, T \cup {x})
    BY <2>1, <2>2, <2>3, <2>4
  <2> QED
    BY <2>4, <2>5
<1> HIDE DEF P
<1>3. S \in P
  BY <1>1, <1>2, AllFiniteSets
<1> QED
  BY <1>3 DEF P

-----------------------------------------------------------------------------
(* Whole multiples. *)

LEMMA DivRest ==
  ASSUME NEW a \in Nat, NEW w \in Nat, w > 0
  PROVE  a \div w \in Nat /\ a % w \in 0..(w - 1) /\ a = w * (a \div w) + (a % w)
OBVIOUS

LEMMA MultiplesGrow ==
  ASSUME NEW p \in Nat, NEW q \in Nat, NEW w \in Nat, q <= p
  PROVE  w * q <= w * p /\ w * q \in Nat /\ w * (p + 1) = w * p + w
OBVIOUS

\* A multiple of w is on the same side of a number and of the multiple below it.
LEMMA MultiplesBelow ==
  ASSUME NEW m \in Nat, NEW s \in Nat, NEW w \in Nat, w > 0, s % w = 0
  PROVE  /\ m - (m % w) \in Nat
         /\ m - (m % w) <= m
         /\ s <= m - (m % w) <=> s <= m
         /\ m - (m % w) < s <=> m < s
<1> DEFINE p == m \div w
           q == s \div w
           r == m % w
           x == w * p
           y == w * q
<1>1. p \in Nat /\ r \in 0..(w - 1) /\ m = w * p + r /\ q \in Nat /\ s = w * q + 0
  BY DivRest
<1>2. q <= p => w * q <= w * p
  BY <1>1, MultiplesGrow
<1>3. p + 1 <= q => w * p + w <= w * q
  BY <1>1, MultiplesGrow
<1>4. w * p \in Nat /\ w * q \in Nat
  BY <1>1
<1>5. q <= p \/ p + 1 <= q
  BY <1>1
<1>6. /\ x \in Nat /\ y \in Nat /\ m = x + r /\ s = y /\ r \in 0..(w - 1)
      /\ y <= x \/ x + w <= y
  BY <1>1, <1>2, <1>3, <1>4, <1>5
<1>7. m - r \in Nat /\ m - r <= m /\ (s <= m - r <=> s <= m) /\ (m - r < s <=> m < s)
  <2> HIDE DEF x, y, r, p, q
  <2> QED
    BY <1>6
<1> QED
  BY <1>7

-----------------------------------------------------------------------------
(* Walks: from p, the n-th step by f[n]. *)

Walk(h, S, f, p, k) == h \in [0..k -> S] /\ h[0] = p /\ \A n \in 1..k : h[n] = f[n][h[n - 1]]

LEMMA WalkExists ==
  ASSUME NEW S, NEW p \in S, NEW k \in Nat, NEW f \in [1..k -> [S -> S]]
  PROVE  \E h : Walk(h, S, f, p, k)
<1> DEFINE T == {n \in Nat : n > k \/ \E h : Walk(h, S, f, p, n)}
<1>1. 0 \in T
  <2> DEFINE h == [n \in 0..0 |-> p]
  <2>1. Walk(h, S, f, p, 0)
    BY DEF Walk
  <2> QED
    BY <2>1
<1>2. ASSUME NEW n \in Nat, n \in T PROVE n + 1 \in T
  <2>1. CASE n + 1 > k
    BY <2>1
  <2>2. CASE n + 1 <= k
    <3>1. PICK h : Walk(h, S, f, p, n)
      BY <1>2, <2>2
    <3> DEFINE g == [i \in 0..(n + 1) |-> IF i = n + 1 THEN f[n + 1][h[n]] ELSE h[i]]
    <3>2. /\ h \in [0..n -> S] /\ h[0] = p /\ \A i \in 1..n : h[i] = f[i][h[i - 1]]
          /\ f[n + 1] \in [S -> S]
      BY <2>2, <3>1 DEF Walk
    <3>3. f[n + 1][h[n]] \in S
      BY <3>2
    <3>4. g \in [0..(n + 1) -> S] /\ g[n + 1] = f[n + 1][h[n]] /\ \A i \in 0..n : g[i] = h[i]
      BY <3>2, <3>3
    <3> HIDE DEF g
    <3>5. \A i \in 1..(n + 1) : g[i] = f[i][g[i - 1]]
      <4> SUFFICES ASSUME NEW i \in 1..(n + 1) PROVE g[i] = f[i][g[i - 1]]
        OBVIOUS
      <4>1. i - 1 \in 0..n /\ g[i - 1] = h[i - 1]
        BY <3>4
      <4>2. CASE i = n + 1
        BY <3>4, <4>1, <4>2
      <4>3. CASE i # n + 1
        BY <3>2, <3>4, <4>1, <4>3
      <4> QED
        BY <4>2, <4>3
    <3>6. g[0] = p
      BY <3>2, <3>4
    <3> QED
      BY <3>4, <3>5, <3>6 DEF Walk
  <2> QED
    BY <2>1, <2>2
<1> HIDE DEF T
<1>3. k \in T
  BY <1>1, <1>2, AllNumbers
<1> QED
  BY <1>3 DEF T

\* The first n steps of two walks are the same.
SameSteps(f, g, n) == \A i \in 1..n : g[i] = f[i]

\* Two walks with the same steps go the same way.
LEMMA WalkOnly ==
  ASSUME NEW S, NEW p \in S, NEW k \in Nat, NEW f, NEW g, NEW n \in 0..k,
         NEW h, Walk(h, S, f, p, k), NEW j, Walk(j, S, g, p, n), SameSteps(f, g, n)
  PROVE  \A i \in 0..n : j[i] = h[i]
<1> DEFINE T == {i \in Nat : i > n \/ j[i] = h[i]}
<1>1. 0 \in T
  BY DEF Walk
<1>2. ASSUME NEW i \in Nat, i \in T PROVE i + 1 \in T
  <2>1. CASE i + 1 > n
    BY <2>1
  <2>2. CASE i + 1 <= n
    <3>1. /\ i + 1 \in 1..n /\ i + 1 \in 1..k /\ (i + 1) - 1 = i /\ j[i] = h[i]
      BY <1>2, <2>2
    <3>2. j[i + 1] = g[i + 1][j[i]] /\ h[i + 1] = f[i + 1][h[i]]
      BY <3>1 DEF Walk, SameSteps
    <3> QED
      BY <3>1, <3>2 DEF SameSteps
  <2> QED
    BY <2>1, <2>2
<1> HIDE DEF T
<1>3. Nat \subseteq T
  BY <1>1, <1>2, AllNumbers
<1> QED
  BY <1>3 DEF T

=============================================================================
