--------------------------- MODULE InductionFacts ---------------------------
(***************************************************************************)
(* Induction, and the folds, sums, extrema, arrangements and flattened     *)
(* sequences that need it.  The theorems of the library take a predicate   *)
(* as a parameter; those here speak of a set instead, the set of the       *)
(* numbers or subsets that have the property, and of folds whose step is   *)
(* given as a function.                                                    *)
(***************************************************************************)
EXTENDS Naturals, FiniteSets, FiniteSetsExt, SequencesExt, FiniteSetTheorems,
        SequenceTheorems, TLAPS

(* A non-empty set of numbers has a least element.                         *)
LEMMA LeastNumber ==
  ASSUME NEW S \in SUBSET Nat, S # {}
  PROVE  \E n \in S : \A m \in S : n <= m
  <1> DEFINE R == {ss \in Nat \X Nat : ss[1] < ss[2]}
  <1>1. IsWellFoundedOn(R, Nat)
    BY NatLessThanWellFounded DEF OpToRel
  <1>2. \A x, y \in Nat : <<y, x>> \in R <=> y < x
    OBVIOUS
  <1> HIDE DEF R
  <1>3. \E x \in S : \A y \in S : ~ (<<y, x>> \in R)
    BY <1>1, WFMin
  <1>4. PICK x \in S : \A y \in S : ~ (<<y, x>> \in R)
    BY <1>3
  <1>5. ASSUME NEW y \in S PROVE x <= y
    <2>1. x \in Nat /\ y \in Nat
      OBVIOUS
    <2>2. ~ (y < x)
      BY <1>2, <1>4, <2>1
    <2>3. QED
      BY <2>1, <2>2
  <1>6. QED
    BY <1>5

(* A set that has 0, and with a number the next, has all of them.          *)
LEMMA NumberInduction ==
  ASSUME NEW S, 0 \in S, \A n \in Nat : n \in S => n + 1 \in S
  PROVE  Nat \subseteq S
  <1> SUFFICES ASSUME Nat \ S # {} PROVE FALSE
    OBVIOUS
  <1>1. PICK n \in Nat \ S : \A m \in Nat \ S : n <= m
    BY LeastNumber
  <1>2. n # 0 /\ n - 1 \in Nat /\ n - 1 < n
    BY <1>1
  <1>3. n - 1 \in S
    BY <1>1, <1>2
  <1>4. QED
    BY <1>2, <1>3

(* A family of subsets of a finite set that has the empty one, and with a  *)
(* subset each that has one element more, has all of them.                 *)
LEMMA SubsetInduction ==
  ASSUME NEW S, IsFiniteSet(S), NEW Q, {} \in Q,
         \A T \in SUBSET S, x \in S : T \in Q /\ x \notin T => T \cup {x} \in Q
  PROVE  SUBSET S \subseteq Q
  <1> DEFINE N == {n \in Nat : \A T \in SUBSET S : Cardinality(T) = n => T \in Q}
  <1>1. \A T \in SUBSET S : IsFiniteSet(T) /\ Cardinality(T) \in Nat
    BY FS_Subset, FS_CardinalityType
  <1>2. 0 \in N
    BY <1>1, FS_EmptySet
  <1>3. ASSUME NEW n \in Nat, n \in N PROVE n + 1 \in N
    <2> SUFFICES ASSUME NEW T \in SUBSET S, Cardinality(T) = n + 1 PROVE T \in Q
      OBVIOUS
    <2>1. T # {}
      BY <1>1, FS_EmptySet
    <2>2. PICK x \in T : TRUE
      BY <2>1
    <2>3. Cardinality(T \ {x}) = n
      <3>1. IsFiniteSet(T)
        BY <1>1
      <3>2. Cardinality(T \ {x}) = Cardinality(T) - 1
        BY <2>2, <3>1, FS_RemoveElement
      <3>3. QED
        BY <3>2
    <2>4. T \ {x} \in SUBSET S /\ T \ {x} \in Q /\ x \in S /\ x \notin T \ {x}
      BY <1>3, <2>2, <2>3
    <2>5. (T \ {x}) \cup {x} = T
      BY <2>2
    <2>6. (T \ {x}) \cup {x} \in Q
      BY <2>4
    <2>7. QED
      BY <2>5, <2>6
  <1>4. Nat \subseteq N
    <2> HIDE DEF N
    <2>1. QED
      BY <1>2, <1>3, NumberInduction
  <1>5. QED
    BY <1>1, <1>4

-----------------------------------------------------------------------------
(* Least and greatest elements.                                            *)

(* The least number of a set is Min.                                       *)
LEMMA MinIsLeast ==
  ASSUME NEW S \in SUBSET Nat, S # {}
  PROVE  Min(S) \in S /\ \A m \in S : Min(S) <= m
  BY LeastNumber DEF Min

(* A non-empty finite set of numbers has a greatest element.               *)
LEMMA GreatestNumber ==
  ASSUME NEW S \in SUBSET Nat, S # {}, IsFiniteSet(S)
  PROVE  \E n \in S : \A m \in S : m <= n
  <1> DEFINE Q == {T \in SUBSET S : T # {} => \E n \in T : \A m \in T : m <= n}
  <1>1. {} \in Q
    OBVIOUS
  <1>2. ASSUME NEW T \in SUBSET S, NEW x \in S, T \in Q, x \notin T PROVE T \cup {x} \in Q
    <2>1. CASE T = {}
      <3>1. T \cup {x} = {x} /\ x <= x
        BY <2>1
      <3>2. QED
        BY <3>1
    <2>2. CASE T # {}
      <3>1. PICK n \in T : \A m \in T : m <= n
        BY <1>2, <2>2
      <3>2. CASE x <= n
        BY <3>1, <3>2
      <3>3. CASE n <= x
        BY <3>1, <3>3
      <3>4. QED
        BY <3>2, <3>3
    <2>3. QED
      BY <2>1, <2>2
  <1>3. SUBSET S \subseteq Q
    <2> HIDE DEF Q
    <2>1. QED
      BY <1>1, <1>2, SubsetInduction
  <1>4. QED
    BY <1>3

(* It is Max.                                                              *)
LEMMA MaxIsGreatest ==
  ASSUME NEW S \in SUBSET Nat, S # {}, IsFiniteSet(S)
  PROVE  Max(S) \in S /\ \A m \in S : m <= Max(S)
  BY GreatestNumber DEF Max

(* An element that is least is Min.                                        *)
LEMMA MinIs ==
  ASSUME NEW S \in SUBSET Nat, NEW x \in S, \A m \in S : x <= m
  PROVE  Min(S) = x
  <1>1. /\ Min(S) \in S /\ Min(S) <= x /\ x <= Min(S)
        /\ x \in Nat /\ Min(S) \in Nat
    BY MinIsLeast
  <1>2. QED
    BY <1>1

(* The same for the greatest.                                              *)
LEMMA MaxIs ==
  ASSUME NEW S \in SUBSET Nat, NEW x \in S, \A m \in S : m <= x
  PROVE  Max(S) = x
  <1>1. \A m \in S : x >= m
    OBVIOUS
  <1>2. Max(S) \in S /\ \A m \in S : Max(S) >= m
    BY <1>1 DEF Max
  <1>3. x \in Nat /\ Max(S) \in Nat /\ Max(S) >= x /\ x >= Max(S)
    BY <1>1, <1>2
  <1>4. QED
    BY <1>3

-----------------------------------------------------------------------------
(* Sizes.                                                                  *)

(* An injective function keeps the size of a finite set.                   *)
LEMMA ImageCounts ==
  ASSUME NEW S, IsFiniteSet(S), NEW f, DOMAIN f = S, f = [x \in S |-> f[x]],
         \A x, y \in S : f[x] = f[y] => x = y
  PROVE  LET T == {f[x] : x \in S} IN IsFiniteSet(T) /\ Cardinality(T) = Cardinality(S)
  <1> DEFINE T == {f[x] : x \in S}
  <1>1. f \in Bijection(S, T)
    BY DEF Bijection, Injection, Surjection, IsInjective
  <1>2. ExistsBijection(S, T)
    BY <1>1 DEF ExistsBijection
  <1>3. QED
    BY <1>2, FS_Bijection

(* What maps into a finite set, no two elements to the same, is no larger. *)
LEMMA InjectionBound ==
  ASSUME NEW S, NEW T, IsFiniteSet(T), NEW f \in [S -> T],
         \A x, y \in S : f[x] = f[y] => x = y
  PROVE  IsFiniteSet(S) /\ Cardinality(S) <= Cardinality(T)
  <1>1. f \in Injection(S, T)
    BY DEF Injection, IsInjective
  <1>2. QED
    BY <1>1, FS_Injection
-----------------------------------------------------------------------------
(* Folds.  c chooses the element of a set that is taken first.             *)

Folds(it, S, base, F, c) ==
    \A s \in SUBSET S : it[s] = IF s = {} THEN base ELSE F[<<c[s], it[s \ {c[s]}]>>]

Chooses(c, S) == \A s \in SUBSET S : s # {} => c[s] \in s

(* A family that has the empty set, and a set when it has what is left of  *)
(* it without the element taken first, has all subsets.                    *)
LEMMA ChoiceInduction ==
  ASSUME NEW S, IsFiniteSet(S), NEW c, Chooses(c, S), NEW Q, {} \in Q,
         \A s \in SUBSET S : s # {} /\ s \ {c[s]} \in Q => s \in Q
  PROVE  SUBSET S \subseteq Q
  <1> DEFINE N == {n \in Nat : \A s \in SUBSET S : Cardinality(s) = n => s \in Q}
  <1>1. \A s \in SUBSET S : IsFiniteSet(s) /\ Cardinality(s) \in Nat
    BY FS_Subset, FS_CardinalityType
  <1>2. 0 \in N
    BY <1>1, FS_EmptySet
  <1>3. ASSUME NEW n \in Nat, n \in N PROVE n + 1 \in N
    <2> SUFFICES ASSUME NEW s \in SUBSET S, Cardinality(s) = n + 1 PROVE s \in Q
      OBVIOUS
    <2>1. s # {}
      BY <1>1, FS_EmptySet
    <2>2. IsFiniteSet(s) /\ c[s] \in s
      BY <1>1, <2>1 DEF Chooses
    <2>3. Cardinality(s \ {c[s]}) = Cardinality(s) - 1
      BY <2>2, FS_RemoveElement
    <2>4. s \ {c[s]} \in SUBSET S /\ s \ {c[s]} \in Q
      BY <1>3, <2>3
    <2>5. QED
      BY <2>1, <2>4
  <1>4. Nat \subseteq N
    <2> HIDE DEF N
    <2>1. QED
      BY <1>2, <1>3, NumberInduction
  <1>5. QED
    BY <1>1, <1>4

(* A fold over a finite set is defined, and stays in D when its step does. *)
LEMMA FoldExists ==
  ASSUME NEW S, IsFiniteSet(S), NEW D, NEW base \in D, NEW F \in [S \X D -> D],
         NEW c, Chooses(c, S)
  PROVE  \E it \in [SUBSET S -> D] : Folds(it, S, base, F, c)
  <1> DEFINE Level(n) == {s \in SUBSET S : Cardinality(s) <= n}
             Good(n, it) == \A s \in Level(n) :
                 it[s] = IF s = {} THEN base ELSE F[<<c[s], it[s \ {c[s]}]>>]
             N == {n \in Nat : \E it \in [Level(n) -> D] : Good(n, it)}
  <1>1. \A s \in SUBSET S : IsFiniteSet(s) /\ Cardinality(s) \in Nat
    BY FS_Subset, FS_CardinalityType
  <1>2. \A s \in SUBSET S : s # {} => Cardinality(s \ {c[s]}) = Cardinality(s) - 1
    BY <1>1, FS_RemoveElement DEF Chooses
  <1>3. {} \in SUBSET S /\ Cardinality({}) = 0
    BY FS_EmptySet
  <1>4. 0 \in N
    <2> DEFINE it == [s \in Level(0) |-> base]
    <2>1. \A s \in Level(0) : s = {}
      BY <1>1, FS_EmptySet
    <2>2. it \in [Level(0) -> D] /\ Good(0, it)
      BY <2>1
    <2> HIDE DEF Good, Level
    <2>3. QED
      BY <2>2
  <1>5. ASSUME NEW n \in Nat, n \in N PROVE n + 1 \in N
    <2>1. PICK it \in [Level(n) -> D] : Good(n, it)
      <3> HIDE DEF Good, Level
      <3>1. QED
        BY <1>5
    <2> DEFINE K == n + 1
               next == [s \in Level(K) |->
                           IF s = {} THEN base ELSE F[<<c[s], it[s \ {c[s]}]>>]]
    <2>2. ASSUME NEW s \in Level(K), s # {}
          PROVE  /\ s \ {c[s]} \in Level(n)
                 /\ s \ {c[s]} \in Level(K)
                 /\ c[s] \in S
      <3>1. s \in SUBSET S /\ Cardinality(s) <= K /\ Cardinality(s) \in Nat
        BY <1>1
      <3>2. Cardinality(s \ {c[s]}) = Cardinality(s) - 1
        BY <1>2, <2>2, <3>1
      <3>3. QED
        BY <2>2, <3>1, <3>2 DEF Chooses
    <2>3. ASSUME NEW s \in Level(K) PROVE next[s] \in D
      <3>1. CASE s = {}
        BY <3>1
      <3>2. CASE s # {}
        <4>1. <<c[s], it[s \ {c[s]}]>> \in S \X D
          <5> HIDE DEF Level, Good
          <5>1. QED
            BY <2>2, <3>2
        <4>2. F[<<c[s], it[s \ {c[s]}]>>] \in D
          BY <4>1
        <4>3. QED
          BY <3>2, <4>2
      <3>3. QED
        BY <3>1, <3>2
    <2>4. ASSUME NEW s \in Level(n) PROVE s \in Level(K) /\ next[s] = it[s]
      <3>1. s \in Level(K)
        BY <1>1
      <3>2. it[s] = IF s = {} THEN base ELSE F[<<c[s], it[s \ {c[s]}]>>]
        BY <2>1
      <3>3. QED
        BY <3>1, <3>2
    <2>5. Good(K, next)
      <3> SUFFICES ASSUME NEW s \in Level(K)
                   PROVE  next[s] = IF s = {} THEN base ELSE F[<<c[s], next[s \ {c[s]}]>>]
        OBVIOUS
      <3>1. CASE s = {}
        BY <3>1
      <3>2. CASE s # {}
        <4>1. next[s] = F[<<c[s], it[s \ {c[s]}]>>]
          BY <3>2
        <4>2. next[s \ {c[s]}] = it[s \ {c[s]}]
          <5> HIDE DEF next, Level
          <5>1. QED
            BY <2>2, <2>4, <3>2
        <4>3. QED
          BY <3>2, <4>1, <4>2
      <3>3. QED
        BY <3>1, <3>2
    <2>6. next \in [Level(K) -> D]
      BY <2>3
    <2> HIDE DEF next, Level, Good
    <2>7. QED
      BY <2>5, <2>6
  <1>6. Cardinality(S) \in N
    <2> HIDE DEF N
    <2>1. Nat \subseteq N
      BY <1>4, <1>5, NumberInduction
    <2>2. QED
      BY <1>1, <2>1
  <1>7. Level(Cardinality(S)) = SUBSET S
    BY <1>1, FS_Subset
  <1>8. PICK it \in [Level(Cardinality(S)) -> D] : Good(Cardinality(S), it)
    <2> HIDE DEF Level, Good
    <2>1. QED
      BY <1>6
  <1>9. QED
    BY <1>7, <1>8 DEF Folds

-----------------------------------------------------------------------------
(* The sum of the values of a function.                                    *)

\* Sums(it, f): it maps a set of arguments to the sum of their values.
Sums(it, f) ==
    \A s \in SUBSET DOMAIN f :
        it[s] = IF s = {} THEN 0
                ELSE f[CHOOSE x \in s : TRUE] + it[s \ {CHOOSE x \in s : TRUE}]

(* SumFunction is such a fold.                                             *)
LEMMA SumIsFold ==
  ASSUME NEW S, IsFiniteSet(S), NEW f \in [S -> Nat]
  PROVE  \E it \in [SUBSET S -> Nat] : Sums(it, f) /\ SumFunction(f) = it[S]
  <1> DEFINE F == [p \in S \X Nat |-> f[p[1]] + p[2]]
             c == [s \in SUBSET S |-> CHOOSE x \in s : TRUE]
             Eq(it) == it = [s \in SUBSET S |->
                 IF s = {} THEN 0
                 ELSE f[CHOOSE x \in s : TRUE] + it[s \ {CHOOSE x \in s : TRUE}]]
             sum == CHOOSE it : Eq(it)
  <1>1. F \in [S \X Nat -> Nat]
    OBVIOUS
  <1>2. Chooses(c, S)
    BY DEF Chooses
  <1>3. PICK it \in [SUBSET S -> Nat] : Folds(it, S, 0, F, c)
    <2> HIDE DEF F, c
    <2>1. QED
      BY <1>1, <1>2, FoldExists
  <1>4. Eq(it)
    <2>1. ASSUME NEW s \in SUBSET S
          PROVE  it[s] = IF s = {} THEN 0
                         ELSE f[CHOOSE x \in s : TRUE] + it[s \ {CHOOSE x \in s : TRUE}]
      <3>1. CASE s = {}
        BY <1>3, <3>1 DEF Folds
      <3>2. CASE s # {}
        <4>1. it[s] = F[<<c[s], it[s \ {c[s]}]>>]
          BY <1>3, <3>2 DEF Folds
        <4>2. c[s] \in S /\ s \ {c[s]} \in SUBSET S /\ it[s \ {c[s]}] \in Nat
          BY <1>2, <3>2 DEF Chooses
        <4>3. F[<<c[s], it[s \ {c[s]}]>>] = f[c[s]] + it[s \ {c[s]}]
          <5> HIDE DEF c
          <5>1. QED
            BY <4>2
        <4>4. QED
          BY <3>2, <4>1, <4>3
      <3>3. QED
        BY <3>1, <3>2
    <2>2. QED
      BY <2>1
  <1>5. Eq(sum)
    <2> HIDE DEF Eq
    <2>1. QED
      BY <1>4
  <1>6. SumFunction(f) = sum[S]
    BY DEF SumFunction, SumFunctionOnSet, FoldFunctionOnSet, MapThenFoldSet
  <1>7. Sums(sum, f)
    BY <1>5 DEF Sums
  <1>8. sum \in [SUBSET S -> Nat]
    <2> DEFINE Q == {s \in SUBSET S : sum[s] \in Nat}
    <2>1. {} \in Q
      <3> HIDE DEF sum
      <3>1. sum[{}] = 0
        BY <1>5
      <3>2. QED
        BY <3>1
    <2>2. ASSUME NEW s \in SUBSET S, s # {}, s \ {c[s]} \in Q PROVE s \in Q
      <3>1. sum[s] = f[c[s]] + sum[s \ {c[s]}]
        BY <1>5, <2>2
      <3>2. c[s] \in S
        BY <1>2, <2>2 DEF Chooses
      <3> HIDE DEF c, sum
      <3>3. f[c[s]] \in Nat /\ sum[s \ {c[s]}] \in Nat
        BY <2>2, <3>2
      <3>4. QED
        BY <3>1, <3>3
    <2>3. SUBSET S \subseteq Q
      <3> HIDE DEF Q, c, sum
      <3>1. \A s \in SUBSET S : s # {} /\ s \ {c[s]} \in Q => s \in Q
        BY <2>2
      <3>2. QED
        BY <1>2, <2>1, <3>1, ChoiceInduction
    <2>4. DOMAIN sum = SUBSET S /\ sum = [s \in SUBSET S |-> sum[s]]
      BY <1>5
    <2>5. QED
      BY <2>3, <2>4
  <1>9. QED
    BY <1>6, <1>7, <1>8

(* When each value is the size of a set, and the sets are apart, the sum   *)
(* is the size of their union.                                             *)
LEMMA SumCounts ==
  ASSUME NEW S, IsFiniteSet(S), NEW f \in [S -> Nat], NEW M, M = [x \in S |-> M[x]],
         \A x \in S : IsFiniteSet(M[x]) /\ f[x] = Cardinality(M[x]),
         \A x, y \in S : x # y => M[x] \cap M[y] = {}
  PROVE  /\ IsFiniteSet(UNION {M[x] : x \in S})
         /\ SumFunction(f) = Cardinality(UNION {M[x] : x \in S})
  <1> DEFINE Un(s) == UNION {M[x] : x \in s}
             c == [s \in SUBSET S |-> CHOOSE x \in s : TRUE]
  <1>1. PICK it \in [SUBSET S -> Nat] : Sums(it, f) /\ SumFunction(f) = it[S]
    BY SumIsFold
  <1>2. Chooses(c, S)
    BY DEF Chooses
  <1> DEFINE Q == {s \in SUBSET S : IsFiniteSet(Un(s)) /\ it[s] = Cardinality(Un(s))}
  <1>3. {} \in Q
    <2>1. it[{}] = 0 /\ Un({}) = {}
      BY <1>1 DEF Sums
    <2>2. QED
      BY <2>1, FS_EmptySet
  <1>4. ASSUME NEW s \in SUBSET S, s # {}, s \ {c[s]} \in Q PROVE s \in Q
    <2>1. it[s] = f[c[s]] + it[s \ {c[s]}]
      BY <1>1, <1>4 DEF Sums
    <2>2. c[s] \in s /\ c[s] \in S
      BY <1>2, <1>4 DEF Chooses
    <2> HIDE DEF c
    <2> DEFINE x == c[s]
               rest == Un(s \ {x})
    <2>3. IsFiniteSet(rest) /\ it[s \ {x}] = Cardinality(rest)
      BY <1>4
    <2>4. IsFiniteSet(M[x]) /\ f[x] = Cardinality(M[x])
      BY <2>2
    <2>5. Un(s) = rest \cup M[x]
      BY <2>2
    <2>6. rest \cap M[x] = {}
      BY <2>2
    <2> HIDE DEF rest
    <2>7. /\ IsFiniteSet(rest \cup M[x])
          /\ Cardinality(rest \cup M[x]) =
                 Cardinality(rest) + Cardinality(M[x]) - Cardinality(rest \cap M[x])
      BY <2>3, <2>4, FS_Union
    <2>8. Cardinality(rest \cap M[x]) = 0
      BY <2>6, FS_EmptySet
    <2>9. Cardinality(rest) \in Nat /\ Cardinality(M[x]) \in Nat
      BY <2>3, <2>4, FS_CardinalityType
    <2>10. it[s] = Cardinality(Un(s))
      <3> HIDE DEF Un
      <3>1. QED
        BY <2>1, <2>3, <2>4, <2>5, <2>7, <2>8, <2>9
    <2>11. QED
      BY <2>5, <2>7, <2>10
  <1>5. SUBSET S \subseteq Q
    <2> HIDE DEF Q, c
    <2>1. \A s \in SUBSET S : s # {} /\ s \ {c[s]} \in Q => s \in Q
      BY <1>4
    <2>2. QED
      BY <1>2, <1>3, <2>1, ChoiceInduction, SMTT(30)
  <1>6. QED
    BY <1>1, <1>5

-----------------------------------------------------------------------------
(* Folds from the left.                                                    *)

(* The last index of a prefix, and what it leaves.                         *)
LEMMA PrefixFacts ==
  ASSUME NEW k \in Nat, k # 0
  PROVE  Max(1..k) = k /\ (1..k) \ {k} = 1..(k - 1) /\ 1..k # {}
  <1>1. k \in 1..k
    OBVIOUS
  <1>2. Max(1..k) = k
    BY DEF Max
  <1>3. (1..k) \ {k} = 1..(k - 1)
    OBVIOUS
  <1>4. QED
    BY <1>1, <1>2, <1>3

(* The greatest index of a set of indices is one.                          *)
LEMMA IntervalMax ==
  ASSUME NEW n \in Nat, NEW S \in SUBSET (1..n), S # {}
  PROVE  Max(S) \in S /\ Max(S) \in 1..n /\ S \ {Max(S)} \in SUBSET (1..n)
  <1>1. IsFiniteSet(1..n)
    BY FS_Interval
  <1>2. IsFiniteSet(S)
    BY <1>1, FS_Subset
  <1>3. S \in SUBSET Nat
    OBVIOUS
  <1>4. QED
    BY <1>2, <1>3, MaxIsGreatest

\* The fold of a sequence with the indices I, on each set of them.
LeftFolds(it, I, base, F) ==
    \A S \in SUBSET I : it[S] = IF S = {} THEN base ELSE F[<<Max(S), it[S \ {Max(S)}]>>]

Indices(I) == \E n \in Nat : I = 1..n

(* Such a fold exists.                                                     *)
LEMMA LeftFoldExists ==
  ASSUME NEW I, Indices(I), NEW D, NEW base \in D, NEW F \in [I \X D -> D]
  PROVE  \E it \in [SUBSET I -> D] : LeftFolds(it, I, base, F)
  <1> DEFINE c == [S \in SUBSET I |-> Max(S)]
  <1>1. IsFiniteSet(I)
    BY FS_Interval DEF Indices
  <1>2. Chooses(c, I)
    BY IntervalMax DEF Chooses, Indices
  <1>3. PICK it \in [SUBSET I -> D] : Folds(it, I, base, F, c)
    <2> HIDE DEF c
    <2>1. QED
      BY <1>1, <1>2, FoldExists
  <1>4. QED
    BY <1>3 DEF Folds, LeftFolds

(* What the base has, and each step keeps, the result has.                 *)
LEMMA LeftFoldStays ==
  ASSUME NEW I, Indices(I), NEW D, NEW it, it[{}] \in D,
         \A S \in SUBSET I : S # {} /\ it[S \ {Max(S)}] \in D => it[S] \in D
  PROVE  it[I] \in D
  <1> DEFINE Q == {T \in SUBSET I : it[T] \in D}
             c == [T \in SUBSET I |-> Max(T)]
  <1>1. {} \in Q
    OBVIOUS
  <1>2. Chooses(c, I)
    BY IntervalMax DEF Chooses, Indices
  <1>3. \A T \in SUBSET I : T # {} /\ T \ {c[T]} \in Q => T \in Q
    OBVIOUS
  <1>4. IsFiniteSet(I)
    BY FS_Interval DEF Indices
  <1> HIDE DEF Q, c
  <1>5. SUBSET I \subseteq Q
    BY <1>1, <1>2, <1>3, <1>4, ChoiceInduction
  <1>6. QED
    BY <1>5 DEF Q

-----------------------------------------------------------------------------
(* The arrangements of a finite set by a relation B, a set of pairs.       *)

StrictOrder(B, S) ==
    /\ \A x \in S : <<x, x>> \notin B
    /\ \A x, y, z \in S : <<x, y>> \in B /\ <<y, z>> \in B => <<x, z>> \in B
    /\ \A x, y \in S : x = y \/ <<x, y>> \in B \/ <<y, x>> \in B

Arranges(q, S, B) ==
    /\ q \in [1..Cardinality(S) -> S]
    /\ \A i, j \in 1..Cardinality(S) : i < j => <<q[i], q[j]>> \in B
    /\ {q[i] : i \in 1..Cardinality(S)} = S

(* A finite set has a last element.                                        *)
LEMMA LastElement ==
  ASSUME NEW S, IsFiniteSet(S), NEW B, StrictOrder(B, S), S # {}
  PROVE  \E x \in S : \A y \in S : y # x => <<y, x>> \in B
  <1> DEFINE Q == {T \in SUBSET S :
                      T # {} => \E x \in T : \A y \in T : y # x => <<y, x>> \in B}
  <1>1. {} \in Q
    OBVIOUS
  <1>2. ASSUME NEW T \in SUBSET S, NEW e \in S, T \in Q, e \notin T PROVE T \cup {e} \in Q
    <2>1. CASE T = {}
      BY <2>1
    <2>2. CASE T # {}
      <3>1. PICK x \in T : \A y \in T : y # x => <<y, x>> \in B
        BY <1>2, <2>2
      <3>2. CASE <<x, e>> \in B
        <4>1. \A y \in T : <<y, e>> \in B
          BY <3>1, <3>2 DEF StrictOrder
        <4>2. QED
          BY <4>1
      <3>3. CASE <<e, x>> \in B
        <4>1. \A y \in T \cup {e} : y # x => <<y, x>> \in B
          BY <3>1, <3>3
        <4>2. QED
          BY <4>1
      <3>4. x # e
        BY <1>2
      <3>5. QED
        BY <3>2, <3>3, <3>4 DEF StrictOrder
    <2>3. QED
      BY <2>1, <2>2
  <1>3. SUBSET S \subseteq Q
    <2> HIDE DEF Q
    <2>1. QED
      BY <1>1, <1>2, SubsetInduction
  <1>4. QED
    BY <1>3

(* A finite set has an arrangement.                                        *)
LEMMA ArrangementExists ==
  ASSUME NEW S, IsFiniteSet(S), NEW B, StrictOrder(B, S)
  PROVE  \E q : Arranges(q, S, B)
  <1> DEFINE c == [T \in SUBSET S |->
                      CHOOSE x \in T : \A y \in T : y # x => <<y, x>> \in B]
             Q == {T \in SUBSET S : \E q : Arranges(q, T, B)}
  <1>1. \A T \in SUBSET S : IsFiniteSet(T) /\ Cardinality(T) \in Nat /\ StrictOrder(B, T)
    BY FS_Subset, FS_CardinalityType DEF StrictOrder
  <1>2. ASSUME NEW T \in SUBSET S, T # {}
        PROVE  c[T] \in T /\ \A y \in T : y # c[T] => <<y, c[T]>> \in B
    <2>1. \E x \in T : \A y \in T : y # x => <<y, x>> \in B
      BY <1>1, <1>2, LastElement
    <2>2. QED
      BY <2>1
  <1>3. Chooses(c, S)
    BY <1>2 DEF Chooses
  <1>4. {} \in Q
    <2>1. Cardinality({}) = 0
      BY FS_EmptySet
    <2>2. Arranges(<<>>, {}, B)
      BY <2>1 DEF Arranges
    <2>3. QED
      BY <2>2
  <1>5. ASSUME NEW T \in SUBSET S, T # {}, T \ {c[T]} \in Q PROVE T \in Q
    <2> DEFINE e == c[T]
               U == T \ {e}
    <2>1. e \in T /\ \A y \in U : <<y, e>> \in B
      BY <1>2, <1>5
    <2>2. PICK p : Arranges(p, U, B)
      BY <1>5
    <2> HIDE DEF e, c
    <2>3. PICK n \in Nat : Cardinality(U) = n /\ Cardinality(T) = n + 1
      <3>1. IsFiniteSet(T) /\ Cardinality(T) \in Nat /\ Cardinality(U) \in Nat
        BY <1>1
      <3>2. Cardinality(U) = Cardinality(T) - 1
        BY <2>1, <3>1, FS_RemoveElement
      <3>3. QED
        BY <3>1, <3>2
    <2> HIDE DEF U
    <2>4. /\ p \in [1..n -> U]
          /\ \A i, j \in 1..n : i < j => <<p[i], p[j]>> \in B
          /\ {p[i] : i \in 1..n} = U
      BY <2>2, <2>3 DEF Arranges
    <2>5. T = U \cup {e}
      BY <2>1 DEF U
    <2> DEFINE m == n + 1
               q == [i \in 1..m |-> IF i = m THEN e ELSE p[i]]
    <2>6. m \in 1..m /\ \A i \in 1..m : i = m \/ i \in 1..n
      OBVIOUS
    <2>7. /\ q[m] = e
          /\ \A i \in 1..n : i \in 1..m /\ q[i] = p[i] /\ q[i] \in U
      BY <2>4, <2>6
    <2>8. \A i, j \in 1..m : i < j => i \in 1..n
      OBVIOUS
    <2> HIDE DEF q, m
    <2>9. \A i, j \in 1..m : i < j => <<q[i], q[j]>> \in B
      BY <2>1, <2>4, <2>6, <2>7, <2>8
    <2>10. {q[i] : i \in 1..m} = T
      BY <2>4, <2>5, <2>6, <2>7
    <2>11. q \in [1..m -> T]
      BY <2>10 DEF q
    <2>12. Arranges(q, T, B)
      <3>1. Cardinality(T) = m
        BY <2>3 DEF m
      <3>2. QED
        BY <2>9, <2>10, <2>11, <3>1 DEF Arranges
    <2>13. QED
      BY <2>12
  <1>6. SUBSET S \subseteq Q
    <2> HIDE DEF Q, c
    <2>1. \A T \in SUBSET S : T # {} /\ T \ {c[T]} \in Q => T \in Q
      BY <1>5
    <2>2. QED
      BY <1>3, <1>4, <2>1, ChoiceInduction
  <1>7. QED
    BY <1>6

(* No two.                                                                 *)
LEMMA ArrangementUnique ==
  ASSUME NEW S, IsFiniteSet(S), NEW B, StrictOrder(B, S),
         NEW p, Arranges(p, S, B), NEW q, Arranges(q, S, B)
  PROVE  p = q
  <1>1. PICK n \in Nat : n = Cardinality(S)
    BY FS_CardinalityType
  <1>2. \A r \in {p, q} :
            /\ r \in [1..n -> S]
            /\ \A i, j \in 1..n : i < j => <<r[i], r[j]>> \in B
            /\ {r[i] : i \in 1..n} = S
    BY <1>1 DEF Arranges
  <1> DEFINE D == {i \in 1..n : p[i] # q[i]}
  <1>3. ASSUME D # {} PROVE FALSE
    <2>1. PICK i \in D : \A j \in D : i <= j
      <3>1. D \in SUBSET Nat
        OBVIOUS
      <3> HIDE DEF D
      <3>2. QED
        BY <1>3, <3>1, LeastNumber
    <2>2. i \in 1..n /\ p[i] # q[i] /\ \A j \in 1..n : j < i => p[j] = q[j]
      BY <2>1
    <2>3. ASSUME NEW a \in [1..n -> S], NEW b \in [1..n -> S],
                 {b[j] : j \in 1..n} = S,
                 \A j, k \in 1..n : j < k => <<a[j], a[k]>> \in B,
                 \A j, k \in 1..n : j < k => <<b[j], b[k]>> \in B,
                 a[i] # b[i], \A j \in 1..n : j < i => a[j] = b[j]
          PROVE  <<b[i], a[i]>> \in B
      <3>1. a[i] \in S
        BY <2>2, <2>3
      <3>2. PICK j \in 1..n : b[j] = a[i]
        BY <2>3, <3>1
      <3>3. ASSUME j < i PROVE FALSE
        <4>1. a[j] = a[i]
          BY <2>3, <3>2, <3>3
        <4>2. <<a[j], a[i]>> \in B
          BY <2>2, <2>3, <3>3
        <4>3. QED
          BY <3>1, <4>1, <4>2 DEF StrictOrder
      <3>4. j # i
        BY <2>3, <3>2
      <3>5. i < j
        BY <2>2, <3>3, <3>4
      <3>6. QED
        BY <2>2, <2>3, <3>2, <3>5
    <2>4. /\ p \in [1..n -> S] /\ {p[j] : j \in 1..n} = S
          /\ \A j, k \in 1..n : j < k => <<p[j], p[k]>> \in B
      BY <1>2
    <2>5. /\ q \in [1..n -> S] /\ {q[j] : j \in 1..n} = S
          /\ \A j, k \in 1..n : j < k => <<q[j], q[k]>> \in B
      BY <1>2
    <2>6. p[i] \in S /\ q[i] \in S
      BY <1>2, <2>2
    <2>7. <<q[i], p[i]>> \in B
      BY <2>2, <2>3, <2>4, <2>5
    <2>8. <<p[i], q[i]>> \in B
      BY <2>2, <2>3, <2>4, <2>5
    <2>9. QED
      BY <2>6, <2>7, <2>8 DEF StrictOrder
  <1>4. QED
    BY <1>2, <1>3

(* An arrangement is injective, one of the sequences that list the set.    *)
LEMMA ArrangementLists ==
  ASSUME NEW S, IsFiniteSet(S), NEW B, StrictOrder(B, S), NEW q
  PROVE  Arranges(q, S, B) <=>
             /\ q \in SetToSeqs(S)
             /\ \A i, j \in DOMAIN q : i < j => <<q[i], q[j]>> \in B
  <1>1. PICK n \in Nat : n = Cardinality(S)
    BY FS_CardinalityType
  <1>2. ASSUME Arranges(q, S, B)
        PROVE  /\ q \in SetToSeqs(S)
               /\ \A i, j \in DOMAIN q : i < j => <<q[i], q[j]>> \in B
    <2>1. q \in [1..n -> S] /\ \A i, j \in 1..n : i < j => <<q[i], q[j]>> \in B
      BY <1>1, <1>2 DEF Arranges
    <2>2. ASSUME NEW i \in 1..n, NEW j \in 1..n, i # j PROVE q[i] # q[j]
      <3>1. i < j \/ j < i
        BY <2>2
      <3>2. q[i] \in S /\ q[j] \in S
        BY <2>1
      <3>3. QED
        BY <2>1, <3>1, <3>2 DEF StrictOrder
    <2>3. QED
      BY <1>1, <2>1, <2>2 DEF SetToSeqs
  <1>3. ASSUME q \in SetToSeqs(S), \A i, j \in DOMAIN q : i < j => <<q[i], q[j]>> \in B
        PROVE  Arranges(q, S, B)
    <2>1. q \in [1..n -> S] /\ \A i, j \in 1..n : i # j => q[i] # q[j]
      BY <1>1, <1>3 DEF SetToSeqs
    <2>2. {q[i] : i \in 1..n} = S
      <3> DEFINE T == {q[i] : i \in 1..n}
      <3>1. IsFiniteSet(1..n) /\ Cardinality(1..n) = n
        BY FS_Interval
      <3>2. DOMAIN q = 1..n /\ q = [x \in 1..n |-> q[x]]
        BY <2>1
      <3>3. IsFiniteSet(T) /\ Cardinality(T) = n
        <4>1. \A x, y \in 1..n : q[x] = q[y] => x = y
          BY <2>1
        <4> DEFINE I == 1..n
        <4>2. /\ IsFiniteSet(I) /\ DOMAIN q = I /\ q = [x \in I |-> q[x]]
              /\ \A x, y \in I : q[x] = q[y] => x = y
          BY <3>1, <3>2, <4>1
        <4> HIDE DEF I
        <4>3. /\ IsFiniteSet({q[x] : x \in I})
              /\ Cardinality({q[x] : x \in I}) = Cardinality(I)
          BY <4>2, ImageCounts
        <4>4. QED
          BY <3>1, <4>3 DEF I
      <3>4. T \in SUBSET S
        BY <2>1
      <3> HIDE DEF T
      <3>5. T = S
        BY <1>1, <3>3, <3>4, FS_Subset
      <3>6. QED
        BY <3>5 DEF T
    <2>3. QED
      BY <1>1, <1>3, <2>1, <2>2 DEF Arranges
  <1>4. QED
    BY <1>2, <1>3

-----------------------------------------------------------------------------
(* A sequence of sequences, flattened.                                     *)

\* f holds the flattened prefixes of q.
Joins(f, q) == f = [i \in 1..Len(q) |-> IF i = 1 THEN q[i] ELSE f[i-1] \o q[i]]

(* There is such a function.                                               *)
LEMMA JoinsExists ==
  ASSUME NEW S, NEW q \in Seq(Seq(S))
  PROVE  \E f \in [1..Len(q) -> Seq(S)] : Joins(f, q)
  <1> DEFINE Good(f, n) == \A i \in 1..n : f[i] = IF i = 1 THEN q[i] ELSE f[i-1] \o q[i]
             Some(n) == \E f \in [1..n -> Seq(S)] : Good(f, n)
             N == {n \in Nat : n <= Len(q) => Some(n)}
  <1>1. Len(q) \in Nat /\ \A i \in 1..Len(q) : q[i] \in Seq(S)
    BY ElementOfSeq
  <1>2. 0 \in N
    <2>1. [i \in 1..0 |-> <<>>] \in [1..0 -> Seq(S)] /\ Good([i \in 1..0 |-> <<>>], 0)
      OBVIOUS
    <2> QED  BY <2>1
  <1>3. ASSUME NEW n \in Nat, n \in N PROVE n + 1 \in N
    <2> SUFFICES ASSUME n + 1 <= Len(q) PROVE Some(n + 1)
      <3> HIDE DEF Some
      <3> QED  OBVIOUS
    <2>0. Some(n)
      <3> HIDE DEF Some
      <3> QED  BY <1>1, <1>3
    <2>1. PICK f \in [1..n -> Seq(S)] : Good(f, n)
      BY <2>0
    <2> DEFINE e == IF n = 0 THEN q[1] ELSE f[n] \o q[n + 1]
               g == [i \in 1..(n + 1) |-> IF i = n + 1 THEN e ELSE f[i]]
    <2>2. e \in Seq(S)
      <3>1. CASE n = 0
        BY <1>1, <3>1
      <3>2. CASE n # 0
        <4>1. n \in 1..n /\ n + 1 \in 1..Len(q)
          BY <1>1, <3>2
        <4>2. f[n] \in Seq(S) /\ q[n + 1] \in Seq(S)
          BY <1>1, <2>1, <4>1
        <4> QED  BY <3>2, <4>2, ConcatProperties
      <3> QED  BY <3>1, <3>2
    <2> HIDE DEF e
    <2>3. g \in [1..(n + 1) -> Seq(S)]
      <3>1. \A i \in 1..(n + 1) : i # n + 1 => i \in 1..n
        OBVIOUS
      <3> QED  BY <2>1, <2>2, <3>1
    <2>4. \A i \in 1..n : g[i] = f[i] /\ (i # 1 => i - 1 \in 1..n /\ g[i - 1] = f[i - 1])
      <3>1. \A i \in 1..n : i \in 1..(n + 1) /\ i # n + 1 /\ (i # 1 => i - 1 \in 1..n)
        OBVIOUS
      <3>2. \A i \in 1..n : g[i] = f[i]
        BY <3>1
      <3> QED  BY <3>1, <3>2
    <2>5. g[n + 1] = e /\ (n # 0 => n \in 1..n)
      OBVIOUS
    <2>6. ASSUME NEW i \in 1..(n + 1)
          PROVE  g[i] = IF i = 1 THEN q[i] ELSE g[i-1] \o q[i]
      <3>1. CASE i = n + 1
        <4>1. i - 1 = n /\ (n # 0 => g[n] = f[n]) /\ (i = 1 <=> n = 0)
          BY <2>4, <2>5, <3>1
        <4> HIDE DEF g
        <4>2. CASE n = 0
          BY <2>5, <3>1, <4>2 DEF e
        <4>3. CASE n # 0
          BY <2>5, <3>1, <4>1, <4>3 DEF e
        <4> QED  BY <4>2, <4>3
      <3>2. CASE i # n + 1
        <4>1. i \in 1..n
          BY <3>2
        <4> HIDE DEF g
        <4> QED  BY <2>1, <2>4, <4>1
      <3> QED  BY <3>1, <3>2
    <2> HIDE DEF g
    <2> QED  BY <2>3, <2>6
  <1>4. Len(q) \in N
    <2> HIDE DEF N
    <2> QED  BY <1>1, <1>2, <1>3, NumberInduction
  <1>5. Some(Len(q))
    <2> HIDE DEF Some
    <2> QED  BY <1>1, <1>4
  <1>6. PICK f \in [1..Len(q) -> Seq(S)] : Good(f, Len(q))
    BY <1>5
  <1> QED  BY <1>6 DEF Joins

\* q and r begin with the same m sequences, and f and g are for them.
Agreeing(q, r, f, g, m) ==
    /\ Joins(f, q) /\ Joins(g, r)
    /\ Len(q) \in Nat /\ Len(r) \in Nat /\ m \in Nat /\ m <= Len(q) /\ m <= Len(r)
    /\ \A i \in 1..m : q[i] = r[i]

(* Where two sequences agree, so do their flattened prefixes.              *)
LEMMA JoinsAgree ==
  ASSUME NEW q, NEW r, NEW f, NEW g, NEW m, Agreeing(q, r, f, g, m)
  PROVE  \A i \in 1..m : f[i] = g[i]
  <1> DEFINE N == {n \in Nat : n \in 1..m => f[n] = g[n]}
  <1>1. \A i \in 1..m :
            /\ f[i] = IF i = 1 THEN q[i] ELSE f[i-1] \o q[i]
            /\ g[i] = IF i = 1 THEN r[i] ELSE g[i-1] \o r[i]
    <2>1. \A i \in 1..m : i \in 1..Len(q) /\ i \in 1..Len(r) /\ q[i] = r[i]
      BY DEF Agreeing
    <2> QED  BY <2>1 DEF Joins, Agreeing
  <1>2. 0 \in N
    OBVIOUS
  <1>3. ASSUME NEW n \in Nat, n \in N PROVE n + 1 \in N
    <2>1. n + 1 \in 1..m /\ n + 1 # 1 => n \in 1..m /\ (n + 1) - 1 = n
      BY DEF Agreeing
    <2>2. n + 1 \in 1..m => q[n + 1] = r[n + 1]
      BY DEF Agreeing
    <2> QED  BY <1>1, <1>3, <2>1, <2>2
  <1>4. Nat \subseteq N
    <2> HIDE DEF N
    <2> QED  BY <1>2, <1>3, NumberInduction
  <1>5. \A i \in 1..m : i \in Nat
    BY DEF Agreeing
  <1> QED  BY <1>4, <1>5

(* FlattenSeq gives the last of them.                                      *)
LEMMA FlattenIs ==
  ASSUME NEW S, NEW q \in Seq(Seq(S)), q # <<>>, NEW f, Joins(f, q)
  PROVE  FlattenSeq(q) = f[Len(q)] /\ FlattenSeq(q) \in Seq(S)
  <1> DEFINE h == CHOOSE x : x = [i \in 1..Len(q) |-> IF i = 1 THEN q[i] ELSE x[i-1] \o q[i]]
  <1>1. Len(q) \in Nat /\ Len(q) # 0 /\ Len(q) \in 1..Len(q)
    BY EmptySeq
  <1>2. FlattenSeq(q) = h[Len(q)]
    BY <1>1 DEF FlattenSeq
  <1>3. Joins(h, q)
    BY DEF Joins
  <1> HIDE DEF h
  <1>4. h[Len(q)] = f[Len(q)]
    <2>1. Agreeing(q, q, h, f, Len(q))
      BY <1>1, <1>3 DEF Agreeing
    <2> QED  BY <1>1, <2>1, JoinsAgree
  <1>5. PICK g \in [1..Len(q) -> Seq(S)] : Joins(g, q)
    BY JoinsExists
  <1>6. g[Len(q)] = f[Len(q)] /\ g[Len(q)] \in Seq(S)
    <2>1. Agreeing(q, q, g, f, Len(q))
      BY <1>1, <1>5 DEF Agreeing
    <2> QED  BY <1>1, <1>5, <2>1, JoinsAgree
  <1> QED  BY <1>2, <1>4, <1>6

(* Flattening keeps the elements, and one sequence more goes to the end.   *)
LEMMA FlattenEmpty == FlattenSeq(<<>>) = <<>>
  BY DEF FlattenSeq

LEMMA FlattenType ==
  ASSUME NEW S, NEW q \in Seq(Seq(S))
  PROVE  FlattenSeq(q) \in Seq(S)
  BY FlattenEmpty, FlattenIs, JoinsExists, EmptySeq

LEMMA FlattenAppend ==
  ASSUME NEW S, NEW q \in Seq(Seq(S)), NEW e \in Seq(S)
  PROVE  FlattenSeq(Append(q, e)) = FlattenSeq(q) \o e
  <1> DEFINE r == Append(q, e)
  <1>1. /\ r \in Seq(Seq(S)) /\ r # <<>> /\ Len(r) = Len(q) + 1
        /\ \A i \in 1..Len(q) : r[i] = q[i]
        /\ r[Len(q) + 1] = e /\ Len(q) \in Nat
    BY AppendProperties, LenProperties
  <1> HIDE DEF r
  <1>2. PICK g : Joins(g, r)
    BY <1>1, JoinsExists
  <1>3. /\ FlattenSeq(r) = g[Len(q) + 1]
        /\ g[Len(q) + 1] = IF Len(q) = 0 THEN e ELSE g[Len(q)] \o e
    <2>1. Len(q) + 1 \in 1..Len(r) /\ (Len(q) + 1) - 1 = Len(q) /\ (Len(q) + 1 = 1 <=> Len(q) = 0)
      BY <1>1
    <2>2. FlattenSeq(r) = g[Len(r)]
      BY <1>1, <1>2, FlattenIs
    <2> QED  BY <1>1, <1>2, <2>1, <2>2 DEF Joins
  <1>4. CASE q = <<>>
    <2>1. Len(q) = 0 /\ FlattenSeq(q) = <<>> /\ <<>> \o e = e
      BY <1>4, FlattenEmpty, EmptySeq, ConcatEmptySeq
    <2> QED  BY <1>3, <2>1 DEF r
  <1>5. CASE q # <<>>
    <2>1. Len(q) # 0 /\ Len(q) \in 1..Len(q)
      BY <1>1, <1>5, EmptySeq
    <2>2. PICK f : Joins(f, q)
      BY JoinsExists
    <2>3. FlattenSeq(q) = f[Len(q)]
      BY <1>5, <2>2, FlattenIs
    <2>4. Len(q) <= Len(r) /\ Len(r) \in Nat
      BY <1>1
    <2>5. f[Len(q)] = g[Len(q)]
      <3>1. Agreeing(q, r, f, g, Len(q))
        BY <1>1, <1>2, <2>2, <2>4 DEF Agreeing
      <3>2. \A i \in 1..Len(q) : f[i] = g[i]
        BY <3>1, JoinsAgree
      <3> QED  BY <2>1, <3>2
    <2> QED  BY <1>3, <2>1, <2>3, <2>5 DEF r
  <1> QED  BY <1>4, <1>5

\* Three sequences, grouped in either way.
Three(x, y, z, S) == x \in Seq(S) /\ y \in Seq(S) /\ z \in Seq(S)

LEMMA Regroup ==
  ASSUME NEW S, NEW x, NEW y, NEW z, Three(x, y, z, S)
  PROVE  (x \o y) \o z = x \o (y \o z)
  BY ConcatAssociative DEF Three

(* Two sequences one after the other are flattened one after the other.    *)
LEMMA FlattenConcat ==
  ASSUME NEW S, NEW q \in Seq(Seq(S)), NEW r \in Seq(Seq(S))
  PROVE  FlattenSeq(q \o r) = FlattenSeq(q) \o FlattenSeq(r)
  <1> DEFINE pre(n) == SubSeq(r, 1, n)
             N == {n \in Nat : n <= Len(r) =>
                       FlattenSeq(q \o pre(n)) = FlattenSeq(q) \o FlattenSeq(pre(n))}
  <1>1. Len(r) \in Nat /\ FlattenSeq(q) \in Seq(S)
    BY LenProperties, FlattenType
  <1>2. 0 \in N
    <2>1. pre(0) = <<>>
      BY SubSeqEmpty
    <2>2. q \o <<>> = q /\ FlattenSeq(q) \o <<>> = FlattenSeq(q) /\ FlattenSeq(<<>>) = <<>>
      BY <1>1, ConcatEmptySeq, FlattenEmpty
    <2> HIDE DEF pre
    <2> QED  BY <2>1, <2>2
  <1>3. ASSUME NEW n \in Nat, n \in N PROVE n + 1 \in N
    <2> SUFFICES ASSUME n + 1 <= Len(r)
                 PROVE  FlattenSeq(q \o pre(n + 1)) = FlattenSeq(q) \o FlattenSeq(pre(n + 1))
      OBVIOUS
    <2>1. 1 \in 1..Len(r) /\ n + 1 \in 1..Len(r) /\ (n + 1) - 1 = n /\ n <= Len(r)
      BY <1>1
    <2>2. r[n + 1] \in Seq(S) /\ \A i \in 1..n : r[i] \in Seq(S)
      BY <1>1, <2>1, ElementOfSeq
    <2>3. pre(n) \in Seq(Seq(S))
      BY <2>2, SubSeqProperties
    <2>4. pre(n + 1) = pre(n) \o <<r[n + 1]>>
      BY <2>1, SubSeqRecursiveSecond
    <2> HIDE DEF pre
    <2>5. pre(n + 1) = Append(pre(n), r[n + 1])
      BY <2>2, <2>3, <2>4, AppendIsConcat
    <2>6. q \o pre(n) \in Seq(Seq(S)) /\ FlattenSeq(pre(n)) \in Seq(S)
      BY <2>3, ConcatProperties, FlattenType
    <2>7. q \o pre(n + 1) = Append(q \o pre(n), r[n + 1])
      <3>1. <<r[n + 1]>> \in Seq(Seq(S))
        BY <2>2
      <3>2. q \o (pre(n) \o <<r[n + 1]>>) = (q \o pre(n)) \o <<r[n + 1]>>
        BY <2>3, <3>1, ConcatAssociative, SMTT(30)
      <3> QED  BY <2>2, <2>4, <2>6, <3>2, AppendIsConcat
    <2>8. FlattenSeq(q \o pre(n + 1)) = FlattenSeq(q \o pre(n)) \o r[n + 1]
      BY <2>2, <2>6, <2>7, FlattenAppend
    <2>9. FlattenSeq(pre(n + 1)) = FlattenSeq(pre(n)) \o r[n + 1]
      BY <2>2, <2>3, <2>5, FlattenAppend
    <2>10. FlattenSeq(q \o pre(n)) = FlattenSeq(q) \o FlattenSeq(pre(n))
      BY <1>3, <2>1
    <2>11. (FlattenSeq(q) \o FlattenSeq(pre(n))) \o r[n + 1]
              = FlattenSeq(q) \o (FlattenSeq(pre(n)) \o r[n + 1])
      <3>1. PICK x, y, z : x = FlattenSeq(q) /\ y = FlattenSeq(pre(n)) /\ z = r[n + 1]
        OBVIOUS
      <3>2. Three(x, y, z, S)
        BY <1>1, <2>2, <2>6, <3>1 DEF Three
      <3>3. (x \o y) \o z = x \o (y \o z)
        BY <3>2, Regroup, SMTT(30)
      <3> QED  BY <3>1, <3>3
    <2> QED  BY <2>8, <2>9, <2>10, <2>11
  <1>4. Len(r) \in N
    <2> HIDE DEF N
    <2> QED  BY <1>1, <1>2, <1>3, NumberInduction
  <1>5. pre(Len(r)) = r
    BY SubSeqFull
  <1> HIDE DEF pre
  <1> QED  BY <1>1, <1>4, <1>5
=============================================================================
