-------------------------- MODULE ArithmeticTheorems --------------------------
(***************************************************************************)
(* Facts about numbers that the proofs share: least and greatest elements, *)
(* division with remainder, and the sums the models are built with.        *)
(*                                                                         *)
(* SumFunction and FoldSeq are folds: they take one element after the      *)
(* other out of a finite set, in an order that a CHOOSE fixes, and are the *)
(* value at that set of a recursive function on its subsets.               *)
(* SumOver names that value.  That the function exists and what it gives   *)
(* is shown by induction on the size of the set, for properties that are   *)
(* written as sets (SetInduction, SubsetInduction).                        *)
(***************************************************************************)
EXTENDS Integers, Sequences, SequencesExt, FiniteSetsExt,
        FiniteSetTheorems, WellFoundedInduction, TLAPS

-----------------------------------------------------------------------------
(* Least and greatest elements.                                            *)

(* A set of naturals that is not empty has a least element.                *)
LEMMA LeastNat ==
    ASSUME NEW S \in SUBSET Nat, S # {}
    PROVE  \E m \in S : \A k \in S : m <= k
<1> DEFINE R == {ss \in Nat \X Nat : ss[1] < ss[2]}
<1>1. IsWellFoundedOn(R, Nat)
  BY NatLessThanWellFounded, Zenon DEF OpToRel
<1>2. \A x, y \in Nat : <<y, x>> \in R <=> y < x
  OBVIOUS
<1> HIDE DEF R
<1>3. \E x \in S : \A y \in S : ~ (<<y, x>> \in R)
  BY <1>1, WFMin, Zenon
<1>4. PICK x \in S : \A y \in S : ~ (<<y, x>> \in R)
  BY <1>3
<1>5. \A y \in S : ~ (y < x)
  BY <1>2, <1>4
<1>6. \A y \in S : x <= y
  BY <1>5
<1> QED
  BY <1>6

(* Min of such a set is it.                                                *)
LEMMA MinIsLeast ==
    ASSUME NEW T, T \subseteq Nat, T # {}
    PROVE  Min(T) \in T /\ \A y \in T : Min(T) <= y
<1>1. PICK x \in T : \A y \in T : x <= y
  BY LeastNat
<1> QED
  BY <1>1 DEF Min

(* A number of a set that is not above any of them is its Min.             *)
LEMMA MinIs ==
    ASSUME NEW S \in SUBSET Nat, NEW m \in S, \A k \in S : m <= k
    PROVE  Min(S) = m
<1>1. PICK k \in S : k = Min(S) /\ k <= m
  BY MinIsLeast
<1>2. k <= m /\ m <= k /\ k \in Nat /\ m \in Nat
  BY <1>1
<1> QED
  BY <1>1, <1>2

(* A set of numbers up to n that holds one has a greatest one.             *)
LEMMA GreatestUpTo ==
    ASSUME NEW n \in Nat, NEW S \in SUBSET (0 .. n), S # {}
    PROVE  Max(S) \in S
<1> DEFINE T == {n - k : k \in S}
<1>1. T \in SUBSET Nat /\ T # {}
  <2>1. \E k \in S : n - k \in T
    OBVIOUS
  <2> QED
    BY <2>1
<1>2. PICK x \in T : \A y \in T : x <= y
  BY <1>1, LeastNat
<1>3. PICK k \in S : x = n - k
  OBVIOUS
<1>4. \A j \in S : n - j \in T
  OBVIOUS
<1>5. \A j \in S : n - k <= n - j
  BY <1>2, <1>3, <1>4
<1>6. \A j \in S : k >= j
  BY <1>5
<1> QED
  BY <1>6, Zenon DEF Max

(* Induction over the naturals, for a property given as the set of the     *)
(* numbers that have it.                                                   *)
LEMMA SetInduction ==
    ASSUME NEW P, 0 \in P, \A n \in Nat : n \in P => n + 1 \in P
    PROVE  Nat \subseteq P
<1> DEFINE Fails == Nat \ P
<1> SUFFICES ASSUME Fails # {} PROVE FALSE
  OBVIOUS
<1>1. PICK m \in Fails : \A k \in Fails : m <= k
  BY LeastNat
<1>2. m \in Nat /\ m \notin P /\ m # 0
  BY <1>1
<1>3. m - 1 \in Nat /\ m - 1 \notin Fails
  BY <1>1, <1>2
<1>4. (m - 1) + 1 \in P
  BY <1>3
<1> QED
  BY <1>2, <1>4

-----------------------------------------------------------------------------
(* Division with remainder, by a number that is not known.                 *)

(* The remainder is what the quotient leaves.                              *)
LEMMA DivMod ==
    ASSUME NEW x \in Nat, NEW n \in Nat, n > 0
    PROVE  x % n = x - n * (x \div n)
OBVIOUS

(* Whatever leaves less than the divisor is the remainder.                 *)
LEMMA ModUnique ==
    ASSUME NEW n \in Nat, n > 0, NEW q \in Nat, NEW r \in 0 .. n - 1, NEW x \in Nat, x = n * q + r
    PROVE  x % n = r
<1>1. PICK p \in Nat : p = x \div n
  OBVIOUS
<1>2. PICK e \in 0 .. n - 1 : e = x % n
  OBVIOUS
<1>3. e = x - n * p
  BY <1>1, <1>2, DivMod
<1>4. PICK d \in Int : d = p - q
  OBVIOUS
<1>5. n * d = r - e
  BY <1>3, <1>4
<1>6. d = 0
  <2>1. CASE d >= 1
    <3>1. n * d >= n
      BY <2>1
    <3> QED
      BY <3>1, <1>5
  <2>2. CASE d <= -1
    <3>1. n * d <= -n
      BY <2>2
    <3> QED
      BY <3>1, <1>5
  <2> QED
    BY <2>1, <2>2
<1> QED
  BY <1>2, <1>5, <1>6

(* The remainder of the next number: one more, or back to 0.               *)
LEMMA ModNext ==
    ASSUME NEW i \in Nat, NEW n \in Nat, n > 0
    PROVE  (i + 1) % n = IF i % n = n - 1 THEN 0 ELSE (i % n) + 1
<1>1. PICK q \in Nat : q = i \div n
  OBVIOUS
<1>2. PICK r \in 0 .. n - 1 : r = i % n
  OBVIOUS
<1>3. i = n * q + r
  BY <1>1, <1>2, DivMod
<1>4. CASE r = n - 1
  <2>1. i + 1 = n * (q + 1) + 0 /\ q + 1 \in Nat /\ 0 \in 0 .. n - 1 /\ i + 1 \in Nat
    BY <1>3, <1>4
  <2>2. (i + 1) % n = 0
    BY <2>1, ModUnique
  <2> QED
    BY <1>2, <1>4, <2>2
<1>5. CASE r # n - 1
  <2>1. i + 1 = n * q + (r + 1) /\ r + 1 \in 0 .. n - 1 /\ i + 1 \in Nat
    BY <1>3, <1>5
  <2>2. (i + 1) % n = r + 1
    BY <2>1, ModUnique
  <2> QED
    BY <1>2, <1>5, <2>2
<1> QED
  BY <1>4, <1>5

(* A quotient is bounded by the factor its dividend is bounded by.         *)
LEMMA DivBound ==
    ASSUME NEW s \in Nat, NEW n \in Nat \ {0}, NEW b \in Nat, s <= b * n
    PROVE  s \div n \in 0 .. b
OBVIOUS

-----------------------------------------------------------------------------
(* Sums.                                                                   *)

(* The element a fold takes next.                                          *)
Chosen(s) == CHOOSE x \in s : TRUE

(* The sum over s, if sums has those over smaller sets.                    *)
SumStep(g, sums, s) == IF s = {} THEN 0 ELSE g[Chosen(s)] + sums[s \ {Chosen(s)}]

(* The function of the fold, and its value at the whole set.               *)
Sums(g, S) == CHOOSE sums : sums = [s \in SUBSET S |-> SumStep(g, sums, s)]
SumOver(g, S) == Sums(g, S)[S]

(* SumFunction and FoldSeq are this sum.                                   *)
LEMMA SumFunctionIsSum ==
    ASSUME NEW g
    PROVE  SumFunction(g) = SumOver(g, DOMAIN g)
BY Zenon DEF SumFunction, SumFunctionOnSet, FoldFunctionOnSet, MapThenFoldSet,
             SumOver, Sums, SumStep, Chosen

LEMMA FoldSeqIsSum ==
    ASSUME NEW s
    PROVE  FoldSeq(+, 0, s) = SumOver(s, DOMAIN s)
BY Zenon DEF FoldSeq, FoldFunction, FoldFunctionOnSet, MapThenFoldSet,
             SumOver, Sums, SumStep, Chosen

-----------------------------------------------------------------------------
(* What the fold takes out of a set is in it.                              *)
LEMMA ChosenIn ==
    ASSUME NEW s, s # {}
    PROVE  Chosen(s) \in s
BY DEF Chosen

(* Without one of its elements a finite set is smaller by one.             *)
LEMMA OneLess ==
    ASSUME NEW s, IsFiniteSet(s), NEW x \in s
    PROVE  /\ IsFiniteSet(s \ {x})
           /\ Cardinality(s \ {x}) \in Nat /\ Cardinality(s) \in Nat
           /\ Cardinality(s) = Cardinality(s \ {x}) + 1
<1>1. IsFiniteSet(s \ {x}) /\ Cardinality(s \ {x}) = Cardinality(s) - 1
  BY FS_RemoveElement, Zenon
<1>2. Cardinality(s) \in Nat /\ Cardinality(s \ {x}) \in Nat
  BY <1>1, FS_CardinalityType, Zenon
<1> QED
  BY <1>1, <1>2

(* The subsets of at most n elements.                                      *)
UpTo(S, n) == {s \in SUBSET S : Cardinality(s) <= n}

(* A step of the fold leads from such a set to a smaller one.              *)
LEMMA StepsDown ==
    ASSUME NEW S, IsFiniteSet(S), NEW n \in Nat, NEW s \in UpTo(S, n + 1), s # {}
    PROVE  s \ {Chosen(s)} \in UpTo(S, n)
<1>1. IsFiniteSet(s)
  BY FS_Subset DEF UpTo
<1>2. Chosen(s) \in s
  BY ChosenIn
<1> QED
  BY <1>1, <1>2, OneLess DEF UpTo

(* The recursive definition has a solution.                                *)
LEMMA SumsExist ==
    ASSUME NEW g, NEW S, IsFiniteSet(S)
    PROVE  \A s \in SUBSET S : Sums(g, S)[s] = SumStep(g, Sums(g, S), s)
<1> DEFINE Good == {n \in Nat : \E sums : sums = [s \in UpTo(S, n) |-> SumStep(g, sums, s)]}
<1>1. 0 \in Good
  <2> DEFINE zero == [s \in UpTo(S, 0) |-> 0]
  <2>1. \A s \in UpTo(S, 0) : s = {}
    BY FS_Subset, FS_EmptySet, FS_CardinalityType DEF UpTo
  <2>2. \A s \in UpTo(S, 0) : SumStep(g, zero, s) = 0
    BY <2>1 DEF SumStep
  <2>3. zero = [s \in UpTo(S, 0) |-> SumStep(g, zero, s)]
    BY <2>2
  <2> QED
    BY <2>3
<1>2. ASSUME NEW n \in Nat, n \in Good PROVE n + 1 \in Good
  <2>1. PICK f : f = [s \in UpTo(S, n) |-> SumStep(g, f, s)]
    BY <1>2, Zenon
  <2> DEFINE h == [s \in UpTo(S, n + 1) |-> SumStep(g, f, s)]
  <2>2. UpTo(S, n) \subseteq UpTo(S, n + 1)
    BY FS_Subset, FS_CardinalityType DEF UpTo
  <2>3. \A s \in UpTo(S, n) : h[s] = f[s]
    <3>1. \A s \in UpTo(S, n) : f[s] = SumStep(g, f, s)
      BY <2>1, Zenon
    <3>2. \A s \in UpTo(S, n) : h[s] = SumStep(g, f, s)
      BY <2>2, Zenon
    <3> QED
      BY <3>1, <3>2, Zenon
  <2>4. \A s \in UpTo(S, n + 1) : SumStep(g, f, s) = SumStep(g, h, s)
    <3> HIDE DEF h
    <3> QED
      BY <2>3, StepsDown, Zenon DEF SumStep
  <2>5. h = [s \in UpTo(S, n + 1) |-> SumStep(g, h, s)]
    <3>1. h = [s \in UpTo(S, n + 1) |-> SumStep(g, f, s)]
      OBVIOUS
    <3> HIDE DEF h
    <3>2. [s \in UpTo(S, n + 1) |-> SumStep(g, f, s)] = [s \in UpTo(S, n + 1) |-> SumStep(g, h, s)]
      BY <2>4, Zenon
    <3> QED
      BY <3>1, <3>2, Zenon
  <2>6. \E sums : sums = [s \in UpTo(S, n + 1) |-> SumStep(g, sums, s)]
    BY <2>5, Zenon
  <2>7. n + 1 \in Nat
    OBVIOUS
  <2> QED
    BY <2>6, <2>7, Zenon
<1>3. Nat \subseteq Good
  <2> HIDE DEF Good
  <2> QED
    BY <1>1, <1>2, SetInduction, Zenon
<1>4. Cardinality(S) \in Nat /\ UpTo(S, Cardinality(S)) = SUBSET S
  BY FS_Subset, FS_CardinalityType DEF UpTo
<1>5. \E sums : sums = [s \in UpTo(S, Cardinality(S)) |-> SumStep(g, sums, s)]
  BY <1>3, <1>4, Zenon
<1>6. \E sums : sums = [s \in SUBSET S |-> SumStep(g, sums, s)]
  BY <1>4, <1>5, Zenon
<1> DEFINE a == Sums(g, S)
<1>7. a = [s \in SUBSET S |-> SumStep(g, a, s)]
  BY <1>6, Zenon DEF Sums
<1> HIDE DEF a
<1>8. \A s \in SUBSET S : a[s] = SumStep(g, a, s)
  BY <1>7, Zenon
<1> QED
  BY <1>8, Zenon DEF a

-----------------------------------------------------------------------------
(* A sum over part of a set, in terms of the whole; and only the values on *)
(* the part matter.                                                        *)
LEMMA SumsAgree ==
    ASSUME NEW g, NEW h, NEW S, IsFiniteSet(S), NEW T \in SUBSET S,
           \A x \in T : g[x] = h[x]
    PROVE  \A s \in SUBSET T : Sums(g, S)[s] = Sums(h, T)[s]
<1> DEFINE Good == {n \in Nat : \A s \in UpTo(T, n) : Sums(g, S)[s] = Sums(h, T)[s]}
<1>1. IsFiniteSet(T)
  BY FS_Subset
<1>2. \A s \in SUBSET T : /\ Sums(g, S)[s] = SumStep(g, Sums(g, S), s)
                          /\ Sums(h, T)[s] = SumStep(h, Sums(h, T), s)
  <2>1. \A s \in SUBSET S : Sums(g, S)[s] = SumStep(g, Sums(g, S), s)
    BY SumsExist
  <2>2. \A s \in SUBSET T : Sums(h, T)[s] = SumStep(h, Sums(h, T), s)
    BY <1>1, SumsExist
  <2>3. SUBSET T \subseteq SUBSET S
    OBVIOUS
  <2> QED
    BY <2>1, <2>2, <2>3, Zenon
<1>3. 0 \in Good
  <2>1. \A s \in UpTo(T, 0) : s = {}
    BY <1>1, FS_Subset, FS_EmptySet, FS_CardinalityType DEF UpTo
  <2>2. {} \in SUBSET T
    OBVIOUS
  <2>3. Sums(g, S)[{}] = 0 /\ Sums(h, T)[{}] = 0
    BY <1>2, <2>2, Zenon DEF SumStep
  <2>4. \A s \in UpTo(T, 0) : Sums(g, S)[s] = Sums(h, T)[s]
    BY <2>1, <2>3, Zenon
  <2> QED
    BY <2>4
<1>4. ASSUME NEW n \in Nat, n \in Good PROVE n + 1 \in Good
  <2>1. ASSUME NEW s \in UpTo(T, n + 1) PROVE Sums(g, S)[s] = Sums(h, T)[s]
    <3>1. s \in SUBSET T
      BY DEF UpTo
    <3>2. CASE s = {}
      BY <1>2, <3>1, <3>2, Zenon DEF SumStep
    <3>3. CASE s # {}
      <4>1. Sums(g, S)[s \ {Chosen(s)}] = Sums(h, T)[s \ {Chosen(s)}]
        BY <1>1, <1>4, <3>3, StepsDown, Zenon
      <4>2. g[Chosen(s)] = h[Chosen(s)]
        BY <3>1, <3>3, ChosenIn, Zenon
      <4> QED
        BY <1>2, <3>1, <3>3, <4>1, <4>2, Zenon DEF SumStep
    <3> QED
      BY <3>2, <3>3
  <2>2. n + 1 \in Nat
    OBVIOUS
  <2> QED
    BY <2>1, <2>2, Zenon
<1>5. Nat \subseteq Good
  <2> HIDE DEF Good
  <2> QED
    BY <1>3, <1>4, SetInduction, Zenon
<1>6. Cardinality(T) \in Nat /\ UpTo(T, Cardinality(T)) = SUBSET T
  BY <1>1, FS_Subset, FS_CardinalityType DEF UpTo
<1> QED
  BY <1>5, <1>6, Zenon

(* Two functions that agree on a set have the same sum over it.            *)
LEMMA SumCongruence ==
    ASSUME NEW g, NEW h, NEW S, IsFiniteSet(S), \A x \in S : g[x] = h[x]
    PROVE  SumOver(g, S) = SumOver(h, S)
<1>1. S \in SUBSET S
  OBVIOUS
<1>2. \A s \in SUBSET S : Sums(g, S)[s] = Sums(h, S)[s]
  BY <1>1, SumsAgree
<1> QED
  BY <1>1, <1>2, Zenon DEF SumOver

(* The sum of nothing.                                                     *)
LEMMA SumEmpty ==
    ASSUME NEW g
    PROVE  SumOver(g, {}) = 0
<1>1. IsFiniteSet({})
  BY FS_EmptySet, Zenon
<1>2. {} \in SUBSET {}
  OBVIOUS
<1>3. \A s \in SUBSET {} : Sums(g, {})[s] = SumStep(g, Sums(g, {}), s)
  BY <1>1, SumsExist
<1>4. Sums(g, {})[{}] = SumStep(g, Sums(g, {}), {})
  BY <1>2, <1>3, Zenon
<1> QED
  BY <1>4, Zenon DEF SumOver, SumStep

(* The recursive equation.                                                 *)
LEMMA SumNonempty ==
    ASSUME NEW g, NEW S, IsFiniteSet(S), S # {}
    PROVE  SumOver(g, S) = g[Chosen(S)] + SumOver(g, S \ {Chosen(S)})
<1> DEFINE T == S \ {Chosen(S)}
<1>1. \A s \in SUBSET S : Sums(g, S)[s] = SumStep(g, Sums(g, S), s)
  BY SumsExist
<1>2. T \in SUBSET S /\ S \in SUBSET S /\ T \in SUBSET T
  OBVIOUS
<1>3. \A s \in SUBSET T : Sums(g, S)[s] = Sums(g, T)[s]
  <2> HIDE DEF T
  <2> QED
    BY <1>2, SumsAgree
<1>4. Sums(g, S)[S] = g[Chosen(S)] + Sums(g, S)[T]
  BY <1>1, <1>2, Zenon DEF SumStep
<1>5. Sums(g, S)[T] = Sums(g, T)[T]
  BY <1>2, <1>3, Zenon
<1> QED
  BY <1>4, <1>5, Zenon DEF SumOver

-----------------------------------------------------------------------------
(* Induction over the size of the subsets of a finite set: P has the       *)
(* subsets that are done.                                                  *)
LEMMA SubsetInduction ==
    ASSUME NEW S, IsFiniteSet(S), NEW P, {} \in P,
           \A s \in SUBSET S : s # {} /\ (\A x \in s : s \ {x} \in P) => s \in P
    PROVE  \A s \in SUBSET S : s \in P
<1> DEFINE Good == {n \in Nat : \A s \in UpTo(S, n) : s \in P}
<1>1. 0 \in Good
  <2>1. \A s \in UpTo(S, 0) : s = {}
    BY FS_Subset, FS_EmptySet, FS_CardinalityType DEF UpTo
  <2> QED
    BY <2>1
<1>2. ASSUME NEW n \in Nat, n \in Good PROVE n + 1 \in Good
  <2>1. ASSUME NEW s \in UpTo(S, n + 1) PROVE s \in P
    <3>1. s \in SUBSET S
      BY DEF UpTo
    <3>2. IsFiniteSet(s)
      BY <3>1, FS_Subset
    <3>3. \A x \in s : s \ {x} \in UpTo(S, n)
      BY <3>1, <3>2, OneLess DEF UpTo
    <3>4. \A x \in s : s \ {x} \in P
      BY <1>2, <3>3, Zenon
    <3> QED
      BY <3>1, <3>4, Zenon
  <2>2. n + 1 \in Nat
    OBVIOUS
  <2> QED
    BY <2>1, <2>2, Zenon
<1>3. Nat \subseteq Good
  <2> HIDE DEF Good
  <2> QED
    BY <1>1, <1>2, SetInduction, Zenon
<1>4. Cardinality(S) \in Nat /\ UpTo(S, Cardinality(S)) = SUBSET S
  BY FS_Subset, FS_CardinalityType DEF UpTo
<1> QED
  BY <1>3, <1>4, Zenon

(* A sum of integers is an integer.                                        *)
LEMMA SumInt ==
    ASSUME NEW g, NEW S, IsFiniteSet(S), \A x \in S : g[x] \in Int
    PROVE  SumOver(g, S) \in Int
<1> DEFINE P == {s \in SUBSET S : SumOver(g, s) \in Int}
<1>1. {} \in P
  BY SumEmpty
<1>2. ASSUME NEW s \in SUBSET S, s # {}, \A x \in s : s \ {x} \in P PROVE s \in P
  <2>1. IsFiniteSet(s) /\ Chosen(s) \in s
    BY <1>2, FS_Subset, ChosenIn
  <2>2. SumOver(g, s) = g[Chosen(s)] + SumOver(g, s \ {Chosen(s)})
    BY <1>2, <2>1, SumNonempty
  <2>3. SumOver(g, s \ {Chosen(s)}) \in Int /\ g[Chosen(s)] \in Int
    BY <1>2, <2>1
  <2>4. SumOver(g, s) \in Int
    BY <2>2, <2>3
  <2> QED
    BY <2>4
<1>3. \A s \in SUBSET S : s \in P
  <2> HIDE DEF P
  <2> QED
    BY <1>1, <1>2, SubsetInduction, Zenon
<1> QED
  BY <1>3

(* No sum of naturals is more than so many times the greatest of them.     *)
LEMMA SumBound ==
    ASSUME NEW g, NEW S, IsFiniteSet(S), NEW b \in Nat, \A x \in S : g[x] \in 0 .. b
    PROVE  SumOver(g, S) \in Nat /\ SumOver(g, S) <= b * Cardinality(S)
<1> DEFINE P == {s \in SUBSET S : SumOver(g, s) \in Nat /\ SumOver(g, s) <= b * Cardinality(s)}
<1>1. {} \in P
  BY SumEmpty, FS_EmptySet
<1>2. ASSUME NEW s \in SUBSET S, s # {}, \A x \in s : s \ {x} \in P PROVE s \in P
  <2>1. IsFiniteSet(s) /\ Chosen(s) \in s
    BY <1>2, FS_Subset, ChosenIn
  <2> DEFINE r == s \ {Chosen(s)}
  <2>2. SumOver(g, s) = g[Chosen(s)] + SumOver(g, r)
    BY <1>2, <2>1, SumNonempty
  <2>3. /\ SumOver(g, r) \in Nat /\ SumOver(g, r) <= b * Cardinality(r)
        /\ g[Chosen(s)] \in 0 .. b
    BY <1>2, <2>1
  <2>4. Cardinality(r) \in Nat /\ Cardinality(s) = Cardinality(r) + 1
    BY <2>1, OneLess
  <2> HIDE DEF r
  <2>5. b * Cardinality(s) = b * Cardinality(r) + b
    BY <2>4
  <2>6. b * Cardinality(r) \in Nat
    BY <2>4
  <2>7. SumOver(g, s) \in Nat /\ SumOver(g, s) <= b * Cardinality(s)
    BY <2>2, <2>3, <2>5, <2>6
  <2> QED
    BY <2>7
<1>3. \A s \in SUBSET S : s \in P
  <2> HIDE DEF P
  <2> QED
    BY <1>1, <1>2, SubsetInduction, Zenon
<1> QED
  BY <1>3

(* Any element may be taken out first.                                     *)
LEMMA SumTakeOut ==
    ASSUME NEW g, NEW S, IsFiniteSet(S), \A x \in S : g[x] \in Int, NEW e \in S
    PROVE  SumOver(g, S) = g[e] + SumOver(g, S \ {e})
<1> DEFINE P == {s \in SUBSET S : \A x \in s : SumOver(g, s) = g[x] + SumOver(g, s \ {x})}
<1>1. {} \in P
  OBVIOUS
<1>2. ASSUME NEW s \in SUBSET S, s # {}, \A x \in s : s \ {x} \in P PROVE s \in P
  <2>1. IsFiniteSet(s) /\ Chosen(s) \in s
    BY <1>2, FS_Subset, ChosenIn
  <2>2. PICK c : c = Chosen(s)
    OBVIOUS
  <2>3. SumOver(g, s) = g[c] + SumOver(g, s \ {c})
    BY <1>2, <2>1, <2>2, SumNonempty
  <2>4. ASSUME NEW x \in s, x # c PROVE SumOver(g, s) = g[x] + SumOver(g, s \ {x})
    <3> DEFINE r == s \ {x, c}
    <3>1. (s \ {c}) \ {x} = r /\ (s \ {x}) \ {c} = r /\ x \in s \ {c} /\ c \in s \ {x}
      BY <2>1, <2>2, <2>4
    <3>2. s \ {c} \in P /\ s \ {x} \in P
      BY <1>2, <2>1, <2>2
    <3>3. SumOver(g, s \ {c}) = g[x] + SumOver(g, (s \ {c}) \ {x})
      BY <3>1, <3>2, Zenon
    <3>4. SumOver(g, s \ {x}) = g[c] + SumOver(g, (s \ {x}) \ {c})
      BY <3>1, <3>2, Zenon
    <3>5. IsFiniteSet(r) /\ r \in SUBSET S
      BY FS_Subset
    <3>6. SumOver(g, r) \in Int
      BY <3>5, SumInt
    <3>7. g[x] \in Int /\ g[c] \in Int
      BY <2>1, <2>2
    <3>8. /\ SumOver(g, s \ {c}) = g[x] + SumOver(g, r)
          /\ SumOver(g, s \ {x}) = g[c] + SumOver(g, r)
      BY <3>1, <3>3, <3>4, Zenon
    <3> HIDE DEF r
    <3> QED
      BY <2>3, <3>6, <3>7, <3>8
  <2>5. \A x \in s : SumOver(g, s) = g[x] + SumOver(g, s \ {x})
    BY <2>3, <2>4, Zenon
  <2> QED
    BY <2>5
<1>3. \A s \in SUBSET S : s \in P
  <2> HIDE DEF P
  <2> QED
    BY <1>1, <1>2, SubsetInduction, Zenon
<1>4. S \in P
  BY <1>3
<1> QED
  BY <1>4, Zenon

(* A sum does not depend on how its terms are numbered: b renumbers them.  *)
LEMMA SumRenumbered ==
    ASSUME NEW g, NEW h, NEW b, NEW S, IsFiniteSet(S),
           \A x, y \in S : b[x] = b[y] => x = y,
           \A x \in S : g[x] \in Int /\ h[b[x]] = g[x]
    PROVE  SumOver(g, S) = SumOver(h, {b[x] : x \in S})
<1> DEFINE Img(s) == {b[x] : x \in s}
           P == {s \in SUBSET S : IsFiniteSet(Img(s)) /\ SumOver(g, s) = SumOver(h, Img(s))}
<1>1. {} \in P
  <2>1. Img({}) = {}
    OBVIOUS
  <2>2. IsFiniteSet(Img({})) /\ SumOver(g, {}) = SumOver(h, Img({}))
    BY <2>1, SumEmpty, FS_EmptySet
  <2> QED
    BY <2>2
<1>2. ASSUME NEW s \in SUBSET S, s # {}, \A x \in s : s \ {x} \in P PROVE s \in P
  <2>1. IsFiniteSet(s) /\ Chosen(s) \in s
    BY <1>2, FS_Subset, ChosenIn
  <2>2. PICK c : c = Chosen(s)
    OBVIOUS
  <2>3. SumOver(g, s) = g[c] + SumOver(g, s \ {c})
    BY <1>2, <2>1, <2>2, SumNonempty
  <2>4. SumOver(g, s \ {c}) = SumOver(h, Img(s \ {c}))
    BY <1>2, <2>1, <2>2
  <2>5. Img(s) \ {b[c]} = Img(s \ {c})
    BY <2>1, <2>2
  <2>6. IsFiniteSet(Img(s))
    <3>1. IsFiniteSet(Img(s \ {c}))
      BY <1>2, <2>1, <2>2
    <3>2. Img(s) = Img(s \ {c}) \cup {b[c]}
      BY <2>1, <2>2
    <3> HIDE DEF Img
    <3>3. \A x : IsFiniteSet(Img(s \ {c}) \cup {x})
      BY <3>1, FS_AddElement, Zenon
    <3> QED
      BY <3>2, <3>3, Zenon
  <2>7. b[c] \in Img(s) /\ \A y \in Img(s) : h[y] \in Int
    BY <2>1, <2>2
  <2>8. SumOver(h, Img(s)) = h[b[c]] + SumOver(h, Img(s) \ {b[c]})
    <3> HIDE DEF Img
    <3> QED
      BY <2>6, <2>7, SumTakeOut
  <2>9. h[b[c]] = g[c]
    BY <2>1, <2>2
  <2>10. SumOver(g, s) = SumOver(h, Img(s))
    BY <2>3, <2>4, <2>5, <2>8, <2>9, Zenon
  <2> QED
    BY <2>6, <2>10
<1>3. \A s \in SUBSET S : s \in P
  <2> HIDE DEF P
  <2> QED
    BY <1>1, <1>2, SubsetInduction, Zenon
<1>4. S \in P
  BY <1>3
<1> QED
  BY <1>4, Zenon
==============================================================================
