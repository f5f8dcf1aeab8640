---------------------------- MODULE NumberLemmas ----------------------------
(***************************************************************************)
(* What the proofs know of natural numbers: division, order, induction,    *)
(* the sum of the values of a function with a finite domain, and the       *)
(* elements of a finite set put in order.                                  *)
(***************************************************************************)
EXTENDS Integers, FiniteSetTheorems, TLAPS

(* Division on naturals is the floor of the quotient... *)
LEMMA Floor ==
  ASSUME NEW a \in Nat, NEW b \in Nat, b > 0
  PROVE  /\ a \div b \in Nat
         /\ (a \div b) * b <= a
  OBVIOUS

(* ... and the largest such number. *)
LEMMA FloorLargest ==
  ASSUME NEW a \in Nat, NEW b \in Nat, b > 0, NEW q \in Nat, q * b <= a
  PROVE  q <= a \div b
  OBVIOUS

(* Multiplication by a positive number preserves and reflects the order. *)
LEMMA Scale ==
  ASSUME NEW a \in Int, NEW b \in Int, NEW c \in Nat
  PROVE  /\ a <= b => a * c <= b * c
         /\ (c > 0 /\ a * c <= b * c) => a <= b
         /\ (c > 0 /\ a * c < b * c) => a < b
  OBVIOUS

(* A quotient stays within a bound that holds before the division. *)
LEMMA FloorBound ==
  ASSUME NEW a \in Nat, NEW b \in Nat, b > 0, NEW q \in Nat, a <= q * b
  PROVE  a \div b <= q
<1>1. a \div b \in Nat /\ (a \div b) * b <= a
  BY Floor
<1>2. (a \div b) * b <= q * b
  BY <1>1
<1>3. QED
  BY <1>1, <1>2, Scale

(* A set of naturals has a least element. *)
LEMMA LeastElement ==
  ASSUME NEW S \in SUBSET Nat, S # {}
  PROVE  \E i \in S : \A j \in S : i <= j
<1> DEFINE R == OpToRel(<, Nat)
<1>1. IsWellFoundedOn(R, Nat)
  BY NatLessThanWellFounded
<1>2. ASSUME NEW x \in Nat, NEW y \in Nat, x < y
      PROVE  <<x, y>> \in R
  BY <1>2, Zenon DEF OpToRel
<1> HIDE DEF R
<1>3. PICK i \in S : \A y \in S : ~ (<<y, i>> \in R)
  BY <1>1, WFMin
<1>4. ASSUME NEW j \in S
      PROVE  i <= j
  <2>1. i \in Nat /\ j \in Nat
    OBVIOUS
  <2>2. ~ (j < i)
    BY <1>2, <1>3, <2>1, Zenon
  <2>3. QED
    BY <2>1, <2>2
<1>5. QED
  BY <1>4

(* Induction over the naturals, in the form of a set that is closed under  *)
(* the successor.                                                          *)
LEMMA SetInduction ==
  ASSUME NEW N \in SUBSET Nat, 0 \in N, \A n \in N : n + 1 \in N
  PROVE  N = Nat
<1> SUFFICES ASSUME N # Nat
             PROVE  FALSE
  OBVIOUS
<1>1. Nat \ N \in SUBSET Nat /\ Nat \ N # {}
  OBVIOUS
<1>2. PICK i \in Nat \ N : \A j \in Nat \ N : i <= j
  BY <1>1, LeastElement
<1>3. i # 0 /\ i - 1 \in Nat /\ i = (i - 1) + 1
  BY <1>2
<1>4. i - 1 \in N
  BY <1>2, <1>3
<1>5. QED
  BY <1>2, <1>3, <1>4

(* What the cardinality of a subset tells. *)
LEMMA SmallerSubset ==
  ASSUME NEW S, IsFiniteSet(S), NEW s \in SUBSET S
  PROVE  /\ Cardinality(s) \in Nat
         /\ Cardinality(s) = 0 <=> s = {}
         /\ \A x \in s : Cardinality(s \ {x}) = Cardinality(s) - 1
<1>1. IsFiniteSet(s)
  BY FS_Subset
<1>2. QED
  BY <1>1, FS_CardinalityType, FS_EmptySet, FS_RemoveElement

(* Induction over the subsets of a finite set: from every subset with one  *)
(* element less to the subset.                                             *)
LEMMA SubsetInduction ==
  ASSUME NEW S, IsFiniteSet(S), NEW G \in SUBSET (SUBSET S), {} \in G,
         \A s \in SUBSET S : (s # {} /\ \A x \in s : s \ {x} \in G) => s \in G
  PROVE  G = SUBSET S
<1> DEFINE N == {n \in Nat : \A s \in SUBSET S : Cardinality(s) = n => s \in G}
<1>1. 0 \in N
  BY SmallerSubset
<1>2. ASSUME NEW n \in N
      PROVE  n + 1 \in N
  <2>1. SUFFICES ASSUME NEW s \in SUBSET S, Cardinality(s) = n + 1
                 PROVE  s \in G
    OBVIOUS
  <2>2. s # {} /\ \A x \in s : s \ {x} \in SUBSET S /\ Cardinality(s \ {x}) = n
    BY <2>1, SmallerSubset
  <2>3. QED
    BY <2>2
<1>3. N = Nat
  <2> HIDE DEF N
  <2>1. N \in SUBSET Nat
    BY DEF N
  <2>2. QED
    BY <1>1, <1>2, <2>1, SetInduction
<1>4. QED
  BY <1>3, SmallerSubset

-----------------------------------------------------------------------------
(* Sums.  SumFunction adds the values of a function by recursion over the  *)
(* subsets of its domain, taking out the element that CHOOSE finds.        *)

Chosen(s) == CHOOSE x \in s : TRUE

IsSum(g, F, S) ==
  g = [s \in SUBSET S |-> IF s = {} THEN 0 ELSE F[Chosen(s)] + g[s \ {Chosen(s)}]]

LEMMA FoldIsSum ==
  ASSUME NEW F, NEW S
  PROVE  SumFunctionOnSet(F, S) = (CHOOSE g : IsSum(g, F, S))[S]
  BY DEF SumFunctionOnSet, FoldFunctionOnSet, MapThenFoldSet, IsSum, Chosen

(* A function that satisfies the recursion exists: functions that satisfy  *)
(* it up to a cardinality exist for every cardinality.                     *)
LEMMA SumExists ==
  ASSUME NEW S, IsFiniteSet(S), NEW F \in [S -> Nat]
  PROVE  \E g \in [SUBSET S -> Nat] : IsSum(g, F, S)
<1> DEFINE Value(g, s) == IF s = {} THEN 0 ELSE F[Chosen(s)] + g[s \ {Chosen(s)}]
           UpTo(g, n) == \A s \in SUBSET S : Cardinality(s) <= n => g[s] = Value(g, s)
           N == {n \in Nat : \E g \in [SUBSET S -> Nat] : UpTo(g, n)}
<1>a. \A s \in SUBSET S : s # {} => Chosen(s) \in s
  BY DEF Chosen
<1>1. 0 \in N
  <2>1. [s \in SUBSET S |-> 0] \in [SUBSET S -> Nat]
    OBVIOUS
  <2>2. UpTo([s \in SUBSET S |-> 0], 0)
    BY SmallerSubset
  <2>3. QED
    BY <2>1, <2>2
<1>2. ASSUME NEW n \in N
      PROVE  n + 1 \in N
  <2>1. PICK g \in [SUBSET S -> Nat] : UpTo(g, n)
    OBVIOUS
  <2> DEFINE h == [s \in SUBSET S |-> IF Cardinality(s) <= n THEN g[s] ELSE Value(g, s)]
  <2>2. h \in [SUBSET S -> Nat]
    <3>1. ASSUME NEW s \in SUBSET S
          PROVE  Value(g, s) \in Nat
      BY <1>a
    <3>2. QED
      BY <3>1
  <2>3. UpTo(h, n + 1)
    <3>1. SUFFICES ASSUME NEW s \in SUBSET S, Cardinality(s) <= n + 1
                   PROVE  h[s] = Value(h, s)
      OBVIOUS
    <3>2. h[s] = Value(g, s)
      BY <2>1
    <3>3. CASE s = {}
      BY <3>2, <3>3
    <3>4. CASE s # {}
      <4> DEFINE r == s \ {Chosen(s)}
      <4>1. r \in SUBSET S /\ Cardinality(r) <= n
        BY <1>a, <3>1, <3>4, SmallerSubset
      <4>2. h[r] = g[r]
        BY <4>1
      <4>3. QED
        BY <3>2, <3>4, <4>2
    <3>5. QED
      BY <3>3, <3>4
  <2> HIDE DEF h, UpTo
  <2>4. QED
    BY <2>2, <2>3
<1>3. N = Nat
  <2> HIDE DEF N
  <2>1. N \in SUBSET Nat
    BY DEF N
  <2>2. QED
    BY <1>1, <1>2, <2>1, SetInduction
<1>4. PICK g \in [SUBSET S -> Nat] : UpTo(g, Cardinality(S))
  BY <1>3, FS_CardinalityType
<1>5. \A s \in SUBSET S : g[s] = Value(g, s)
  BY <1>4, FS_Subset
<1>6. IsSum(g, F, S)
  BY <1>5 DEF IsSum
<1>7. QED
  BY <1>6

LEMMA SumType ==
  ASSUME NEW S, IsFiniteSet(S), NEW F \in [S -> Nat], NEW g, IsSum(g, F, S)
  PROVE  \A s \in SUBSET S : g[s] \in Nat
<1> DEFINE G == {s \in SUBSET S : g[s] \in Nat}
<1>1. {} \in G
  BY DEF IsSum
<1>2. ASSUME NEW s \in SUBSET S, s # {}, \A x \in s : s \ {x} \in G
      PROVE  s \in G
  <2>1. Chosen(s) \in s
    BY <1>2 DEF Chosen
  <2>2. g[s] = F[Chosen(s)] + g[s \ {Chosen(s)}]
    BY <1>2 DEF IsSum
  <2>3. F[Chosen(s)] \in Nat /\ g[s \ {Chosen(s)}] \in Nat
    BY <1>2, <2>1
  <2>4. QED
    BY <2>2, <2>3
<1>3. G = SUBSET S
  <2> HIDE DEF G
  <2>1. G \in SUBSET (SUBSET S)
    BY DEF G
  <2>2. QED
    BY <1>1, <1>2, <2>1, SubsetInduction
<1>4. QED
  BY <1>3

(* Any element may be taken out first. *)
LEMMA SumRemove ==
  ASSUME NEW S, IsFiniteSet(S), NEW F \in [S -> Nat], NEW g, IsSum(g, F, S)
  PROVE  \A s \in SUBSET S : \A x \in s : g[s] = F[x] + g[s \ {x}]
<1> DEFINE G == {s \in SUBSET S : \A x \in s : g[s] = F[x] + g[s \ {x}]}
<1>1. {} \in G
  OBVIOUS
<1>2. ASSUME NEW s \in SUBSET S, s # {}, \A x \in s : s \ {x} \in G
      PROVE  s \in G
  <2> DEFINE c == Chosen(s)
  <2>1. c \in s
    BY <1>2 DEF Chosen
  <2>2. g[s] = F[c] + g[s \ {c}]
    BY <1>2 DEF IsSum
  <2> HIDE DEF c
  <2>3. SUFFICES ASSUME NEW x \in s, x # c
                 PROVE  g[s] = F[x] + g[s \ {x}]
    BY <2>2
  <2>4. g[s \ {c}] = F[x] + g[(s \ {c}) \ {x}]
    BY <1>2, <2>1, <2>3
  <2>5. g[s \ {x}] = F[c] + g[(s \ {x}) \ {c}]
    BY <1>2, <2>1, <2>3
  <2>6. PICK r \in Nat : r = g[(s \ {c}) \ {x}] /\ r = g[(s \ {x}) \ {c}]
    <3>1. (s \ {c}) \ {x} = (s \ {x}) \ {c}
      OBVIOUS
    <3>2. g[(s \ {c}) \ {x}] \in Nat
      BY SumType
    <3>3. QED
      BY <3>1, <3>2
  <2>7. F[c] \in Nat /\ F[x] \in Nat
    BY <2>1
  <2>8. QED
    BY <2>2, <2>4, <2>5, <2>6, <2>7
<1>3. G = SUBSET S
  <2> HIDE DEF G
  <2>1. G \in SUBSET (SUBSET S)
    BY DEF G
  <2>2. QED
    BY <1>1, <1>2, <2>1, SubsetInduction
<1>4. QED
  BY <1>3

(* Functions that agree on a set have the same sum there. *)
LEMMA SumAgree ==
  ASSUME NEW S, IsFiniteSet(S), NEW F, NEW H, NEW g, NEW h, IsSum(g, F, S), IsSum(h, H, S)
  PROVE  \A s \in SUBSET S : (\A x \in s : F[x] = H[x]) => g[s] = h[s]
<1> DEFINE G == {s \in SUBSET S : (\A x \in s : F[x] = H[x]) => g[s] = h[s]}
<1>1. {} \in G
  BY DEF IsSum
<1>2. ASSUME NEW s \in SUBSET S, s # {}, \A x \in s : s \ {x} \in G
      PROVE  s \in G
  <2>1. Chosen(s) \in s
    BY <1>2 DEF Chosen
  <2>2. g[s] = F[Chosen(s)] + g[s \ {Chosen(s)}] /\ h[s] = H[Chosen(s)] + h[s \ {Chosen(s)}]
    BY <1>2 DEF IsSum
  <2>3. QED
    BY <1>2, <2>1, <2>2
<1>3. G = SUBSET S
  <2> HIDE DEF G
  <2>1. G \in SUBSET (SUBSET S)
    BY DEF G
  <2>2. QED
    BY <1>1, <1>2, <2>1, SubsetInduction
<1>4. QED
  BY <1>3

LEMMA ChosenSum ==
  ASSUME NEW S, IsFiniteSet(S), NEW F \in [S -> Nat]
  PROVE  \E g : IsSum(g, F, S) /\ SumFunction(F) = g[S]
<1> DEFINE g == CHOOSE g : IsSum(g, F, S)
<1>1. IsSum(g, F, S)
  <2>1. \E h : IsSum(h, F, S)
    BY SumExists
  <2>2. QED
    BY <2>1, Zenon
<1>2. SumFunction(F) = SumFunctionOnSet(F, S)
  BY DEF SumFunction
<1>3. QED
  BY <1>1, <1>2, FoldIsSum, Zenon

(* A sum of naturals is a natural, is no less than any of them, and is     *)
(* zero when they all are.                                                 *)
LEMMA SumNat ==
  ASSUME NEW S, IsFiniteSet(S), NEW F \in [S -> Nat]
  PROVE  /\ SumFunction(F) \in Nat
         /\ \A x \in S : F[x] <= SumFunction(F)
         /\ (\A x \in S : F[x] = 0) => SumFunction(F) = 0
<1>1. PICK g : IsSum(g, F, S) /\ SumFunction(F) = g[S]
  BY ChosenSum
<1>2. \A s \in SUBSET S : g[s] \in Nat
  BY <1>1, SumType
<1>3. ASSUME NEW x \in S
      PROVE  F[x] <= g[S]
  <2>1. g[S] = F[x] + g[S \ {x}]
    BY <1>1, SumRemove
  <2>2. QED
    BY <1>2, <2>1
<1>4. ASSUME \A x \in S : F[x] = 0
      PROVE  g[S] = 0
  <2> DEFINE zero == [s \in SUBSET S |-> 0]
  <2>1. \A s \in SUBSET S : s # {} => Chosen(s) \in s
    BY DEF Chosen
  <2>2. IsSum(zero, F, S)
    BY <1>4, <2>1 DEF IsSum
  <2>3. g[S] = zero[S]
    BY <1>1, <2>2, SumAgree
  <2>4. QED
    BY <2>3
<1>5. QED
  BY <1>1, <1>2, <1>3, <1>4

(* A sum changes by what one value changes. *)
LEMMA SumChange ==
  ASSUME NEW S, IsFiniteSet(S), NEW F \in [S -> Nat], NEW H \in [S -> Nat], NEW x \in S,
         \A y \in S \ {x} : H[y] = F[y]
  PROVE  SumFunction(H) = SumFunction(F) + H[x] - F[x]
<1>1. PICK g : IsSum(g, F, S) /\ SumFunction(F) = g[S]
  BY ChosenSum
<1>2. PICK h : IsSum(h, H, S) /\ SumFunction(H) = h[S]
  BY ChosenSum
<1>3. g[S] = F[x] + g[S \ {x}] /\ h[S] = H[x] + h[S \ {x}]
  BY <1>1, <1>2, SumRemove
<1>4. g[S \ {x}] = h[S \ {x}]
  BY <1>1, <1>2, SumAgree
<1>5. g[S \ {x}] \in Nat
  BY <1>1, SumType
<1>6. QED
  BY <1>1, <1>2, <1>3, <1>4, <1>5

(* What the sum of a set's terms is, one element taken out after another.  *)
SumsUp(g, F, S) ==
  /\ SumFunction(F) = g[S] /\ g[{}] = 0
  /\ \A s \in SUBSET S : g[s] \in Nat
  /\ \A s \in SUBSET S : \A x \in s : g[s] = F[x] + g[s \ {x}]

LEMMA SumSteps ==
  ASSUME NEW S, IsFiniteSet(S), NEW F \in [S -> Nat]
  PROVE  \E g : SumsUp(g, F, S)
<1>1. PICK g : IsSum(g, F, S) /\ SumFunction(F) = g[S]
  BY ChosenSum
<1>2. g[{}] = 0
  BY <1>1 DEF IsSum
<1>3. /\ \A s \in SUBSET S : g[s] \in Nat
      /\ \A s \in SUBSET S : \A x \in s : g[s] = F[x] + g[s \ {x}]
  BY <1>1, SumType, SumRemove
<1>4. QED
  BY <1>1, <1>2, <1>3 DEF SumsUp

(* What is zero may be left out of a sum. *)
LEMMA SumOfPart ==
  ASSUME NEW S, IsFiniteSet(S), NEW F \in [S -> Nat], NEW T \in SUBSET S,
         NEW H \in [T -> Nat], \A x \in T : H[x] = F[x], \A x \in S \ T : F[x] = 0
  PROVE  SumFunction(H) = SumFunction(F)
<1>1. IsFiniteSet(T)
  BY FS_Subset
<1>2. PICK g : SumsUp(g, F, S)
  BY SumSteps
<1>3. PICK h : SumsUp(h, H, T)
  BY <1>1, SumSteps
<1> DEFINE G == {s \in SUBSET S : h[s \cap T] = g[s]}
<1>4. {} \in G
  <2>1. {} \cap T = {}
    OBVIOUS
  <2>2. QED
    BY <1>2, <1>3, <2>1 DEF SumsUp
<1>5. ASSUME NEW s \in SUBSET S, s # {}, \A x \in s : s \ {x} \in G
      PROVE  s \in G
  <2>1. PICK x \in s : TRUE
    BY <1>5
  <2> DEFINE r == s \ {x}
  <2>2. h[r \cap T] = g[r] /\ r \in SUBSET S
    BY <1>5
  <2>3. g[s] = F[x] + g[r] /\ g[r] \in Nat
    BY <1>2, <2>2 DEF SumsUp
  <2>4. CASE x \in T
    <3>1. h[s \cap T] = H[x] + h[(s \cap T) \ {x}]
      BY <1>3, <2>4 DEF SumsUp
    <3>2. (s \cap T) \ {x} = r \cap T
      OBVIOUS
    <3>3. QED
      BY <2>2, <2>3, <2>4, <3>1, <3>2
  <2>5. CASE x \notin T
    <3>1. s \cap T = r \cap T
      BY <2>5
    <3>2. F[x] = 0
      BY <2>5
    <3>3. QED
      BY <2>2, <2>3, <3>1, <3>2
  <2>6. QED
    BY <2>4, <2>5
<1>6. G = SUBSET S
  <2> HIDE DEF G
  <2>1. G \in SUBSET (SUBSET S)
    BY DEF G
  <2>2. QED
    BY <1>4, <1>5, <2>1, SubsetInduction
<1>7. h[S \cap T] = g[S]
  BY <1>6
<1>8. S \cap T = T
  OBVIOUS
<1>9. QED
  BY <1>2, <1>3, <1>7, <1>8 DEF SumsUp

(* Terms of a part that, scaled, stay below the terms of the whole have a  *)
(* sum that does.                                                          *)
LEMMA SumWithin ==
  ASSUME NEW S, IsFiniteSet(S), NEW F \in [S -> Nat], NEW T, T \subseteq S, NEW H \in [T -> Nat],
         NEW c \in Nat, NEW b \in Nat, \A x \in T : H[x] * c <= F[x] * b
  PROVE  SumFunction(H) * c <= SumFunction(F) * b
<1>1. IsFiniteSet(T)
  BY FS_Subset
<1>2. PICK g : SumsUp(g, F, S)
  BY SumSteps
<1>3. PICK h : SumsUp(h, H, T)
  BY <1>1, SumSteps
<1>4. /\ SumFunction(F) = g[S] /\ g[{}] = 0
      /\ \A s \in SUBSET S : g[s] \in Nat
      /\ \A s \in SUBSET S : \A x \in s : g[s] = F[x] + g[s \ {x}]
  BY <1>2 DEF SumsUp
<1>5. /\ SumFunction(H) = h[T] /\ h[{}] = 0
      /\ \A s \in SUBSET T : h[s] \in Nat
      /\ \A s \in SUBSET T : \A x \in s : h[s] = H[x] + h[s \ {x}]
  BY <1>3 DEF SumsUp
<1> DEFINE G == {s \in SUBSET S : h[s \cap T] * c <= g[s] * b}
<1>6. {} \in G
  <2>1. h[{}] = 0 /\ g[{}] = 0 /\ {} \cap T = {}
    BY <1>4, <1>5
  <2>2. QED
    BY <2>1
<1>7. ASSUME NEW s \in SUBSET S, s # {}, \A x \in s : s \ {x} \in G
      PROVE  s \in G
  <2>1. PICK x \in s : TRUE
    BY <1>7
  <2> DEFINE r == s \ {x}
  <2>2. h[r \cap T] * c <= g[r] * b /\ r \in SUBSET S
    BY <1>7
  <2>3. g[s] = F[x] + g[r] /\ g[r] \in Nat /\ F[x] \in Nat
    BY <1>4, <2>2
  <2>4. CASE x \in T
    <3>1. h[s \cap T] = H[x] + h[(s \cap T) \ {x}]
      BY <1>5, <2>4
    <3>2. (s \cap T) \ {x} = r \cap T
      OBVIOUS
    <3>3. h[r \cap T] \in Nat /\ H[x] \in Nat
      BY <1>5, <2>4
    <3>4. H[x] * c <= F[x] * b
      BY <2>4
    <3>5. PICK hx \in Nat, hr \in Nat, fx \in Nat, gr \in Nat :
            hx = H[x] /\ hr = h[r \cap T] /\ fx = F[x] /\ gr = g[r]
      BY <2>3, <3>3
    <3>6. hx * c <= fx * b /\ hr * c <= gr * b
      BY <2>2, <3>4, <3>5
    <3>7. (hx + hr) * c <= (fx + gr) * b
      BY <3>6
    <3>8. h[s \cap T] = hx + hr /\ g[s] = fx + gr
      BY <2>3, <3>1, <3>2, <3>5
    <3>9. QED
      BY <3>7, <3>8
  <2>5. CASE x \notin T
    <3>1. s \cap T = r \cap T
      BY <2>5
    <3>2. PICK fx \in Nat, gr \in Nat : fx = F[x] /\ gr = g[r]
      BY <2>3
    <3>3. gr * b <= (fx + gr) * b
      OBVIOUS
    <3>4. h[r \cap T] * c \in Nat /\ gr * b \in Nat /\ (fx + gr) * b \in Nat
      BY <1>5
    <3>5. g[s] = fx + gr
      BY <2>3, <3>2
    <3>6. h[r \cap T] * c <= gr * b
      BY <2>2, <3>2
    <3>7. h[r \cap T] * c <= (fx + gr) * b
      BY <3>3, <3>4, <3>6
    <3>8. QED
      BY <3>1, <3>5, <3>7
  <2>6. QED
    BY <2>4, <2>5
<1>8. G = SUBSET S
  <2> HIDE DEF G
  <2>1. G \in SUBSET (SUBSET S)
    BY DEF G
  <2>2. QED
    BY <1>6, <1>7, <2>1, SubsetInduction
<1>9. h[S \cap T] * c <= g[S] * b
  BY <1>8
<1>10. S \cap T = T
  OBVIOUS
<1>11. QED
  BY <1>4, <1>5, <1>9, <1>10

-----------------------------------------------------------------------------
(* Order.  A finite set with a strict total order, given as a set of       *)
(* pairs, can be arranged, and an arrangement has every element once.      *)

StrictlyOrders(R, S) ==
  /\ \A x \in S : <<x, x>> \notin R
  /\ \A x, y \in S : x # y => <<x, y>> \in R \/ <<y, x>> \in R
  /\ \A x, y, z \in S : <<x, y>> \in R /\ <<y, z>> \in R => <<x, z>> \in R

Arranges(s, S, R) ==
  /\ s \in [1 .. Cardinality(S) -> S]
  /\ \A j, k \in DOMAIN s : j < k => <<s[j], s[k]>> \in R

LEMMA LastExists ==
  ASSUME NEW S, IsFiniteSet(S), NEW R, StrictlyOrders(R, S)
  PROVE  \A s \in SUBSET S : s # {} => \E x \in s : \A y \in s \ {x} : <<y, x>> \in R
<1> DEFINE IsLast(x, s) == x \in s /\ \A y \in s \ {x} : <<y, x>> \in R
           G == {s \in SUBSET S : s # {} => \E x \in s : IsLast(x, s)}
<1>1. {} \in G
  OBVIOUS
<1>2. ASSUME NEW s \in SUBSET S, s # {}, \A x \in s : s \ {x} \in G
      PROVE  s \in G
  <2>1. PICK x \in s : TRUE
    BY <1>2
  <2>2. CASE s = {x}
    BY <2>1, <2>2
  <2>3. CASE s # {x}
    <3>1. PICK y \in s \ {x} : IsLast(y, s \ {x})
      BY <1>2, <2>1, <2>3
    <3>2. x \in S /\ y \in S /\ x # y /\ s \ {x} \subseteq S
      BY <2>1, <3>1
    <3>3. CASE <<x, y>> \in R
      <4>1. IsLast(y, s)
        BY <3>1, <3>3
      <4>2. QED
        BY <4>1
    <3>4. CASE <<y, x>> \in R
      <4>1. \A z \in s \ {x} : <<z, x>> \in R
        BY <3>1, <3>2, <3>4 DEF StrictlyOrders
      <4>2. QED
        BY <2>1, <4>1
    <3>5. QED
      BY <3>2, <3>3, <3>4 DEF StrictlyOrders
  <2>4. QED
    BY <2>2, <2>3
<1>3. G = SUBSET S
  <2> HIDE DEF G
  <2>1. G \in SUBSET (SUBSET S)
    BY DEF G
  <2>2. QED
    BY <1>1, <1>2, <2>1, SubsetInduction
<1>4. QED
  BY <1>3

LEMMA ArrangementExists ==
  ASSUME NEW S, IsFiniteSet(S), NEW R, StrictlyOrders(R, S)
  PROVE  \E s : Arranges(s, S, R)
<1> DEFINE G == {T \in SUBSET S : \E s : Arranges(s, T, R)}
<1>1. {} \in G
  <2>1. Cardinality({}) = 0 /\ 1 .. 0 = {}
    BY FS_EmptySet
  <2>2. Arranges([k \in {} |-> k], {}, R)
    BY <2>1 DEF Arranges
  <2>3. QED
    BY <2>2
<1>2. ASSUME NEW T \in SUBSET S, T # {}, \A x \in T : T \ {x} \in G
      PROVE  T \in G
  <2>1. PICK x \in T : \A y \in T \ {x} : <<y, x>> \in R
    BY <1>2, LastExists
  <2>2. PICK s : Arranges(s, T \ {x}, R)
    BY <1>2, <2>1
  <2> DEFINE n == Cardinality(T)
             t == [k \in 1 .. n |-> IF k = n THEN x ELSE s[k]]
  <2>3. n \in Nat /\ n > 0 /\ Cardinality(T \ {x}) = n - 1
    BY <1>2, <2>1, SmallerSubset
  <2> HIDE DEF n
  <2>4. s \in [1 .. n - 1 -> T \ {x}] /\ \A j, k \in 1 .. n - 1 : j < k => <<s[j], s[k]>> \in R
    BY <2>2, <2>3 DEF Arranges
  <2>5. \A k \in 1 .. n : k = n \/ k \in 1 .. n - 1
    BY <2>3
  <2>6. t \in [1 .. n -> T]
    BY <2>1, <2>4, <2>5
  <2>7. \A j, k \in 1 .. n : j < k => <<t[j], t[k]>> \in R
    <3>1. SUFFICES ASSUME NEW j \in 1 .. n, NEW k \in 1 .. n, j < k
                   PROVE  <<t[j], t[k]>> \in R
      OBVIOUS
    <3>2. j \in 1 .. n - 1 /\ t[j] = s[j] /\ s[j] \in T \ {x}
      BY <2>3, <2>4, <3>1
    <3>3. CASE k = n
      BY <2>1, <3>2, <3>3
    <3>4. CASE k # n
      BY <2>4, <2>5, <3>1, <3>2, <3>4
    <3>5. QED
      BY <3>3, <3>4
  <2>8. Arranges(t, T, R)
    BY <2>6, <2>7 DEF Arranges, n
  <2>9. QED
    BY <2>8
<1>3. G = SUBSET S
  <2> HIDE DEF G
  <2>1. G \in SUBSET (SUBSET S)
    BY DEF G
  <2>2. QED
    BY <1>1, <1>2, <2>1, SubsetInduction
<1>4. QED
  BY <1>3

LEMMA ArrangementCovers ==
  ASSUME NEW S, IsFiniteSet(S), NEW R, StrictlyOrders(R, S), NEW s, Arranges(s, S, R)
  PROVE  /\ Cardinality(S) \in Nat
         /\ \A j, k \in 1 .. Cardinality(S) : s[j] = s[k] => j = k
         /\ \A x \in S : \E k \in 1 .. Cardinality(S) : s[k] = x
<1> DEFINE n == Cardinality(S)
<1>1. n \in Nat
  BY FS_CardinalityType
<1>2. IsFiniteSet(1 .. n) /\ Cardinality(1 .. n) = n
  BY <1>1, FS_Interval
<1>3. s \in [1 .. n -> S] /\ \A j, k \in 1 .. n : j < k => <<s[j], s[k]>> \in R
  BY DEF Arranges
<1>4. \A j, k \in 1 .. n : s[j] = s[k] => j = k
  <2>1. SUFFICES ASSUME NEW j \in 1 .. n, NEW k \in 1 .. n, s[j] = s[k], j # k
                 PROVE  FALSE
    OBVIOUS
  <2>2. <<s[j], s[j]>> \in R
    BY <1>3, <2>1
  <2>3. QED
    BY <1>3, <2>2 DEF StrictlyOrders
<1>5. s \in Injection(1 .. n, S)
  BY <1>3, <1>4 DEF Injection, IsInjective
<1>6. s \in Surjection(1 .. n, S)
  BY <1>2, <1>5, FS_Injection
<1>7. QED
  BY <1>1, <1>4, <1>6 DEF Surjection
=============================================================================
