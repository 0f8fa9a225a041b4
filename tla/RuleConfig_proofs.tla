--------------------------- MODULE RuleConfig_proofs ---------------------------
(***************************************************************************)
(* Facts about the configuration, for any weights, rules and loads: sums,  *)
(* their rounding, and what loading, escalating and ranking do to them.    *)
(***************************************************************************)
EXTENDS RuleConfig, FiniteSetTheorems, TLAPS

-----------------------------------------------------------------------------
(* Induction over the subsets of a finite set, and over the natural         *)
(* numbers, for a set in the place of a predicate: otherwise there is a     *)
(* least counterexample.                                                    *)
LEMMA SubsetInduction ==
  ASSUME NEW S, IsFiniteSet(S), NEW Good, {} \in Good,
         \A T \in SUBSET S : T # {} /\ (\A a \in T : T \ {a} \in Good) => T \in Good
  PROVE  SUBSET S \subseteq Good
<1> DEFINE Bad == {T \in SUBSET S : T \notin Good}
<1>1. SUFFICES ASSUME Bad # {} PROVE FALSE
  OBVIOUS
<1>2. IsWellFoundedOn(StrictSubsetOrdering(S), SUBSET S)
  BY FS_StrictSubsetOrderingWellFounded, FS_FiniteSubsetsOfFinite
<1>3. PICK T \in Bad : \A U \in Bad : ~(<<U, T>> \in StrictSubsetOrdering(S))
  <2>1. Bad \subseteq SUBSET S
    OBVIOUS
  <2> HIDE DEF Bad
  <2> QED
    BY <1>1, <1>2, <2>1, WFMin
<1>4. T \in SUBSET S /\ T \notin Good
  BY <1>3
<1>5. \A a \in T : <<T \ {a}, T>> \in StrictSubsetOrdering(S)
  BY <1>4 DEF StrictSubsetOrdering
<1>6. \A a \in T : T \ {a} \in Good
  BY <1>3, <1>4, <1>5
<1> QED
  BY <1>4, <1>6

LEMMA NatInduction1 ==
  ASSUME NEW Good, 0 \in Good, \A n \in Nat : n \in Good => n + 1 \in Good
  PROVE  Nat \subseteq Good
<1> DEFINE Bad == {n \in Nat : n \notin Good}
<1>1. SUFFICES ASSUME Bad # {} PROVE FALSE
  OBVIOUS
<1>2. PICK m \in Bad : \A l \in Bad : ~(<<l, m>> \in OpToRel(<, Nat))
  <2>1. Bad \subseteq Nat
    OBVIOUS
  <2> HIDE DEF Bad
  <2> QED
    BY <1>1, <2>1, NatLessThanWellFounded, WFMin, Zenon
<1>3. m \in Nat /\ m \notin Good
  BY <1>2
<1>4. m # 0 /\ m - 1 \in Nat /\ m - 1 < m /\ (m - 1) + 1 = m
  BY <1>3
<1>5. m - 1 \in Good
  BY <1>2, <1>3, <1>4 DEF OpToRel
<1> QED
  BY <1>3, <1>4, <1>5

-----------------------------------------------------------------------------
(* Sums.                                                                    *)

Sum(f, S) == SumFunctionOnSet(f, S)
Picked(s) == CHOOSE x \in s : TRUE
IsSum(h, f, S) ==
  h = [s \in SUBSET S |-> IF s = {} THEN 0 ELSE f[Picked(s)] + h[s \ {Picked(s)}]]

Recurs(h, f, S) ==
  /\ h[{}] = 0
  /\ \A s \in SUBSET S : s # {} => h[s] = f[Picked(s)] + h[s \ {Picked(s)}]

LEMMA SumIsChosen == ASSUME NEW f, NEW S PROVE Sum(f, S) = (CHOOSE h : IsSum(h, f, S))[S]
BY DEF Sum, SumFunctionOnSet, FoldFunctionOnSet, MapThenFoldSet, IsSum, Picked

LEMMA TotalIsSum == ASSUME NEW f PROVE Total(f) = Sum(f, DOMAIN f)
BY DEF Total, SumFunction, Sum

LEMMA PickedIsMember == ASSUME NEW s, s # {} PROVE Picked(s) \in s
BY DEF Picked

(* The recursion has a solution: on the subsets of up to n elements for     *)
(* every n, and so on all of them.                                          *)
LEMMA SumExists ==
  ASSUME NEW f, NEW S, IsFiniteSet(S)
  PROVE  \E h : IsSum(h, f, S)
<1> DEFINE Small(n) == {s \in SUBSET S : Cardinality(s) <= n}
           Value(g, s) == IF s = {} THEN 0 ELSE f[Picked(s)] + g[s \ {Picked(s)}]
           Upto(n, g) == g = [s \in Small(n) |-> Value(g, s)]
           Good == {n \in Nat : \E g : Upto(n, g)}
<1>1. \A s \in SUBSET S : IsFiniteSet(s) /\ Cardinality(s) \in Nat
  BY FS_Subset, FS_CardinalityType
<1>2. \A s \in SUBSET S : s # {} =>
         s \ {Picked(s)} \in SUBSET S /\ Cardinality(s \ {Picked(s)}) = Cardinality(s) - 1
  BY <1>1, PickedIsMember, FS_RemoveElement
<1>3. 0 \in Good
  <2>1. Small(0) = {{}}
    BY <1>1, FS_EmptySet
  <2>2. Upto(0, [s \in Small(0) |-> 0])
    BY <2>1
  <2> QED
    BY <2>2
<1>4. \A n \in Nat : n \in Good => n + 1 \in Good
  <2> HIDE DEF Upto
  <2> SUFFICES ASSUME NEW n \in Nat, NEW g, Upto(n, g)
               PROVE  \E k : Upto(n + 1, k)
    OBVIOUS
  <2> USE DEF Upto
  <2> DEFINE k == [s \in Small(n + 1) |-> Value(g, s)]
  <2>1. Small(n) \subseteq Small(n + 1)
    BY <1>1
  <2>2. \A s \in Small(n) : g[s] = Value(g, s) /\ k[s] = Value(g, s)
    <3> HIDE DEF Small, Value
    <3>1. g = [s \in Small(n) |-> Value(g, s)]
      BY DEF Upto
    <3> QED
      BY <2>1, <3>1
  <2>3. \A s \in Small(n + 1) : s # {} => s \ {Picked(s)} \in Small(n)
    BY <1>1, <1>2
  <2>4. \A s \in Small(n + 1) : Value(g, s) = Value(k, s)
    <3> HIDE DEF k, Small
    <3> QED
      BY <2>2, <2>3
  <2>5. k = [s \in Small(n + 1) |-> Value(k, s)]
    <3> HIDE DEF Value, Small
    <3> QED
      BY <2>4
  <2> QED
    BY <2>5
<1>5. Cardinality(S) \in Good
  <2> HIDE DEF Good
  <2> QED
    BY <1>1, <1>3, <1>4, NatInduction1
<1>6. Small(Cardinality(S)) = SUBSET S
  BY FS_Subset, FS_CardinalityType
<1>7. PICK g : Upto(Cardinality(S), g)
  BY <1>5
<1>8. IsSum(g, f, S)
  BY <1>6, <1>7 DEF IsSum
<1> QED
  BY <1>8

LEMMA IsSumSteps ==
  ASSUME NEW f, NEW S, NEW h, IsSum(h, f, S)
  PROVE  Recurs(h, f, S)
<1>1. \A s \in SUBSET S : h[s] = IF s = {} THEN 0 ELSE f[Picked(s)] + h[s \ {Picked(s)}]
  BY DEF IsSum
<1> QED
  BY <1>1, PickedIsMember DEF Recurs

LEMMA SumIsSum ==
  ASSUME NEW f, NEW S, IsFiniteSet(S)
  PROVE  \E h : Recurs(h, f, S) /\ Sum(f, S) = h[S]
<1> DEFINE h == CHOOSE h : IsSum(h, f, S)
<1>1. IsSum(h, f, S)
  BY SumExists
<1>2. Sum(f, S) = h[S]
  BY SumIsChosen
<1> QED
  BY <1>1, <1>2, IsSumSteps

(* What is summed over a part depends on the values there only. *)
LEMMA IsSumAgrees ==
  ASSUME NEW f, NEW g, NEW S, NEW T, NEW h, NEW k, Recurs(h, f, S), Recurs(k, g, T),
         NEW U, IsFiniteSet(U), U \subseteq S, U \subseteq T, \A x \in U : f[x] = g[x]
  PROVE  h[U] = k[U]
<1> DEFINE Good == {s \in SUBSET U : h[s] = k[s]}
<1>h. h[{}] = 0 /\ \A s \in SUBSET S : s # {} => h[s] = f[Picked(s)] + h[s \ {Picked(s)}]
  BY DEF Recurs
<1>k. k[{}] = 0 /\ \A s \in SUBSET T : s # {} => k[s] = g[Picked(s)] + k[s \ {Picked(s)}]
  BY DEF Recurs
<1>1. {} \in Good
  BY <1>h, <1>k
<1>2. \A s \in SUBSET U : s # {} /\ (\A a \in s : s \ {a} \in Good) => s \in Good
  <2> SUFFICES ASSUME NEW s \in SUBSET U, s # {}, \A a \in s : s \ {a} \in Good
               PROVE  h[s] = k[s]
    OBVIOUS
  <2>1. Picked(s) \in s
    BY PickedIsMember
  <2>2. s \in SUBSET S /\ s \in SUBSET T
    OBVIOUS
  <2>3. h[s] = f[Picked(s)] + h[s \ {Picked(s)}]
    BY <1>h, <2>2
  <2>4. k[s] = g[Picked(s)] + k[s \ {Picked(s)}]
    BY <1>k, <2>2
  <2> QED
    BY <2>1, <2>3, <2>4
<1>3. SUBSET U \subseteq Good
  <2> HIDE DEF Good
  <2> QED
    BY <1>1, <1>2, SubsetInduction
<1> QED
  BY <1>3

LEMMA SumOfPart ==
  ASSUME NEW f, NEW S, IsFiniteSet(S), NEW h, Recurs(h, f, S), NEW U \in SUBSET S
  PROVE  Sum(f, U) = h[U]
<1>1. IsFiniteSet(U)
  BY FS_Subset
<1>2. PICK k : Recurs(k, f, U) /\ Sum(f, U) = k[U]
  BY <1>1, SumIsSum
<1> QED
  BY <1>1, <1>2, IsSumAgrees

LEMMA SumEmpty == ASSUME NEW f PROVE Sum(f, {}) = 0
BY SumIsSum, FS_EmptySet DEF Recurs

LEMMA SumSame ==
  ASSUME NEW f, NEW g, NEW S, IsFiniteSet(S), \A x \in S : f[x] = g[x]
  PROVE  Sum(f, S) = Sum(g, S)
<1>1. PICK h : Recurs(h, f, S) /\ Sum(f, S) = h[S]
  BY SumIsSum
<1>2. PICK k : Recurs(k, g, S) /\ Sum(g, S) = k[S]
  BY SumIsSum
<1> QED
  BY <1>1, <1>2, IsSumAgrees

LEMMA SumRemovePicked ==
  ASSUME NEW f, NEW S, IsFiniteSet(S), S # {}
  PROVE  Picked(S) \in S /\ Sum(f, S) = f[Picked(S)] + Sum(f, S \ {Picked(S)})
<1>1. PICK h : Recurs(h, f, S) /\ Sum(f, S) = h[S]
  BY SumIsSum
<1>2. Picked(S) \in S /\ h[S] = f[Picked(S)] + h[S \ {Picked(S)}]
  BY <1>1, PickedIsMember DEF Recurs
<1>3. Sum(f, S \ {Picked(S)}) = h[S \ {Picked(S)}]
  BY <1>1, SumOfPart
<1> QED
  BY <1>1, <1>2, <1>3

LEMMA SumInt ==
  ASSUME NEW f, NEW S, IsFiniteSet(S), \A x \in S : f[x] \in Int
  PROVE  Sum(f, S) \in Int
<1> DEFINE Good == {s \in SUBSET S : Sum(f, s) \in Int}
<1>1. {} \in Good
  BY SumEmpty
<1>2. \A s \in SUBSET S : s # {} /\ (\A a \in s : s \ {a} \in Good) => s \in Good
  <2> SUFFICES ASSUME NEW s \in SUBSET S, s # {}, \A a \in s : s \ {a} \in Good
               PROVE  Sum(f, s) \in Int
    OBVIOUS
  <2>1. IsFiniteSet(s)
    BY FS_Subset
  <2>2. Picked(s) \in s /\ Sum(f, s) = f[Picked(s)] + Sum(f, s \ {Picked(s)})
    BY <2>1, SumRemovePicked
  <2> QED
    BY <2>2
<1>3. SUBSET S \subseteq Good
  <2> HIDE DEF Good
  <2> QED
    BY <1>1, <1>2, SubsetInduction
<1> QED
  BY <1>3

(* One element taken out, whichever. *)
LEMMA SumRemove ==
  ASSUME NEW f, NEW S, IsFiniteSet(S), \A x \in S : f[x] \in Int
  PROVE  \A a \in S : Sum(f, S) = f[a] + Sum(f, S \ {a})
<1> DEFINE Good == {s \in SUBSET S : \A a \in s : Sum(f, s) = f[a] + Sum(f, s \ {a})}
<1>1. {} \in Good
  OBVIOUS
<1>2. \A s \in SUBSET S : s # {} /\ (\A a \in s : s \ {a} \in Good) => s \in Good
  <2> SUFFICES ASSUME NEW s \in SUBSET S, s # {}, \A a \in s : s \ {a} \in Good, NEW a \in s
               PROVE  Sum(f, s) = f[a] + Sum(f, s \ {a})
    OBVIOUS
  <2> DEFINE p == Picked(s)
  <2>1. p \in s /\ Sum(f, s) = f[p] + Sum(f, s \ {p})
    BY FS_Subset, SumRemovePicked
  <2>2. CASE a # p
    <3>1. Sum(f, s \ {p}) = f[a] + Sum(f, (s \ {p}) \ {a})
      BY <2>1, <2>2
    <3>2. Sum(f, s \ {a}) = f[p] + Sum(f, (s \ {a}) \ {p})
      BY <2>1, <2>2
    <3>3. (s \ {p}) \ {a} = (s \ {a}) \ {p}
      OBVIOUS
    <3>4. f[a] \in Int /\ f[p] \in Int /\ Sum(f, (s \ {a}) \ {p}) \in Int
      BY <2>1, SumInt, FS_Subset
    <3> QED
      BY <2>1, <3>1, <3>2, <3>3, <3>4
  <2> QED
    BY <2>1, <2>2
<1>3. SUBSET S \subseteq Good
  <2> HIDE DEF Good
  <2> QED
    BY <1>1, <1>2, SubsetInduction
<1> QED
  BY <1>3

(* A linear inequality between the terms is one between the sums. *)
LEMMA SumBound ==
  ASSUME NEW f, NEW g, NEW S, IsFiniteSet(S), NEW a \in Int, NEW b \in Int, NEW d \in Int,
         \A x \in S : f[x] \in Int /\ g[x] \in Int /\ a * f[x] <= b * g[x] + d
  PROVE  a * Sum(f, S) <= b * Sum(g, S) + d * Cardinality(S)
<1> DEFINE Good == {s \in SUBSET S : a * Sum(f, s) <= b * Sum(g, s) + d * Cardinality(s)}
<1>1. {} \in Good
  BY SumEmpty, FS_EmptySet
<1>2. \A s \in SUBSET S : s # {} /\ (\A x \in s : s \ {x} \in Good) => s \in Good
  <2> SUFFICES ASSUME NEW s \in SUBSET S, NEW x \in s, s \ {x} \in Good
               PROVE  s \in Good
    OBVIOUS
  <2> DEFINE F == Sum(f, s \ {x})
             G == Sum(g, s \ {x})
             n == Cardinality(s \ {x})
  <2>1. IsFiniteSet(s) /\ IsFiniteSet(s \ {x})
    BY FS_Subset
  <2>2. Sum(f, s) = f[x] + F /\ Sum(g, s) = g[x] + G
    BY <2>1, SumRemove
  <2>3. F \in Int /\ G \in Int /\ f[x] \in Int /\ g[x] \in Int
    BY <2>1, SumInt
  <2>4. n \in Int /\ Cardinality(s) = n + 1
    BY <2>1, FS_RemoveElement, FS_CardinalityType
  <2>5. a * F <= b * G + d * n /\ a * f[x] <= b * g[x] + d
    OBVIOUS
  <2> HIDE DEF F, G, n
  <2>6. /\ a * (f[x] + F) = a * f[x] + a * F
        /\ b * (g[x] + G) = b * g[x] + b * G
        /\ d * (n + 1) = d * n + d
    BY <2>3, <2>4
  <2>7. a * Sum(f, s) <= b * Sum(g, s) + d * Cardinality(s)
    BY <2>2, <2>3, <2>4, <2>5, <2>6
  <2> QED
    BY <2>7
<1>3. SUBSET S \subseteq Good
  <2> HIDE DEF Good
  <2> QED
    BY <1>1, <1>2, SubsetInduction
<1> QED
  BY <1>3

(* Sums of terms that are sums, or differences from a constant. *)
IsPlus(f, g, h, S) == \A x \in S : g[x] \in Int /\ h[x] \in Int /\ f[x] = g[x] + h[x]
IsFrom(f, d, h, S) == \A x \in S : h[x] \in Int /\ f[x] = d - h[x]

LEMMA SumPlus ==
  ASSUME NEW f, NEW g, NEW h, NEW S, IsFiniteSet(S), IsPlus(f, g, h, S)
  PROVE  Sum(f, S) = Sum(g, S) + Sum(h, S)
<1> DEFINE Good == {s \in SUBSET S : Sum(f, s) = Sum(g, s) + Sum(h, s)}
<1>1. {} \in Good
  BY SumEmpty
<1>2. \A s \in SUBSET S : s # {} /\ (\A x \in s : s \ {x} \in Good) => s \in Good
  <2> SUFFICES ASSUME NEW s \in SUBSET S, NEW x \in s, s \ {x} \in Good
               PROVE  s \in Good
    OBVIOUS
  <2> DEFINE F == Sum(f, s \ {x})
             G == Sum(g, s \ {x})
             H == Sum(h, s \ {x})
  <2>1. IsFiniteSet(s) /\ IsFiniteSet(s \ {x})
    BY FS_Subset
  <2>2. \A y \in s : f[y] \in Int /\ g[y] \in Int /\ h[y] \in Int /\ f[y] = g[y] + h[y]
    BY DEF IsPlus
  <2>3. Sum(f, s) = f[x] + F /\ Sum(g, s) = g[x] + G /\ Sum(h, s) = h[x] + H
    BY <2>1, <2>2, SumRemove
  <2>4. F \in Int /\ G \in Int /\ H \in Int
    BY <2>1, <2>2, SumInt
  <2>5. F = G + H
    OBVIOUS
  <2> HIDE DEF F, G, H
  <2>6. Sum(f, s) = Sum(g, s) + Sum(h, s)
    BY <2>2, <2>3, <2>4, <2>5
  <2> QED
    BY <2>6
<1>3. SUBSET S \subseteq Good
  <2> HIDE DEF Good
  <2> QED
    BY <1>1, <1>2, SubsetInduction
<1> QED
  BY <1>3

LEMMA SumFrom ==
  ASSUME NEW f, NEW h, NEW d \in Int, NEW S, IsFiniteSet(S), IsFrom(f, d, h, S)
  PROVE  Sum(f, S) = d * Cardinality(S) - Sum(h, S)
<1> DEFINE Good == {s \in SUBSET S : Sum(f, s) = d * Cardinality(s) - Sum(h, s)}
<1>1. {} \in Good
  BY SumEmpty, FS_EmptySet
<1>2. \A s \in SUBSET S : s # {} /\ (\A x \in s : s \ {x} \in Good) => s \in Good
  <2> SUFFICES ASSUME NEW s \in SUBSET S, NEW x \in s, s \ {x} \in Good
               PROVE  s \in Good
    OBVIOUS
  <2> DEFINE F == Sum(f, s \ {x})
             H == Sum(h, s \ {x})
             n == Cardinality(s \ {x})
  <2>1. IsFiniteSet(s) /\ IsFiniteSet(s \ {x})
    BY FS_Subset
  <2>2. \A y \in s : f[y] \in Int /\ h[y] \in Int /\ f[y] = d - h[y]
    BY DEF IsFrom
  <2>3. Sum(f, s) = f[x] + F /\ Sum(h, s) = h[x] + H
    BY <2>1, <2>2, SumRemove
  <2>4. F \in Int /\ H \in Int
    BY <2>1, <2>2, SumInt
  <2>5. n \in Int /\ Cardinality(s) = n + 1
    BY <2>1, FS_RemoveElement, FS_CardinalityType
  <2>6. F = d * n - H
    OBVIOUS
  <2> HIDE DEF F, H, n
  <2>7. d * (n + 1) = d * n + d /\ d * n \in Int
    BY <2>5
  <2>8. Sum(f, s) = d * Cardinality(s) - Sum(h, s)
    BY <2>2, <2>3, <2>4, <2>5, <2>6, <2>7
  <2> QED
    BY <2>8
<1>3. SUBSET S \subseteq Good
  <2> HIDE DEF Good
  <2> QED
    BY <1>1, <1>2, SubsetInduction
<1> QED
  BY <1>3

LEMMA SumNat ==
  ASSUME NEW f, NEW S, IsFiniteSet(S), \A x \in S : f[x] \in Nat
  PROVE  /\ Sum(f, S) \in Nat
         /\ \A x \in S : f[x] <= Sum(f, S)
<1> DEFINE Good == {s \in SUBSET S : Sum(f, s) \in Nat}
<1>1. {} \in Good
  BY SumEmpty
<1>2. \A s \in SUBSET S : s # {} /\ (\A x \in s : s \ {x} \in Good) => s \in Good
  <2> SUFFICES ASSUME NEW s \in SUBSET S, NEW x \in s, s \ {x} \in Good
               PROVE  Sum(f, s) \in Nat
    OBVIOUS
  <2>1. Sum(f, s) = f[x] + Sum(f, s \ {x})
    BY FS_Subset, SumRemove
  <2>2. f[x] \in Nat /\ Sum(f, s \ {x}) \in Nat
    OBVIOUS
  <2> QED
    BY <2>1, <2>2
<1>3. SUBSET S \subseteq Good
  <2> HIDE DEF Good
  <2> QED
    BY <1>1, <1>2, SubsetInduction
<1>4. \A T \in SUBSET S : Sum(f, T) \in Nat
  BY <1>3
<1>5. \A x \in S : Sum(f, S) = f[x] + Sum(f, S \ {x})
  BY SumRemove
<1>6. \A x \in S : f[x] \in Nat /\ Sum(f, S \ {x}) \in Nat
  BY <1>4
<1>7. \A x \in S : f[x] <= Sum(f, S)
  <2> TAKE x \in S
  <2> DEFINE rest == Sum(f, S \ {x})
             all == Sum(f, S)
             one == f[x]
  <2>1. all = one + rest /\ one \in Nat /\ rest \in Nat
    BY <1>5, <1>6
  <2>2. one <= all
    <3> HIDE DEF rest, all, one
    <3> QED
      BY <2>1
  <2> QED
    BY <2>2
<1>8. Sum(f, S) \in Nat
  BY <1>4
<1> QED
  BY <1>7, <1>8

-----------------------------------------------------------------------------
(* Rounding.                                                                *)

LEMMA QuotientBounds ==
  ASSUME NEW a \in Int, NEW b \in Nat \ {0}
  PROVE  /\ RoundedQuotient(a, b) \in Int
         /\ 2 * b * RoundedQuotient(a, b) <= 2 * a + b
         /\ 2 * a - b <= 2 * b * RoundedQuotient(a, b)
         /\ 2 * a - b < 2 * b * RoundedQuotient(a, b)
         /\ a >= 0 => RoundedQuotient(a, b) >= 0
<1> DEFINE n == 2 * a + b
           m == 2 * b
           q == n \div m
           r == n % m
<1>1. n \in Int /\ m \in Nat \ {0}
  OBVIOUS
<1>2. q \in Int /\ r \in 0..(m - 1) /\ n = m * q + r
  <2> HIDE DEF n, m
  <2> QED
    BY <1>1
<1>3. RoundedQuotient(a, b) = q
  BY DEF RoundedQuotient
<1>4. a >= 0 => q >= 0
  <2> SUFFICES ASSUME a >= 0, q <= -1 PROVE FALSE
    BY <1>2
  <2>1. n >= 0
    OBVIOUS
  <2> HIDE DEF n, m, q, r
  <2>2. m * q <= m * (-1)
    BY <1>1, <1>2
  <2> QED
    BY <1>1, <1>2, <2>1, <2>2
<1>5. m * q <= n /\ n - m < m * q
  <2> HIDE DEF n, m, q, r
  <2> QED
    BY <1>1, <1>2
<1>6. n - m = 2 * a - b
  OBVIOUS
<1> HIDE DEF q
<1> QED
  BY <1>2, <1>3, <1>4, <1>5, <1>6

LEMMA CancelFactor ==
  ASSUME NEW s \in Nat \ {0}, NEW x \in Int, NEW y \in Int, s * x <= s * y
  PROVE  x <= y
<1> SUFFICES ASSUME x - y >= 1 PROVE FALSE
  OBVIOUS
<1> DEFINE z == x - y
<1>1. s * x = s * y + s * z
  OBVIOUS
<1>2. z \in Int /\ z >= 1
  OBVIOUS
<1> HIDE DEF z
<1>3. s * z >= s
  BY <1>2
<1>4. s * x \in Int /\ s * y \in Int /\ s * z \in Int
  BY <1>2
<1> QED
  BY <1>1, <1>3, <1>4

-----------------------------------------------------------------------------
(* Loading.                                                                 *)

LEMMA FiniteImage ==
  ASSUME NEW S, IsFiniteSet(S), NEW f
  PROVE  IsFiniteSet({f[x] : x \in S})
<1> DEFINE T == {f[x] : x \in S}
           g == [x \in S |-> f[x]]
<1>1. g \in Surjection(S, T)
  BY DEF Surjection
<1> HIDE DEF g, T
<1>2. IsFiniteSet(T)
  BY <1>1, FS_Surjection
<1> QED
  BY <1>2 DEF T

LEMMA ConfigParts ==
  ASSUME NEW c, IsConfig(c)
  PROVE  /\ IsFiniteSet(DOMAIN c.hard) /\ IsFiniteSet(DOMAIN c.scoring)
         /\ IsFiniteSet(ScoringAt(c)) /\ IsFiniteSet(ScoringNames(c))
         /\ ScoringNames(c) # {} => ScoringAt(c) # {}
         /\ Cardinality(ScoringAt(c)) \in Nat /\ Cardinality(ScoringNames(c)) \in Nat
         /\ \A n \in ScoringNames(c) : FilteredWeights(c)[n] \in Int
<1>1. /\ c.hard \in Seq({c.hard[k] : k \in DOMAIN c.hard})
      /\ c.scoring \in Seq({c.scoring[k] : k \in DOMAIN c.scoring})
  BY DEF IsConfig, IsList
<1>2. /\ DOMAIN c.hard = 1..Len(c.hard) /\ Len(c.hard) \in Nat
      /\ DOMAIN c.scoring = 1..Len(c.scoring) /\ Len(c.scoring) \in Nat
  <2> DEFINE H == {c.hard[k] : k \in DOMAIN c.hard}
             L == {c.scoring[k] : k \in DOMAIN c.scoring}
  <2>1. c.hard \in Seq(H) /\ c.scoring \in Seq(L)
    BY <1>1
  <2> HIDE DEF H, L
  <2> QED
    BY <2>1
<1>3. IsFiniteSet(DOMAIN c.hard) /\ IsFiniteSet(DOMAIN c.scoring)
  BY <1>2, FS_Interval
<1>4. IsFiniteSet(ScoringAt(c))
  BY <1>3, FS_Subset DEF ScoringAt
<1>5. IsFiniteSet(ScoringNames(c))
  <2> DEFINE f == [k \in ScoringAt(c) |-> c.scoring[k].name]
  <2>1. ScoringNames(c) = {f[k] : k \in ScoringAt(c)}
    BY DEF ScoringNames
  <2> HIDE DEF f
  <2> QED
    BY <1>4, <2>1, FiniteImage
<1>6. \A n \in ScoringNames(c) : FilteredWeights(c)[n] \in Int
  BY DEF FilteredWeights, Get, IsConfig, IsWeights
<1> QED
  BY <1>3, <1>4, <1>5, <1>6, FS_CardinalityType DEF ScoringNames

(* Names that are listed once are as many as the entries. *)
LEMMA NamesCount ==
  ASSUME NEW c, IsConfig(c),
         \A j, k \in ScoringAt(c) : j # k => c.scoring[j].name # c.scoring[k].name
  PROVE  Cardinality(ScoringNames(c)) = Cardinality(ScoringAt(c))
<1> DEFINE f == [k \in ScoringAt(c) |-> c.scoring[k].name]
<1>1. f \in Bijection(ScoringAt(c), ScoringNames(c))
  BY DEF ScoringNames, Bijection, Injection, Surjection, IsInjective
<1>2. IsFiniteSet(ScoringAt(c))
  BY ConfigParts
<1>3. ExistsBijection(ScoringAt(c), ScoringNames(c))
  BY <1>1 DEF ExistsBijection
<1> QED
  BY <1>2, <1>3, FS_Bijection

(* However the weights are resolved, their sum is within the tolerance.     *)
LEMMA ResolvedSumIsOne ==
  ASSUME NEW c, IsConfig(c), ScoringNames(c) # {}, ScoringNames(c) \subseteq ScoringRules,
         \A j, k \in ScoringAt(c) : j # k => c.scoring[j].name # c.scoring[k].name
  PROVE  /\ ~OffOne(Total(ResolvedWeights(c)))
         /\ DOMAIN ResolvedWeights(c) = ScoringNames(c)
         /\ \A n \in ScoringNames(c) : ResolvedWeights(c)[n] \in Int
<1> DEFINE N == ScoringNames(c)
           w == FilteredWeights(c)
           sum == Total(w)
           m == Cardinality(ScoringAt(c))
           r == ResolvedWeights(c)
           R == Sum(r, N)
<1>1. /\ IsFiniteSet(N) /\ DOMAIN w = N /\ \A n \in N : w[n] \in Int
      /\ Cardinality(N) = m /\ m \in Nat \ {0}
  BY ConfigParts, NamesCount, FS_EmptySet, FS_CardinalityType DEF FilteredWeights
<1>2. sum = Sum(w, N) /\ sum \in Int
  BY <1>1, TotalIsSum, SumInt
<1>3. m <= 2 * Tolerance + 1 /\ Tolerance \in Nat /\ One \in Nat \ {0}
  <2>1. IsFiniteSet(ScoringRules)
    <3> DEFINE two == {"proximity_score"} \cup {"rating_score"}
               three == two \cup {"fairness_score"}
               four == three \cup {"on_time_rate"}
               five == four \cup {"traffic_adjusted_proximity"}
    <3>1. ScoringRules = five
      BY DEF ScoringRules
    <3>2. IsFiniteSet(two)
      BY FS_Singleton, FS_Union
    <3>3. IsFiniteSet(three)
      BY <3>2, FS_AddElement
    <3>4. IsFiniteSet(four)
      BY <3>3, FS_AddElement
    <3>5. IsFiniteSet(five)
      BY <3>4, FS_AddElement
    <3> QED
      BY <3>1, <3>5
  <2>2. Cardinality(N) <= Cardinality(ScoringRules) /\ Cardinality(ScoringRules) \in Nat
    BY <2>1, FS_Subset, FS_CardinalityType
  <2> QED
    BY <1>1, <2>2, RuleConfigAssumption, RulesAssumption
<1>4. ASSUME NEW s \in Nat \ {0}, R \in Int,
             s * (2 * R) <= s * (2 * One + m), s * (2 * One - m) <= s * (2 * R)
      PROVE  ~OffOne(R)
  <2> HIDE DEF R, m
  <2>1. 2 * R <= 2 * One + m /\ 2 * One - m <= 2 * R
    BY <1>1, <1>3, <1>4, CancelFactor
  <2> QED
    BY <1>1, <1>3, <1>4, <2>1 DEF OffOne
<1>5. CASE ~OffOne(sum)
  <2>1. r = w
    BY <1>5 DEF ResolvedWeights
  <2> QED
    BY <1>1, <1>5, <2>1
<1>6. CASE OffOne(sum) /\ sum > 0
  <2>1. r = [n \in N |-> RoundedQuotient(One * w[n], sum)]
    BY <1>2, <1>6 DEF ResolvedWeights
  <2>2. \A n \in N : r[n] = RoundedQuotient(One * w[n], sum)
    BY <2>1
  <2> DEFINE a == 2 * sum
             b == 2 * One
  <2>3. \A n \in N : /\ r[n] \in Int /\ w[n] \in Int
                     /\ a * r[n] <= b * w[n] + sum
                     /\ b * w[n] <= a * r[n] + sum
    <3> SUFFICES ASSUME NEW n \in N
                 PROVE  /\ r[n] \in Int /\ w[n] \in Int
                        /\ a * r[n] <= b * w[n] + sum
                        /\ b * w[n] <= a * r[n] + sum
      OBVIOUS
    <3> DEFINE x == One * w[n]
    <3>1. w[n] \in Int /\ x \in Int /\ sum \in Nat \ {0}
      BY <1>1, <1>2, <1>3, <1>6
    <3>2. b * w[n] = 2 * x
      <4> HIDE DEF w
      <4> QED
        BY <3>1, <1>3
    <3> HIDE DEF x, w, sum, r
    <3>3. r[n] = RoundedQuotient(x, sum)
      BY <2>2 DEF x
    <3>4. r[n] \in Int /\ 2 * sum * r[n] <= 2 * x + sum /\ 2 * x - sum <= 2 * sum * r[n]
      BY <3>1, <3>3, QuotientBounds
    <3> QED
      BY <3>1, <3>2, <3>4
  <2>4. R \in Int
    BY <1>1, <2>3, SumInt
  <2>5. a * R <= b * sum + sum * m /\ b * sum <= a * R + sum * m
    <3>1. a \in Int /\ b \in Int
      BY <1>2, <1>3
    <3> HIDE DEF a, b, w, r, sum, m
    <3> QED
      BY <1>1, <1>2, <2>3, <3>1, SumBound
  <2>6. sum * (2 * R) <= sum * (2 * One + m) /\ sum * (2 * One - m) <= sum * (2 * R)
    <3> HIDE DEF R, m, sum
    <3> QED
      BY <1>1, <1>2, <1>3, <2>4, <2>5
  <2>7. ~OffOne(R)
    <3> HIDE DEF R, m, sum
    <3> QED
      BY <1>2, <1>4, <1>6, <2>4, <2>6
  <2>8. DOMAIN r = N
    BY <2>1
  <2> QED
    BY <2>3, <2>7, <2>8, TotalIsSum
<1>7. CASE OffOne(sum) /\ ~(sum > 0)
  <2> DEFINE e == RoundedQuotient(One, m)
             a == 2 * m
             up == 2 * One + m
             down == m - 2 * One
             zero == [n \in N |-> 0]
  <2>1. r = [n \in N |-> e]
    BY <1>2, <1>7 DEF ResolvedWeights
  <2>2. e \in Int /\ a * e <= up /\ 0 <= a * e + down
    <3>0. One \in Int /\ m \in Nat \ {0}
      BY <1>1, <1>3
    <3>1. e \in Int /\ 2 * m * e <= 2 * One + m /\ 2 * One - m <= 2 * m * e
      <4> HIDE DEF m
      <4> QED
        BY <3>0, QuotientBounds
    <3> HIDE DEF e, m
    <3> QED
      BY <1>1, <1>3, <3>1
  <2>3. a \in Int /\ up \in Int /\ down \in Int
    BY <1>1, <1>3
  <2>4. \A n \in N : /\ r[n] \in Int /\ zero[n] \in Int
                     /\ a * r[n] <= 0 * zero[n] + up
                     /\ 0 * zero[n] <= a * r[n] + down
    <3>1. \A n \in N : r[n] = e /\ zero[n] = 0
      BY <2>1
    <3>2. 0 * 0 = 0 /\ 0 \in Int
      OBVIOUS
    <3>3. a * e <= 0 + up /\ 0 <= a * e + down
      <4> HIDE DEF e, a, up, down
      <4> QED
        BY <2>2, <2>3
    <3> HIDE DEF zero, r, e, a, up, down, N
    <3> QED
      BY <2>2, <3>1, <3>2, <3>3
  <2>5. R \in Int /\ Sum(zero, N) \in Int
    BY <1>1, <2>4, SumInt
  <2>6. a * R <= 0 * Sum(zero, N) + up * m /\ 0 * Sum(zero, N) <= a * R + down * m
    <3>1. IsFiniteSet(N) /\ 0 \in Int
      BY <1>1
    <3> HIDE DEF a, up, down, zero, r, N
    <3>2. a * Sum(r, N) <= 0 * Sum(zero, N) + up * Cardinality(N)
      BY <3>1, <2>3, <2>4, SumBound
    <3>3. 0 * Sum(zero, N) <= a * Sum(r, N) + down * Cardinality(N)
      BY <3>1, <2>3, <2>4, SumBound
    <3> QED
      BY <1>1, <3>2, <3>3
  <2>7. m * (2 * R) <= m * (2 * One + m) /\ m * (2 * One - m) <= m * (2 * R)
    <3> HIDE DEF R, m, zero
    <3> QED
      BY <1>1, <1>3, <2>5, <2>6
  <2>8. ~OffOne(R)
    <3> HIDE DEF R, m
    <3> QED
      BY <1>1, <1>4, <2>5, <2>7
  <2>9. DOMAIN r = N
    BY <2>1
  <2> QED
    BY <2>4, <2>8, <2>9, TotalIsSum
<1> QED
  BY <1>5, <1>6, <1>7

LEMMA ResolvedAreWeights ==
  ASSUME NEW c, IsConfig(c), ScoringNames(c) # {}
  PROVE  IsWeights(ResolvedWeights(c)) /\ DOMAIN ResolvedWeights(c) = ScoringNames(c)
<1> DEFINE N == ScoringNames(c)
           w == FilteredWeights(c)
           sum == Total(w)
           m == Cardinality(ScoringAt(c))
           r == ResolvedWeights(c)
<1>1. /\ IsFiniteSet(N) /\ DOMAIN w = N /\ \A n \in N : w[n] \in Int
      /\ w = [n \in N |-> w[n]]
      /\ m \in Nat \ {0}
  BY ConfigParts, FS_EmptySet DEF FilteredWeights
<1>2. sum \in Int /\ One \in Int
  BY <1>1, TotalIsSum, SumInt, RulesAssumption
<1>3. CASE ~OffOne(sum)
  BY <1>1, <1>3 DEF ResolvedWeights, IsWeights
<1>4. CASE OffOne(sum) /\ sum > 0
  <2>1. r = [n \in N |-> RoundedQuotient(One * w[n], sum)]
    BY <1>2, <1>4 DEF ResolvedWeights
  <2>2. sum \in Nat \ {0}
    BY <1>2, <1>4
  <2>3. \A n \in N : One * w[n] \in Int
    BY <1>1, <1>2
  <2>4. \A n \in N : RoundedQuotient(One * w[n], sum) \in Int
    <3> HIDE DEF w, sum
    <3> QED
      BY <2>2, <2>3, QuotientBounds
  <2> HIDE DEF w, sum, N, r
  <2> QED
    BY <1>1, <2>1, <2>4 DEF IsWeights, r, N
<1>5. CASE OffOne(sum) /\ ~(sum > 0)
  <2>1. r = [n \in N |-> RoundedQuotient(One, m)]
    BY <1>2, <1>5 DEF ResolvedWeights
  <2>2. RoundedQuotient(One, m) \in Int
    <3> HIDE DEF m
    <3> QED
      BY <1>1, <1>2, QuotientBounds
  <2> HIDE DEF N, r, m
  <2> QED
    BY <1>1, <2>1, <2>2 DEF IsWeights, r, N
<1> QED
  BY <1>3, <1>4, <1>5

LEMMA LoadedConfig ==
  ASSUME NEW c, IsConfig(c)
  PROVE  /\ IsConfig(Loaded(c))
         /\ Loaded(c).hard = c.hard /\ Loaded(c).scoring = c.scoring
         /\ Loaded(c).compat = c.compat
         /\ Loaded(c).threshold = c.threshold /\ Loaded(c).factor = c.factor
         /\ ScoringNames(Loaded(c)) = ScoringNames(c)
         /\ ScoringAt(Loaded(c)) = ScoringAt(c)
         /\ Loaded(c).weights = IF ScoringNames(c) = {} THEN c.weights ELSE ResolvedWeights(c)
<1>1. CASE ScoringNames(c) = {}
  BY <1>1 DEF Loaded
<1>2. CASE ScoringNames(c) # {}
  <2> DEFINE w == ResolvedWeights(c)
             d == [hard |-> c.hard, scoring |-> c.scoring, weights |-> w,
                   compat |-> c.compat, threshold |-> c.threshold, factor |-> c.factor]
  <2>1. IsWeights(w)
    BY <1>2, ResolvedAreWeights
  <2> HIDE DEF w
  <2>2. Loaded(c) = [c EXCEPT !.weights = w]
    BY <1>2 DEF Loaded, w
  <2>3. Loaded(c) = d
    BY <2>2 DEF IsConfig
  <2>4. IsConfig(d)
    BY <2>1 DEF IsConfig
  <2>5. ScoringAt(d) = ScoringAt(c) /\ ScoringNames(d) = ScoringNames(c)
    BY DEF ScoringAt, ScoringNames
  <2> QED
    BY <1>2, <2>3, <2>4, <2>5 DEF w
<1> QED
  BY <1>1, <1>2

(* What was loaded once is loaded again as it is. *)
LEMMA LoadedAgain ==
  ASSUME NEW c, IsConfig(c), ScoringNames(c) \subseteq ScoringRules,
         \A j, k \in ScoringAt(c) : j # k => c.scoring[j].name # c.scoring[k].name
  PROVE  /\ Loaded(Loaded(c)) = Loaded(c)
         /\ ScoringNames(c) # {} => ResolvedWeights(Loaded(c)) = Loaded(c).weights
<1>1. CASE ScoringNames(c) = {}
  BY <1>1 DEF Loaded
<1>2. CASE ScoringNames(c) # {}
  <2> DEFINE w == ResolvedWeights(c)
             d == Loaded(c)
  <2>1. IsWeights(w) /\ DOMAIN w = ScoringNames(c) /\ ~OffOne(Total(w))
    BY <1>2, ResolvedAreWeights, ResolvedSumIsOne
  <2>2. d.weights = w /\ ScoringNames(d) = ScoringNames(c) /\ IsConfig(d)
    BY <1>2, LoadedConfig
  <2> HIDE DEF w, d
  <2>3. FilteredWeights(d) = [n \in DOMAIN w |-> w[n]]
    BY <2>1, <2>2 DEF FilteredWeights, Get
  <2>4. FilteredWeights(d) = w
    BY <2>1, <2>3 DEF IsWeights
  <2>5. ResolvedWeights(d) = w
    BY <2>1, <2>4 DEF ResolvedWeights
  <2>6. Loaded(d) = [d EXCEPT !.weights = d.weights]
    BY <1>2, <2>2, <2>5 DEF Loaded
  <2>7. [d EXCEPT !.weights = d.weights] = d
    BY <2>2 DEF IsConfig
  <2> QED
    BY <2>2, <2>5, <2>6, <2>7 DEF d
<1> QED
  BY <1>1, <1>2

-----------------------------------------------------------------------------
(* The index of inequality.                                                 *)

(* Among finitely many loads there is a last in the order of the ranks. *)
Before(x, j, i) == x[j] < x[i] \/ (x[j] = x[i] /\ j <= i)

LEMMA LastInRank ==
  ASSUME NEW D \in SUBSET Int, IsFiniteSet(D), NEW x, \A i \in D : x[i] \in Int, D # {}
  PROVE  \E m \in D : \A j \in D : Before(x, j, m)
<1> DEFINE Good == {S \in SUBSET D : S = {} \/ \E m \in S : \A j \in S : Before(x, j, m)}
<1>1. {} \in Good
  OBVIOUS
<1>2. \A S \in SUBSET D : S # {} /\ (\A a \in S : S \ {a} \in Good) => S \in Good
  <2> SUFFICES ASSUME NEW S \in SUBSET D, NEW a \in S, S \ {a} \in Good
               PROVE  \E m \in S : \A j \in S : Before(x, j, m)
    OBVIOUS
  <2>1. CASE S \ {a} = {}
    <3>1. S = {a} /\ a \in Int /\ x[a] \in Int
      BY <2>1
    <3>2. Before(x, a, a)
      BY <3>1 DEF Before
    <3> QED
      BY <3>1, <3>2
  <2>2. CASE S \ {a} # {}
    <3>1. PICK m \in S \ {a} : \A j \in S \ {a} : Before(x, j, m)
      BY <2>2
    <3>2. /\ a \in Int /\ m \in Int /\ x[a] \in Int /\ x[m] \in Int
      OBVIOUS
    <3>3. CASE Before(x, a, m)
      BY <3>1, <3>3
    <3>4. CASE ~Before(x, a, m)
      <4>1. Before(x, m, a) /\ Before(x, a, a)
        BY <3>2, <3>4 DEF Before
      <4>2. \A j \in S \ {a} : Before(x, j, a)
        <5> TAKE j \in S \ {a}
        <5>1. Before(x, j, m) /\ j \in Int /\ x[j] \in Int
          BY <3>1
        <5> QED
          BY <3>2, <4>1, <5>1 DEF Before
      <4> QED
        BY <4>1, <4>2
    <3> QED
      BY <3>3, <3>4
  <2> QED
    BY <2>1, <2>2
<1>3. SUBSET D \subseteq Good
  <2> HIDE DEF Good
  <2> QED
    BY <1>1, <1>2, SubsetInduction
<1> QED
  BY <1>3

Gap(x, i, j) == Above(x[i], x[j]) - Below(x[i], x[j])
RankIn(x, S, i) == Cardinality({j \in S : Before(x, j, i)})
RankSum(x, S) == Sum([i \in S |-> RankIn(x, S, i) * x[i]], S)
GapsTo(x, S, i) == Sum([j \in S |-> Gap(x, i, j)], S)
GapSum(x, S) == Sum([i \in S |-> GapsTo(x, S, i)], S)

LEMMA RankType ==
  ASSUME NEW x, NEW S, IsFiniteSet(S), NEW i
  PROVE  RankIn(x, S, i) \in Nat /\ RankIn(x, S, i) <= Cardinality(S)
BY FS_Subset, FS_CardinalityType DEF RankIn

LEMMA GapType ==
  ASSUME NEW x, NEW i, NEW j, x[i] \in Int, x[j] \in Int
  PROVE  /\ Gap(x, i, j) \in Nat
         /\ x[j] <= x[i] => Gap(x, i, j) = x[i] - x[j] /\ Gap(x, j, i) = x[i] - x[j]
BY DEF Gap, Above, Below

(* The last of the ranks taken out. *)
LEMMA RankSumStep ==
  ASSUME NEW S \in SUBSET Int, IsFiniteSet(S), NEW x, \A i \in S : x[i] \in Int,
         NEW m \in S, \A j \in S : Before(x, j, m)
  PROVE  /\ RankSum(x, S) = Cardinality(S) * x[m] + RankSum(x, S \ {m})
         /\ RankSum(x, S \ {m}) \in Int
<1> DEFINE U == S \ {m}
           f == [i \in S |-> RankIn(x, S, i) * x[i]]
           g == [i \in U |-> RankIn(x, U, i) * x[i]]
<1>1. IsFiniteSet(U) /\ U \subseteq S
  BY FS_Subset
<1>2. RankIn(x, S, m) = Cardinality(S)
  <2>1. {j \in S : Before(x, j, m)} = S
    OBVIOUS
  <2> QED
    BY <2>1 DEF RankIn
<1>3. \A i \in U : RankIn(x, S, i) = RankIn(x, U, i)
  <2> SUFFICES ASSUME NEW i \in U
               PROVE  RankIn(x, S, i) = RankIn(x, U, i)
    OBVIOUS
  <2>1. x[i] \in Int /\ x[m] \in Int /\ i \in Int /\ m \in Int /\ i # m
    OBVIOUS
  <2>2. Before(x, i, m)
    OBVIOUS
  <2>3. ~Before(x, m, i)
    BY <2>1, <2>2 DEF Before
  <2>4. {j \in S : Before(x, j, i)} = {j \in U : Before(x, j, i)}
    BY <2>3
  <2> QED
    BY <2>4 DEF RankIn
<1>4. \A i \in S : f[i] = RankIn(x, S, i) * x[i] /\ f[i] \in Int
  <2> TAKE i \in S
  <2>1. RankIn(x, S, i) \in Int /\ x[i] \in Int
    BY RankType
  <2> QED
    BY <2>1
<1>5. \A i \in U : g[i] = f[i]
  BY <1>3
<1> HIDE DEF f, g, U
<1>6. Sum(f, S) = f[m] + Sum(f, U)
  <2>1. \A i \in S : f[i] \in Int
    BY <1>4
  <2>2. \A i \in S : Sum(f, S) = f[i] + Sum(f, S \ {i})
    BY <2>1, SumRemove
  <2> QED
    BY <2>2 DEF U
<1>7. Sum(g, U) = Sum(f, U)
  BY <1>1, <1>5, SumSame
<1>8. Sum(f, U) \in Int
  BY <1>1, <1>4, SumInt
<1> QED
  BY <1>2, <1>4, <1>6, <1>7, <1>8 DEF RankSum, f, g, U

LEMMA GapSumStep ==
  ASSUME NEW S \in SUBSET Int, IsFiniteSet(S), NEW x, \A i \in S : x[i] \in Int,
         NEW m \in S, \A j \in S : Before(x, j, m)
  PROVE  /\ GapSum(x, S) = 2 * ((Cardinality(S) - 1) * x[m] - Sum(x, S \ {m})) + GapSum(x, S \ {m})
         /\ GapSum(x, S \ {m}) \in Int
<1> DEFINE U == S \ {m}
           gap == [j \in U |-> x[m] - x[j]]
           toM == [j \in S |-> Gap(x, m, j)]
           f == [i \in S |-> GapsTo(x, S, i)]
           g == [i \in U |-> GapsTo(x, U, i)]
           n == Cardinality(S)
<1>1. IsFiniteSet(U) /\ U \subseteq S /\ n - 1 = Cardinality(U) /\ n \in Int
  BY FS_Subset, FS_RemoveElement, FS_CardinalityType
<1>2. \A j \in S : x[j] <= x[m] /\ x[j] \in Int
  BY DEF Before
<1>g. \A i, j \in S : Gap(x, i, j) \in Int
  BY <1>2, GapType
<1>3. \A j \in U : Gap(x, m, j) = x[m] - x[j] /\ Gap(x, j, m) = x[m] - x[j]
  <2> TAKE j \in U
  <2>1. j \in S /\ x[j] <= x[m]
    BY <1>2
  <2> QED
    BY <1>2, <2>1, GapType
<1>4. Gap(x, m, m) = 0
  <2>1. Gap(x, m, m) = x[m] - x[m]
    BY <1>2, GapType
  <2> QED
    BY <1>2, <2>1
<1>5. \A j \in U : gap[j] = x[m] - x[j] /\ gap[j] \in Int
  BY <1>2
(* From m to the others. *)
<1>6. f[m] = Sum(gap, U)
  <2>1. \A j \in S : toM[j] = Gap(x, m, j) /\ toM[j] \in Int
    BY <1>g
  <2>2. \A j \in U : toM[j] = gap[j]
    BY <1>3
  <2>3. f[m] = Sum(toM, S)
    BY DEF GapsTo
  <2> HIDE DEF toM, gap, f, U
  <2>4. Sum(toM, S) = toM[m] + Sum(toM, U)
    <3>1. \A j \in S : toM[j] \in Int
      BY <2>1
    <3>2. \A j \in S : Sum(toM, S) = toM[j] + Sum(toM, S \ {j})
      BY <3>1, SumRemove
    <3> QED
      BY <3>2 DEF U
  <2>5. Sum(toM, U) = Sum(gap, U)
    BY <1>1, <2>2, SumSame
  <2>6. Sum(gap, U) \in Int
    BY <1>1, <1>5, SumInt
  <2> QED
    BY <1>4, <2>1, <2>3, <2>4, <2>5, <2>6
(* From another: to m and to the rest. *)
<1>7. \A i \in U : f[i] = g[i] + gap[i] /\ f[i] \in Int /\ g[i] \in Int
  <2> SUFFICES ASSUME NEW i \in U
               PROVE  f[i] = g[i] + gap[i] /\ f[i] \in Int /\ g[i] \in Int
    OBVIOUS
  <2> DEFINE a == [j \in S |-> Gap(x, i, j)]
             b == [j \in U |-> Gap(x, i, j)]
  <2>1. \A j \in S : a[j] = Gap(x, i, j) /\ a[j] \in Int
    BY <1>g
  <2>2. \A j \in U : a[j] = b[j]
    OBVIOUS
  <2>3. f[i] = Sum(a, S) /\ g[i] = Sum(b, U)
    BY DEF GapsTo
  <2>4. a[m] = gap[i]
    BY <1>3
  <2> HIDE DEF a, b, f, g, U, gap
  <2>5. Sum(a, S) = a[m] + Sum(a, U)
    <3>1. \A j \in S : a[j] \in Int
      BY <2>1
    <3>2. \A j \in S : Sum(a, S) = a[j] + Sum(a, S \ {j})
      BY <3>1, SumRemove
    <3> QED
      BY <3>2 DEF U
  <2>6. Sum(a, U) = Sum(b, U)
    BY <1>1, <2>2, SumSame
  <2>7. Sum(a, U) \in Int /\ gap[i] \in Int
    BY <1>1, <1>5, <2>1, SumInt
  <2> QED
    BY <2>3, <2>4, <2>5, <2>6, <2>7
<1>8. Sum(f, U) = Sum(g, U) + Sum(gap, U)
  <2> HIDE DEF f, g, U, gap
  <2>1. IsPlus(f, g, gap, U)
    BY <1>5, <1>7 DEF IsPlus
  <2> QED
    BY <1>1, <2>1, SumPlus
<1>9. Sum(f, S) = f[m] + Sum(f, U)
  <2>1. \A i \in S : f[i] \in Int
    <3>1. f[m] \in Int
      <4> HIDE DEF gap, f, U
      <4> QED
        BY <1>1, <1>5, <1>6, SumInt
    <3> QED
      BY <1>7, <3>1
  <2> HIDE DEF f
  <2>2. \A i \in S : Sum(f, S) = f[i] + Sum(f, S \ {i})
    BY <2>1, SumRemove
  <2> QED
    BY <2>2
<1>10. Sum(gap, U) = x[m] * Cardinality(U) - Sum(x, U)
  <2>1. IsFrom(gap, x[m], x, U)
    BY <1>2 DEF IsFrom
  <2>2. x[m] \in Int
    BY <1>2
  <2> HIDE DEF gap, U
  <2> QED
    BY <1>1, <2>1, <2>2, SumFrom
<1>11. Sum(x, U) \in Int /\ Sum(g, U) \in Int /\ Sum(gap, U) \in Int /\ x[m] \in Int
  <2> HIDE DEF g, gap
  <2> QED
    BY <1>1, <1>2, <1>5, <1>7, SumInt
<1>12. GapSum(x, S) = Sum(f, S) /\ GapSum(x, U) = Sum(g, U)
  BY DEF GapSum
<1> HIDE DEF f, g, gap, U, n
<1>13. x[m] * Cardinality(U) = (n - 1) * x[m]
  BY <1>1, <1>11
<1>14. (n - 1) * x[m] \in Int
  BY <1>1, <1>11
<1>15. Sum(f, S) = 2 * ((n - 1) * x[m] - Sum(x, U)) + Sum(g, U)
  <2> DEFINE p == (n - 1) * x[m]
  <2>1. Sum(gap, U) = p - Sum(x, U)
    BY <1>10, <1>13
  <2>2. Sum(f, S) = Sum(gap, U) + (Sum(g, U) + Sum(gap, U))
    BY <1>6, <1>8, <1>9
  <2>3. p \in Int
    BY <1>14
  <2> HIDE DEF p
  <2>5. Sum(f, S) = 2 * (p - Sum(x, U)) + Sum(g, U)
    BY <1>11, <2>1, <2>2, <2>3
  <2> QED
    BY <2>5 DEF p
<1> QED
  BY <1>11, <1>12, <1>15 DEF U, n

(* The weighted ranks are the gaps between all pairs, added up. *)
LEMMA RanksAreGaps ==
  ASSUME NEW D \in SUBSET Int, IsFiniteSet(D), NEW x, \A i \in D : x[i] \in Int
  PROVE  /\ 4 * RankSum(x, D) - 2 * ((Cardinality(D) + 1) * Sum(x, D)) = GapSum(x, D)
         /\ RankSum(x, D) \in Int /\ Sum(x, D) \in Int /\ GapSum(x, D) \in Int
<1> DEFINE Holds(S) ==
             /\ 4 * RankSum(x, S) - 2 * ((Cardinality(S) + 1) * Sum(x, S)) = GapSum(x, S)
             /\ RankSum(x, S) \in Int /\ Sum(x, S) \in Int /\ GapSum(x, S) \in Int
           Good == {S \in SUBSET D : Holds(S)}
<1>1. {} \in Good
  <2>1. RankSum(x, {}) = 0 /\ GapSum(x, {}) = 0 /\ Sum(x, {}) = 0 /\ Cardinality({}) = 0
    BY SumEmpty, FS_EmptySet DEF RankSum, GapSum
  <2> QED
    BY <2>1
<1>2. \A S \in SUBSET D : S # {} /\ (\A a \in S : S \ {a} \in Good) => S \in Good
  <2> SUFFICES ASSUME NEW S \in SUBSET D, S # {}, \A a \in S : S \ {a} \in Good
               PROVE  Holds(S)
    OBVIOUS
  <2>1. IsFiniteSet(S) /\ S \in SUBSET Int /\ \A i \in S : x[i] \in Int
    BY FS_Subset
  <2>2. PICK m \in S : \A j \in S : Before(x, j, m)
    BY <2>1, LastInRank
  <2> DEFINE U == S \ {m}
             n == Cardinality(S)
             p == n * x[m]
             s == Sum(x, U)
             q == n * s
             R == RankSum(x, U)
             G == GapSum(x, U)
  <2>3. Holds(U)
    BY <2>2
  <2>4. n \in Int /\ Cardinality(U) = n - 1 /\ x[m] \in Int
    <3>1. Cardinality(S) \in Int
      BY <2>1, FS_CardinalityType
    <3>2. Cardinality(S \ {m}) = Cardinality(S) - 1
      BY <2>1, <2>2, FS_RemoveElement
    <3> QED
      BY <2>1, <2>2, <3>1, <3>2
  <2>5. RankSum(x, S) = p + R /\ R \in Int
    BY <2>1, <2>2, RankSumStep
  <2>6. GapSum(x, S) = 2 * ((n - 1) * x[m] - s) + G /\ G \in Int
    BY <2>1, <2>2, GapSumStep
  <2>7. Sum(x, S) = x[m] + s /\ s \in Int
    <3>1. Sum(x, S) = x[m] + Sum(x, S \ {m})
      <4>1. IsFiniteSet(S) /\ \A i \in S : x[i] \in Int
        BY <2>1
      <4> HIDE DEF Holds
      <4>2. \A a \in S : Sum(x, S) = x[a] + Sum(x, S \ {a})
        BY <4>1, SumRemove
      <4> QED
        BY <2>2, <4>2
    <3>2. Sum(x, S \ {m}) \in Int
      BY <2>3
    <3> QED
      BY <3>1, <3>2
  <2>8. 4 * R - 2 * ((n - 1 + 1) * s) = G
    BY <2>3, <2>4
  <2> HIDE DEF n, s, R, G
  <2>9. p \in Int /\ q \in Int
    BY <2>4, <2>7
  <2>10. /\ (n - 1) * x[m] = p - x[m]
         /\ (n - 1 + 1) * s = q
         /\ (n + 1) * (x[m] + s) = p + q + x[m] + s
    BY <2>4, <2>7
  <2> HIDE DEF p, q
  <2>11. GapSum(x, S) = 2 * (p - x[m] - s) + G
    BY <2>6, <2>10
  <2>12. 4 * R - 2 * q = G
    BY <2>8, <2>10
  <2>13. (n + 1) * Sum(x, S) = p + q + x[m] + s
    BY <2>7, <2>10
  <2>14. 4 * RankSum(x, S) - 2 * ((n + 1) * Sum(x, S)) = GapSum(x, S)
    BY <2>4, <2>5, <2>6, <2>7, <2>9, <2>11, <2>12, <2>13
  <2>15. RankSum(x, S) \in Int /\ Sum(x, S) \in Int /\ GapSum(x, S) \in Int
    BY <2>4, <2>5, <2>6, <2>7, <2>9, <2>11
  <2> QED
    BY <2>14, <2>15 DEF n
<1>3. SUBSET D \subseteq Good
  <2> HIDE DEF Good
  <2> QED
    BY <1>1, <1>2, SubsetInduction
<1> QED
  BY <1>3

LEMMA GiniFacts ==
  ASSUME NEW x, DOMAIN x \in SUBSET Int, IsFiniteSet(DOMAIN x), \A i \in DOMAIN x : x[i] \in Nat
  PROVE  /\ 2 * GiniNumerator(x) =
              Total([i \in DOMAIN x |->
                        Total([j \in DOMAIN x |-> Above(x[i], x[j]) - Below(x[i], x[j])])])
         /\ Total(x) > 0 => GiniNumerator(x) \in 0..GiniDenominator(x) - 1
<1> DEFINE D == DOMAIN x
           n == Cardinality(D)
           t == Sum(x, D)
           R == RankSum(x, D)
           G == GapSum(x, D)
           ranked == [i \in D |-> RankIn(x, D, i) * x[i]]
           all == [i \in D |-> GapsTo(x, D, i)]
<1>1. Total(x) = t
  BY TotalIsSum
<1>2. GiniNumerator(x) = 2 * R - (n + 1) * t
  <2>1. \A i \in D : Rank(x, i) = RankIn(x, D, i)
    BY DEF Rank, RankIn, Before
  <2>2. [i \in D |-> Rank(x, i) * x[i]] = ranked
    BY <2>1
  <2>3. Total(ranked) = R
    BY TotalIsSum DEF RankSum
  <2> HIDE DEF ranked, R, t, n
  <2> QED
    BY <1>1, <2>2, <2>3 DEF GiniNumerator, n
<1>3. Total([i \in D |-> Total([j \in D |-> Above(x[i], x[j]) - Below(x[i], x[j])])]) = G
  <2>1. \A i \in D : Total([j \in D |-> Above(x[i], x[j]) - Below(x[i], x[j])]) = GapsTo(x, D, i)
    BY TotalIsSum DEF GapsTo, Gap
  <2>2. [i \in D |-> Total([j \in D |-> Above(x[i], x[j]) - Below(x[i], x[j])])] = all
    BY <2>1
  <2>3. Total(all) = G
    BY TotalIsSum DEF GapSum
  <2> QED
    BY <2>2, <2>3
<1>4. 4 * R - 2 * ((n + 1) * t) = G /\ R \in Int /\ t \in Int /\ G \in Int
  BY RanksAreGaps
<1>5. n \in Nat /\ t \in Nat
  BY SumNat, FS_CardinalityType
<1>6. GiniDenominator(x) = n * t
  BY <1>1 DEF GiniDenominator
<1>7. G >= 0
  <2>1. \A i \in D : all[i] \in Nat
    <3> SUFFICES ASSUME NEW i \in D PROVE GapsTo(x, D, i) \in Nat
      OBVIOUS
    <3> DEFINE g == [j \in D |-> Gap(x, i, j)]
    <3>1. \A j \in D : g[j] \in Nat
      BY GapType
    <3> HIDE DEF g
    <3>2. Sum(g, D) \in Nat
      BY <3>1, SumNat
    <3> QED
      BY <3>2 DEF GapsTo, g
  <2> HIDE DEF all
  <2>2. Sum(all, D) \in Nat
    BY <2>1, SumNat
  <2> QED
    BY <2>2 DEF GapSum, all
<1>8. R <= n * t
  <2> DEFINE one == 1
             zero == 0
  <2>1. \A i \in D : ranked[i] \in Int /\ x[i] \in Int /\ one * ranked[i] <= n * x[i] + zero
    <3> SUFFICES ASSUME NEW i \in D
                 PROVE  ranked[i] \in Int /\ x[i] \in Int /\ one * ranked[i] <= n * x[i] + zero
      OBVIOUS
    <3> DEFINE k == RankIn(x, D, i)
    <3>1. k \in Nat /\ k <= n /\ x[i] \in Nat
      BY RankType
    <3>2. ranked[i] = k * x[i]
      OBVIOUS
    <3> HIDE DEF k, n, ranked
    <3>3. k * x[i] <= n * x[i]
      BY <1>5, <3>1
    <3> QED
      BY <1>5, <3>1, <3>2, <3>3
  <2>2. one \in Int /\ zero \in Int /\ n \in Int
    BY <1>5
  <2> HIDE DEF one, zero, ranked, n
  <2>3. one * Sum(ranked, D) <= n * Sum(x, D) + zero * Cardinality(D)
    BY <2>1, <2>2, SumBound
  <2>4. Sum(ranked, D) = R
    BY DEF RankSum, ranked
  <2> HIDE DEF R, t
  <2>5. one * R <= n * t + zero * Cardinality(D)
    BY <2>3, <2>4 DEF t
  <2> QED
    BY <1>4, <1>5, <2>5 DEF one, zero, n
<1>9. ASSUME t > 0
      PROVE  2 * R - (n + 1) * t \in 0..n * t - 1
  <2> HIDE DEF n, t, R, G
  <2> DEFINE q == n * t
  <2>1. (n + 1) * t = q + t /\ q \in Nat
    BY <1>5
  <2> HIDE DEF q
  <2>2. 4 * R - 2 * (q + t) = G /\ R <= q
    BY <1>4, <1>8, <2>1 DEF q
  <2>3. 2 * R - (q + t) >= 0 /\ 2 * R - (q + t) <= q - 1
    BY <1>4, <1>5, <1>7, <1>9, <2>1, <2>2
  <2>4. 2 * R - (q + t) \in 0..q - 1
    BY <1>4, <1>5, <2>1, <2>3
  <2> QED
    BY <2>1, <2>4 DEF q
<1>10. 2 * GiniNumerator(x) = G
  <2> HIDE DEF n, t, R, G
  <2> DEFINE q == (n + 1) * t
  <2>1. q \in Int
    BY <1>5
  <2> HIDE DEF q
  <2> QED
    BY <1>2, <1>4, <2>1 DEF q
<1> QED
  BY <1>1, <1>2, <1>3, <1>6, <1>9, <1>10

-----------------------------------------------------------------------------
(* Escalation.                                                              *)

LEMMA QuotientMonotone ==
  ASSUME NEW a \in Int, NEW b \in Int, a <= b, NEW s \in Nat \ {0}
  PROVE  RoundedQuotient(a, s) <= RoundedQuotient(b, s)
<1> DEFINE p == RoundedQuotient(a, s)
           q == RoundedQuotient(b, s)
           m == 2 * s
<1>1. p \in Int /\ q \in Int /\ m * p <= 2 * a + s /\ 2 * b - s < m * q /\ m \in Nat \ {0}
  BY QuotientBounds
<1> SUFFICES ASSUME p - q >= 1 PROVE FALSE
  BY <1>1
<1> HIDE DEF p, q, m
<1> DEFINE d == p - q
<1>2. d \in Int /\ d >= 1 /\ p = q + d
  BY <1>1
<1> HIDE DEF d
<1>3. m * p = m * q + m * d
  BY <1>1, <1>2
<1>4. m * d >= m
  BY <1>1, <1>2
<1>5. m * q \in Int /\ m * d \in Int
  BY <1>1, <1>2
<1> QED
  BY <1>1, <1>3, <1>4, <1>5 DEF m

(* The arithmetic of raising one weight: T is the sum after, S before.      *)
LEMMA OthersHardlyGrow ==
  ASSUME NEW T \in Nat \ {0}, NEW S \in Nat, NEW o \in Nat, NEW tol \in Nat, NEW one \in Nat,
         10 * S <= T, o <= S, one <= S + tol,
         NEW q \in Int, 2 * T * q <= 2 * (one * (o * 10)) + T
  PROVE  q <= o + tol + 1
<1>1. o * tol <= S * tol
  OBVIOUS
<1>2. one * o <= (S + tol) * o
  OBVIOUS
<1>3. (S + tol) * o = S * o + o * tol
  OBVIOUS
<1>4. (10 * S) * (o + tol) <= T * (o + tol)
  OBVIOUS
<1>5. (10 * S) * (o + tol) = 10 * (S * o) + 10 * (S * tol)
  OBVIOUS
<1> DEFINE A == one * o
           B == S * o
           C == o * tol
           D == S * tol
           E == T * (o + tol)
           F == T * q
<1>6. A \in Int /\ B \in Int /\ C \in Int /\ D \in Int /\ E \in Int /\ F \in Int
  OBVIOUS
<1>7. 2 * (one * (o * 10)) = 20 * A /\ 2 * T * q = 2 * F
  OBVIOUS
<1> HIDE DEF A, B, C, D, E, F
<1>8. 10 * A <= E
  BY <1>1, <1>2, <1>3, <1>4, <1>5, <1>6 DEF A, B, C, D, E
<1>9. 2 * F <= 2 * E + T
  BY <1>6, <1>7, <1>8
<1>10. T * (o + tol + 1) = E + T
  BY DEF E
<1>11. T * q <= T * (o + tol + 1)
  BY <1>6, <1>9, <1>10 DEF F
<1>12. o + tol + 1 \in Int
  OBVIOUS
<1> QED
  BY <1>11, <1>12, CancelFactor

LEMMA RaisedHardlyFalls ==
  ASSUME NEW T \in Nat \ {0}, NEW S \in Nat, NEW o \in Nat, NEW tol \in Nat, NEW one \in Nat,
         NEW k \in Nat, T <= k * S, o <= S, S <= one + tol,
         NEW q \in Int, 2 * (one * (o * k)) - T <= 2 * T * q
  PROVE  o <= q + tol + 1
<1> DEFINE A == k * (one * o)
           E == T * (o - tol)
           F == T * q
<1>1. A \in Int /\ E \in Int /\ F \in Int
  OBVIOUS
<1>2. 2 * (one * (o * k)) = 2 * A /\ 2 * T * q = 2 * F
  OBVIOUS
<1>3. E <= A
  <2>1. CASE o <= tol
    <3>1. E <= 0 /\ A >= 0
      <4>1. o - tol <= 0 /\ one * o >= 0
        BY <2>1
      <4>2. T * (o - tol) <= T * 0
        BY <4>1
      <4> QED
        BY <4>1, <4>2
    <3> QED
      BY <1>1, <3>1
  <2>2. CASE o > tol
    <3> DEFINE d == o - tol
               kS == k * S
    <3>1. d \in Nat /\ kS \in Nat
      BY <2>2
    <3>2. T * d <= kS * d
      <4> HIDE DEF d, kS
      <4> QED
        BY <3>1 DEF kS
    <3>3. S * d = S * o - S * tol
      OBVIOUS
    <3>4. S * o <= (one + tol) * o /\ (one + tol) * o = one * o + tol * o
      OBVIOUS
    <3>5. tol * o <= S * tol
      OBVIOUS
    <3>6. S * d <= one * o
      <4> DEFINE a == S * o
                 b == S * tol
                 c == one * o
                 e == tol * o
                 g == S * d
      <4>1. a \in Int /\ b \in Int /\ c \in Int /\ e \in Int /\ g \in Int
        OBVIOUS
      <4>2. g = a - b /\ a <= c + e /\ e <= b
        BY <3>3, <3>4, <3>5
      <4> HIDE DEF a, b, c, e, g, d
      <4>3. g <= c
        BY <4>1, <4>2
      <4> QED
        BY <4>3 DEF g, c
    <3>7. k * (S * d) <= k * (one * o)
      <4> DEFINE a == S * d
                 b == one * o
      <4>1. a \in Int /\ b \in Int /\ a <= b
        BY <3>6
      <4> HIDE DEF a, b, d
      <4>2. k * a <= k * b
        BY <4>1
      <4> QED
        BY <4>2 DEF a, b
    <3>8. kS * d = k * (S * d)
      OBVIOUS
    <3> QED
      BY <3>2, <3>7, <3>8
  <2> QED
    BY <2>1, <2>2
<1>4. T * (q + tol + 1) - T * o = F - E + T
  OBVIOUS
<1>5. T * (q + tol + 1) \in Int /\ T * o \in Int
  OBVIOUS
<1> HIDE DEF A, E, F
<1>6. 2 * A - T <= 2 * F
  BY <1>2
<1>7. F - E + T >= 0
  BY <1>1, <1>3, <1>6
<1>8. T * o <= T * (q + tol + 1)
  BY <1>4, <1>5, <1>7
<1>9. q + tol + 1 \in Int
  OBVIOUS
<1> QED
  BY <1>8, <1>9, CancelFactor

LEMMA EscalationFacts ==
  ASSUME NEW c, IsConfig(c), NEW loads, Escalates(c, loads), c.factor >= 10,
         ~OffOne(Total(c.weights)), \A n \in DOMAIN c.weights : c.weights[n] >= 0
  PROVE  LET old == c.weights
             new == AdjustedWeights(c, loads)
             others == DOMAIN old \ {"fairness_score"}
         IN  /\ Above(Total(new), One) - Below(Total(new), One) <= Cardinality(DOMAIN new)
             /\ new["fairness_score"] + Tolerance + 1 >= old["fairness_score"]
             /\ \A a, b \in others : old[a] <= old[b] => new[a] <= new[b]
             /\ \A a \in others : new[a] <= old[a] + Tolerance + 1
<1> DEFINE old == c.weights
           new == AdjustedWeights(c, loads)
           D == DOMAIN old
           others == D \ {"fairness_score"}
           raised == RaisedWeights(c)
           k == c.factor
           S == Sum(old, D)
           T == Sum(raised, D)
           N == Sum(new, D)
           m == Cardinality(D)
<1>1. /\ IsFiniteSet(D) /\ m \in Nat /\ k \in Nat /\ k >= 10
      /\ One \in Nat /\ Tolerance \in Nat
      /\ \A n \in D : old[n] \in Nat
  BY FS_CardinalityType, RulesAssumption, RuleConfigAssumption DEF IsConfig, IsWeights
<1>2. /\ DOMAIN raised = D
      /\ \A n \in others : raised[n] = old[n] * 10
      /\ "fairness_score" \in D /\ raised["fairness_score"] = old["fairness_score"] * k
  BY DEF RaisedWeights, Escalates
<1>3. \A n \in D : raised[n] \in Nat /\ 10 * old[n] <= raised[n] /\ raised[n] <= k * old[n]
  <2> SUFFICES ASSUME NEW n \in D
               PROVE  raised[n] \in Nat /\ 10 * old[n] <= raised[n] /\ raised[n] <= k * old[n]
    OBVIOUS
  <2> DEFINE o == old[n]
  <2>1. o \in Nat /\ (raised[n] = o * 10 \/ raised[n] = o * k)
    BY <1>1, <1>2
  <2> HIDE DEF o, k, raised
  <2>2. o * 10 <= o * k /\ o * 10 \in Nat /\ o * k \in Nat
    BY <1>1, <2>1
  <2>3. k * o = o * k /\ 10 * o = o * 10
    BY <1>1, <2>1
  <2> QED
    BY <2>1, <2>2, <2>3 DEF o
<1>4. S \in Nat /\ T \in Nat /\ \A n \in D : old[n] <= S
  <2> HIDE DEF old, raised, D
  <2> QED
    BY <1>1, <1>3, SumNat
<1>5. 10 * S <= T /\ T <= k * S
  <2> DEFINE one == 1
             zero == 0
             ten == 10
  <2>1. \A n \in D : /\ old[n] \in Int /\ raised[n] \in Int
                     /\ ten * old[n] <= one * raised[n] + zero
                     /\ one * raised[n] <= k * old[n] + zero
    <3> SUFFICES ASSUME NEW n \in D
                 PROVE  /\ old[n] \in Int /\ raised[n] \in Int
                        /\ ten * old[n] <= one * raised[n] + zero
                        /\ one * raised[n] <= k * old[n] + zero
      OBVIOUS
    <3>1. /\ old[n] \in Nat /\ raised[n] \in Nat
          /\ 10 * old[n] <= raised[n] /\ raised[n] <= k * old[n]
      BY <1>1, <1>3
    <3>2. k * old[n] \in Int
      <4> HIDE DEF k, old
      <4> QED
        BY <1>1, <3>1
    <3> HIDE DEF old, raised, k, D
    <3> QED
      BY <3>1, <3>2
  <2>2. one \in Int /\ zero \in Int /\ ten \in Int /\ k \in Int
    BY <1>1
  <2> HIDE DEF one, zero, ten, old, raised, k, D
  <2>3. ten * Sum(old, D) <= one * Sum(raised, D) + zero * Cardinality(D)
    BY <1>1, <2>1, <2>2, SumBound
  <2>4. one * Sum(raised, D) <= k * Sum(old, D) + zero * Cardinality(D)
    BY <1>1, <2>1, <2>2, SumBound
  <2>5. zero * Cardinality(D) = 0 /\ one * Sum(raised, D) = T
    BY <1>1, <1>4 DEF zero, one
  <2>6. k * S \in Int
    BY <1>1, <1>4
  <2> QED
    BY <1>4, <2>3, <2>4, <2>5, <2>6 DEF ten
<1>6. Total(old) = S /\ Total(raised) = T
  BY <1>2, TotalIsSum
<1>7. T \in Nat \ {0}
  BY <1>4, <1>6 DEF Escalates
<1>8. S <= One + Tolerance /\ One <= S + Tolerance
  <2> HIDE DEF S
  <2> QED
    BY <1>1, <1>4, <1>6 DEF OffOne
<1>9. /\ DOMAIN new = D
      /\ \A n \in D : new[n] = RoundedQuotient(One * raised[n], T)
  BY <1>6 DEF AdjustedWeights
<1>10. \A n \in D : /\ One * raised[n] \in Int /\ new[n] \in Int
                    /\ 2 * T * new[n] <= 2 * (One * raised[n]) + T
                    /\ 2 * (One * raised[n]) - T <= 2 * T * new[n]
  <2> SUFFICES ASSUME NEW n \in D
               PROVE  /\ One * raised[n] \in Int /\ new[n] \in Int
                      /\ 2 * T * new[n] <= 2 * (One * raised[n]) + T
                      /\ 2 * (One * raised[n]) - T <= 2 * T * new[n]
    OBVIOUS
  <2> DEFINE a == One * raised[n]
  <2>1. a \in Int
    BY <1>1, <1>3
  <2>2. new[n] = RoundedQuotient(a, T)
    BY <1>9
  <2> HIDE DEF a, T, new
  <2>3. /\ new[n] \in Int /\ 2 * T * new[n] <= 2 * a + T /\ 2 * a - T <= 2 * T * new[n]
    BY <1>7, <2>1, <2>2, QuotientBounds
  <2> QED
    BY <2>1, <2>3 DEF a
<1>11. Above(Total(new), One) - Below(Total(new), One) <= Cardinality(DOMAIN new)
  <2> DEFINE a == 2 * T
             b == 2 * One
  <2>1. \A n \in D : /\ new[n] \in Int /\ raised[n] \in Int
                     /\ a * new[n] <= b * raised[n] + T
                     /\ b * raised[n] <= a * new[n] + T
    <3> SUFFICES ASSUME NEW n \in D
                 PROVE  /\ new[n] \in Int /\ raised[n] \in Int
                        /\ a * new[n] <= b * raised[n] + T
                        /\ b * raised[n] <= a * new[n] + T
      OBVIOUS
    <3> DEFINE x == new[n]
               y == raised[n]
    <3>1. /\ x \in Int /\ y \in Nat
          /\ 2 * T * x <= 2 * (One * y) + T
          /\ 2 * (One * y) - T <= 2 * T * x
      BY <1>3, <1>10
    <3> HIDE DEF x, y, T
    <3>2. 2 * (One * y) = b * y /\ b * y \in Int /\ 2 * T * x = a * x /\ a * x \in Int
      BY <1>1, <1>7, <3>1
    <3>3. a * x <= b * y + T /\ b * y <= a * x + T
      <4> HIDE DEF a, b
      <4> QED
        BY <1>7, <3>1, <3>2
    <3> QED
      BY <3>1, <3>3 DEF x, y
  <2>2. a \in Int /\ b \in Int /\ T \in Int
    BY <1>1, <1>7
  <2>3. N \in Int
    <3> HIDE DEF new, D
    <3> QED
      BY <1>1, <1>10, SumInt
  <2>4. a * N <= b * T + T * m /\ b * T <= a * N + T * m
    <3> HIDE DEF a, b, new, raised, D
    <3>1. a * Sum(new, D) <= b * Sum(raised, D) + T * Cardinality(D)
      BY <1>1, <2>1, <2>2, SumBound
    <3>2. b * Sum(raised, D) <= a * Sum(new, D) + T * Cardinality(D)
      BY <1>1, <2>1, <2>2, SumBound
    <3> QED
      BY <3>1, <3>2
  <2>5. T * (2 * N) <= T * (2 * One + m) /\ T * (2 * One - m) <= T * (2 * N)
    <3> HIDE DEF T, N, m
    <3> QED
      BY <1>1, <1>7, <2>3, <2>4
  <2>6. 2 * N <= 2 * One + m /\ 2 * One - m <= 2 * N
    <3>1. 2 * N \in Int /\ 2 * One + m \in Int /\ 2 * One - m \in Int
      BY <1>1, <2>3
    <3> HIDE DEF T, N, m
    <3> QED
      BY <1>7, <2>5, <3>1, CancelFactor
  <2>7. Total(new) = N
    BY <1>9, TotalIsSum
  <2> HIDE DEF N, m, new
  <2>8. Above(N, One) - Below(N, One) <= m
    BY <1>1, <2>3, <2>6 DEF Above, Below
  <2> QED
    BY <1>9, <2>7, <2>8 DEF m
<1>12. new["fairness_score"] + Tolerance + 1 >= old["fairness_score"]
  <2> DEFINE o == old["fairness_score"]
             q == new["fairness_score"]
  <2>1. o \in Nat /\ o <= S /\ q \in Int
    BY <1>1, <1>2, <1>4, <1>10
  <2>2. 2 * (One * (o * k)) - T <= 2 * T * q
    BY <1>2, <1>10
  <2> HIDE DEF o, q, k, S, T
  <2>3. o <= q + Tolerance + 1
    BY <1>1, <1>4, <1>5, <1>7, <1>8, <2>1, <2>2, RaisedHardlyFalls
  <2> QED
    BY <1>1, <2>1, <2>3 DEF o, q
<1>13. \A a, b \in others : old[a] <= old[b] => new[a] <= new[b]
  <2> SUFFICES ASSUME NEW a \in others, NEW b \in others, old[a] <= old[b]
               PROVE  new[a] <= new[b]
    OBVIOUS
  <2> DEFINE x == One * raised[a]
             y == One * raised[b]
  <2>1. raised[a] \in Int /\ raised[b] \in Int /\ raised[a] <= raised[b]
    <3>1. raised[a] = old[a] * 10 /\ raised[b] = old[b] * 10
      BY <1>2
    <3>2. old[a] \in Nat /\ old[b] \in Nat
      BY <1>1
    <3> QED
      BY <3>1, <3>2
  <2>2. x \in Int /\ y \in Int /\ x <= y
    <3> HIDE DEF raised
    <3> QED
      BY <1>1, <2>1
  <2>3. new[a] = RoundedQuotient(x, T) /\ new[b] = RoundedQuotient(y, T)
    BY <1>9
  <2> HIDE DEF x, y, T, new
  <2> QED
    BY <1>7, <2>2, <2>3, QuotientMonotone
<1>14. \A a \in others : new[a] <= old[a] + Tolerance + 1
  <2> SUFFICES ASSUME NEW a \in others PROVE new[a] <= old[a] + Tolerance + 1
    OBVIOUS
  <2> DEFINE o == old[a]
             q == new[a]
  <2>1. o \in Nat /\ o <= S /\ q \in Int
    BY <1>1, <1>4, <1>10
  <2>2. 2 * T * q <= 2 * (One * (o * 10)) + T
    BY <1>2, <1>10
  <2> HIDE DEF o, q, S, T
  <2>3. q <= o + Tolerance + 1
    BY <1>1, <1>4, <1>5, <1>7, <1>8, <2>1, <2>2, OthersHardlyGrow
  <2> QED
    BY <2>3 DEF o, q
<1> QED
  BY <1>11, <1>12, <1>13, <1>14

-----------------------------------------------------------------------------
(* Scores.                                                                  *)

LEMMA IntMaximum ==
  ASSUME NEW S \in SUBSET Int, IsFiniteSet(S), S # {}
  PROVE  \E m \in S : \A j \in S : j <= m
<1> DEFINE x == [i \in S |-> i]
<1>1. \A i \in S : x[i] = i /\ x[i] \in Int
  OBVIOUS
<1> HIDE DEF x
<1>2. PICK m \in S : \A j \in S : Before(x, j, m)
  BY <1>1, LastInRank
<1>3. \A j \in S : j <= m
  <2> TAKE j \in S
  <2>1. x[j] = j /\ x[m] = m /\ j \in Int /\ m \in Int
    BY <1>1
  <2> QED
    BY <1>2, <2>1 DEF Before
<1> QED
  BY <1>3

LEMMA HighestFacts ==
  ASSUME NEW loads, IsFiniteSet(DOMAIN loads), \A i \in DOMAIN loads : loads[i] \in Int,
         NEW load \in Int
  PROVE  /\ Highest(loads, load) \in Nat /\ load <= Highest(loads, load)
         /\ \A i \in DOMAIN loads : loads[i] <= Highest(loads, load)
         /\ \/ \E i \in DOMAIN loads : Highest(loads, load) = Above(0, loads[i])
            \/ Highest(loads, load) = Above(0, load)
<1> DEFINE f == [i \in DOMAIN loads |-> Above(0, loads[i])]
           A == {f[i] : i \in DOMAIN loads}
           B == {Above(0, load)}
           C == A \cup B
           Fits(m) == (\A i \in DOMAIN loads : loads[i] <= m) /\ load <= m
<1>1. \A i \in DOMAIN loads : f[i] \in Nat /\ loads[i] <= f[i] /\ f[i] = Above(0, loads[i])
  BY DEF Above
<1>2. Above(0, load) \in Nat /\ load <= Above(0, load)
  BY DEF Above
<1>3. IsFiniteSet(C)
  <2>1. IsFiniteSet(A)
    <3> HIDE DEF f
    <3> QED
      BY FiniteImage
  <2> QED
    BY <2>1, FS_Singleton, FS_Union
<1>4. C \subseteq Nat /\ C # {}
  BY <1>1, <1>2
<1>5. PICK m \in C : \A j \in C : j <= m
  <2> HIDE DEF C
  <2> QED
    BY <1>3, <1>4, IntMaximum
<1>6. Fits(m)
  <2>1. \A i \in DOMAIN loads : f[i] <= m
    BY <1>5
  <2>2. m \in Nat /\ Above(0, load) <= m
    BY <1>4, <1>5
  <2>3. ASSUME NEW i \in DOMAIN loads PROVE loads[i] <= m
    <3>1. loads[i] \in Int /\ f[i] \in Nat /\ loads[i] <= f[i] /\ f[i] <= m
      BY <1>1, <2>1
    <3> HIDE DEF f
    <3> QED
      BY <2>2, <3>1
  <2> QED
    BY <1>2, <2>2, <2>3
<1>7. {Above(0, loads[i]) : i \in DOMAIN loads} \cup {Above(0, load)} = C
  BY <1>1
<1>8. Highest(loads, load) = CHOOSE h \in C : Fits(h)
  BY <1>7 DEF Highest
<1>9. Highest(loads, load) \in C /\ Fits(Highest(loads, load))
  <2> HIDE DEF C, Fits
  <2> QED
    BY <1>6, <1>8
<1> QED
  BY <1>4, <1>9

LEMMA ShareBounds ==
  ASSUME NEW a \in Nat, NEW b \in Nat \ {0}, a <= b
  PROVE  (One * a) \div b \in 0..One
<1> DEFINE n == One * a
           q == n \div b
           r == n % b
<1>1. One \in Nat /\ n \in Nat
  BY RulesAssumption
<1>2. q \in Int /\ r \in 0..(b - 1) /\ n = b * q + r
  <2> HIDE DEF n
  <2> QED
    BY <1>1
<1>3. n <= b * One
  BY <1>1
<1> HIDE DEF n, q, r
<1>4. b * q <= b * One
  BY <1>1, <1>2, <1>3
<1>5. q <= One
  BY <1>1, <1>2, <1>4, CancelFactor
<1>6. q >= 0
  <2> SUFFICES ASSUME q <= -1 PROVE FALSE
    BY <1>2
  <2>1. b * q <= b * (-1)
    BY <1>2
  <2> QED
    BY <1>1, <1>2, <2>1
<1> QED
  BY <1>1, <1>2, <1>5, <1>6 DEF n, q

LEMMA UnitType == ASSUME NEW x \in Int PROVE Unit(x) \in 0..One
BY RulesAssumption DEF Unit, Above, Below

LEMMA DivInt == ASSUME NEW a \in Int, NEW b \in Nat \ {0} PROVE a \div b \in Int
OBVIOUS

LEMMA ParamInt ==
  ASSUME NEW e, IsEntry(e), NEW key \in NumericParams, NEW default \in Int
  PROVE  Param(e, key, default) \in Int
BY DEF Param, Get, IsEntry, IsParam

(* Every score a rule gives without raising an exception is in [0, 1]. *)
LEMMA ScoreIsUnit ==
  ASSUME NEW e, IsEntry(e), e.name \in ScoringRules, ~Raises(e),
         NEW order, order.pos \in Int,
         NEW p, {p.pos, p.rating, p.load, p.avg_time} \subseteq Int,
         NEW loads, IsFiniteSet(DOMAIN loads), \A i \in DOMAIN loads : loads[i] \in Int
  PROVE  Score(e, order, p, loads) \in 0..One
<1>0. One \in Nat /\ p.pos \in Int /\ p.rating \in Int /\ p.load \in Int /\ p.avg_time \in Int
  BY RulesAssumption
<1> DEFINE d == Distance(order, p)
<1>d. d \in Nat
  BY <1>0 DEF Distance
<1>1. CASE e.name = "proximity_score"
  <2> DEFINE s == Param(e, "scale_km", 10)
  <2>1. s \in Int /\ s # 0
    BY <1>1, ParamInt DEF Raises, NumericParams
  <2>2. CASE s < 0
    BY <1>0, <1>1, <2>2 DEF Score, Proximity
  <2>3. CASE s > 0
    <3> DEFINE b == Below(d, s)
    <3>1. b \in Nat /\ b <= s
      BY <1>d, <2>1, <2>3 DEF Below
    <3>2. Score(e, order, p, loads) = One - (One * b) \div s
      BY <1>1, <2>3, <2>1 DEF Score, Proximity
    <3> HIDE DEF b, s
    <3>3. (One * b) \div s \in 0..One
      BY <2>1, <2>3, <3>1, ShareBounds
    <3> QED
      BY <1>0, <3>2, <3>3
  <2> QED
    BY <2>1, <2>2, <2>3
<1>2. CASE e.name = "rating_score"
  <2>1. (One * p.rating) \div 5 \in Int
    <3>1. One * p.rating \in Int
      BY <1>0
    <3> QED
      BY <3>1
  <2> QED
    BY <1>2, <2>1, UnitType DEF Score, RatingScore
<1>3. CASE e.name = "fairness_score"
  <2> DEFINE m == Highest(loads, p.load)
             a == Above(0, p.load)
  <2>1. m \in Nat /\ a \in Nat /\ a <= m
    <3>1. m \in Nat /\ p.load <= m
      BY <1>0, HighestFacts
    <3> QED
      BY <1>0, <3>1 DEF Above
  <2>2. Score(e, order, p, loads) = IF m = 0 THEN One ELSE One - (One * a) \div m
    BY <1>3 DEF Score, Fairness
  <2> HIDE DEF m, a
  <2>3. CASE m = 0
    BY <1>0, <2>2, <2>3
  <2>4. CASE m # 0
    <3>1. (One * a) \div m \in 0..One
      BY <2>1, <2>4, ShareBounds
    <3> QED
      BY <1>0, <2>2, <2>4, <3>1
  <2> QED
    BY <2>3, <2>4
<1>4. CASE e.name = "on_time_rate"
  <2> DEFINE a == One * Param(e, "baseline_minutes", 30)
             b == Above(1, p.avg_time)
  <2>1. a \in Int /\ b \in Nat \ {0}
    <3>1. Param(e, "baseline_minutes", 30) \in Int
      BY ParamInt DEF NumericParams
    <3> QED
      BY <1>0, <3>1 DEF Above
  <2>2. Score(e, order, p, loads) = Unit(a \div b)
    BY <1>4 DEF Score, OnTime
  <2> HIDE DEF a, b
  <2> QED
    BY <2>1, <2>2, DivInt, UnitType
<1>5. CASE e.name = "traffic_adjusted_proximity"
  <2> DEFINE reach == Param(e, "max_distance_km", 10)
             levels == Param(e, "traffic_multipliers", DefaultTraffic)
             tenths == Get(levels, order.traffic, 10)
             a == One * tenths * d
             b == 10 * reach
  <2>1. reach \in Int
    BY ParamInt DEF NumericParams
  <2>2. tenths \in Int
    <3>1. \A level \in DOMAIN levels : levels[level] \in Int
      BY DEF Param, Get, IsEntry, IsParam, DefaultTraffic
    <3> HIDE DEF levels
    <3> QED
      BY <3>1 DEF Get
  <2>3. Score(e, order, p, loads) = IF reach <= 0 THEN 0 ELSE Unit(One - a \div b)
    BY <1>5 DEF Score, InTraffic
  <2>4. CASE reach <= 0
    BY <1>0, <2>3, <2>4
  <2>5. CASE reach > 0
    <3>1. a \in Int /\ b \in Nat \ {0}
      <4> HIDE DEF tenths, d, reach
      <4> QED
        BY <1>0, <1>d, <2>1, <2>2, <2>5
    <3> HIDE DEF a, b
    <3>2. a \div b \in Int
      BY <3>1, DivInt
    <3>3. One - a \div b \in Int
      BY <1>0, <3>2
    <3> QED
      BY <2>1, <2>3, <2>5, <3>3, UnitType
  <2> QED
    BY <2>1, <2>4, <2>5
<1> QED
  BY <1>1, <1>2, <1>3, <1>4, <1>5 DEF ScoringRules

=============================================================================
