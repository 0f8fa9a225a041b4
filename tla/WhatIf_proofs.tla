----------------------------- MODULE WhatIf_proofs -----------------------------
(***************************************************************************)
(* Theorems about decisions and simulations, for any configurations,       *)
(* payloads and lists of mutations.                                        *)
(***************************************************************************)
EXTENDS WhatIf, RuleConfig_proofs

-----------------------------------------------------------------------------
(* Rows.                                                                    *)

IsRow(p) == {p.id, p.pos, p.rating, p.load, p.condition, p.avg_time} \subseteq Int
IsRows(rows) ==
  \E n \in Nat : DOMAIN rows = 1..n /\ \A k \in 1..n : IsRow(rows[k])
IsOrders(orders) ==
  \E n \in Nat : DOMAIN orders = 1..n /\ Len(orders) = n /\ \A k \in 1..n : orders[k].pos \in Int

LEMMA RowsFacts ==
  ASSUME NEW rows, IsRows(rows)
  PROVE  /\ IsFiniteSet(DOMAIN rows) /\ DOMAIN rows \subseteq Int
         /\ IsFiniteSet(IdsOf(rows)) /\ IdsOf(rows) \subseteq Int
         /\ \A k \in DOMAIN rows : IsRow(rows[k]) /\ rows[k].id \in IdsOf(rows)
<1>1. PICK n \in Nat : DOMAIN rows = 1..n /\ \A k \in 1..n : IsRow(rows[k])
  BY DEF IsRows
<1>2. IsFiniteSet(DOMAIN rows) /\ DOMAIN rows \subseteq Int
  BY <1>1, FS_Interval
<1> DEFINE f == [k \in DOMAIN rows |-> rows[k].id]
<1>3. IdsOf(rows) = {f[k] : k \in DOMAIN rows}
  BY DEF IdsOf
<1>4. IsFiniteSet(IdsOf(rows))
  <2> HIDE DEF f
  <2> QED
    BY <1>2, <1>3, FiniteImage
<1>5. \A k \in DOMAIN rows : IsRow(rows[k]) /\ rows[k].id \in IdsOf(rows) /\ rows[k].id \in Int
  BY <1>1 DEF IdsOf, IsRow
<1>6. IdsOf(rows) \subseteq Int
  BY <1>5 DEF IdsOf
<1> QED
  BY <1>2, <1>4, <1>5, <1>6

(* LastRow is a row of that id. *)
LEMMA LastRowFacts ==
  ASSUME NEW rows, NEW n \in Nat, DOMAIN rows = 1..n, NEW i \in IdsOf(rows)
  PROVE  \E k \in 1..n : LastRow(rows, i) = rows[k] /\ rows[k].id = i
<1> DEFINE at == {k \in DOMAIN rows : rows[k].id = i}
           Fits(k) == rows[k].id = i /\ \A j \in DOMAIN rows : rows[j].id = i => j <= k
<1>1. at \in SUBSET Int /\ at # {}
  BY DEF IdsOf
<1>2. IsFiniteSet(at)
  BY FS_Interval, FS_Subset
<1>3. PICK m \in at : \A j \in at : j <= m
  <2> HIDE DEF at
  <2> QED
    BY <1>1, <1>2, IntMaximum
<1>4. m \in DOMAIN rows /\ Fits(m)
  BY <1>3
<1> DEFINE k == CHOOSE k \in DOMAIN rows : Fits(k)
<1>5. k \in DOMAIN rows /\ Fits(k)
  <2> HIDE DEF Fits
  <2> QED
    BY <1>4
<1>6. LastRow(rows, i) = rows[k]
  BY DEF LastRow
<1> QED
  BY <1>5, <1>6

LEMMA StartLoadsFacts ==
  ASSUME NEW rows, IsRows(rows), NEW observed, \A i \in DOMAIN observed : observed[i] \in Int
  PROVE  /\ StartLoads(rows, observed) \in [IdsOf(rows) -> Nat]
         /\ DOMAIN StartLoads(rows, observed) = IdsOf(rows)
<1>1. PICK n \in Nat : DOMAIN rows = 1..n /\ \A k \in 1..n : IsRow(rows[k])
  BY DEF IsRows
<1>2. ASSUME NEW i \in IdsOf(rows)
      PROVE  Above(Above(0, LastRow(rows, i).load), Get(observed, i, 0)) \in Nat
  <2>1. LastRow(rows, i).load \in Int
    BY <1>1, LastRowFacts DEF IsRow
  <2>2. Get(observed, i, 0) \in Int
    BY DEF Get
  <2> QED
    BY <2>1, <2>2 DEF Above
<1> QED
  BY <1>2 DEF StartLoads

-----------------------------------------------------------------------------
(* The best of the scores.                                                  *)

LEMMA BestIsEligible ==
  ASSUME NEW score
  PROVE  FirstBest(score) \in DOMAIN score \cup {None}
<1> DEFINE best == {k \in DOMAIN score :
                      /\ score[k] > -One * One
                      /\ \A j \in DOMAIN score : score[j] < score[k] \/ (score[j] = score[k] /\ k <= j)}
<1>1. FirstBest(score) = IF best = {} THEN None ELSE CHOOSE k \in best : TRUE
  BY DEF FirstBest
<1>2. best \subseteq DOMAIN score
  OBVIOUS
<1> HIDE DEF best
<1> QED
  BY <1>1, <1>2

IsTop(score, k) ==
  \A j \in DOMAIN score : score[j] < score[k] \/ (score[j] = score[k] /\ k <= j)

LEMMA TopExists ==
  ASSUME NEW score, DOMAIN score \in SUBSET Int, IsFiniteSet(DOMAIN score), DOMAIN score # {},
         \A k \in DOMAIN score : score[k] \in Int
  PROVE  \E k \in DOMAIN score : IsTop(score, k)
<1> DEFINE D == DOMAIN score
           neg == [k \in D |-> -k]
           N == {neg[k] : k \in D}
           x == [i \in N |-> score[-i]]
<1>1. \A k \in D : k \in Int /\ neg[k] \in N /\ neg[k] = -k /\ x[-k] = score[k]
  <2> TAKE k \in D
  <2>1. k \in Int /\ -(-k) = k
    OBVIOUS
  <2>2. neg[k] = -k /\ -k \in N
    OBVIOUS
  <2> QED
    BY <2>1, <2>2
<1>2. \A i \in N : i \in Int /\ -i \in D /\ x[i] = score[-i] /\ x[i] \in Int
  BY <1>1
<1>3. IsFiniteSet(N) /\ N # {} /\ N \in SUBSET Int
  <2>1. N # {} /\ N \in SUBSET Int
    BY <1>1
  <2> HIDE DEF neg
  <2> QED
    BY <2>1, FiniteImage
<1>4. PICK m \in N : \A i \in N : Before(x, i, m)
  <2> HIDE DEF N, x
  <2> QED
    BY <1>2, <1>3, LastInRank
<1> DEFINE b == -m
<1>5. b \in D /\ b \in Int /\ m = -b
  BY <1>2
<1>6. ASSUME NEW j \in D
      PROVE  score[j] < score[b] \/ (score[j] = score[b] /\ b <= j)
  <2>1. Before(x, -j, m)
    BY <1>1, <1>4
  <2>2. x[-j] = score[j] /\ x[m] = score[b] /\ j \in Int
    BY <1>1, <1>2
  <2> HIDE DEF x, b
  <2> QED
    BY <1>5, <2>1, <2>2 DEF Before
<1> QED
  BY <1>5, <1>6 DEF IsTop

(* There is one if and only if a score reaches above the -1.0 the search     *)
(* begins with, and there is no other.                                      *)
LEMMA BestFacts ==
  ASSUME NEW score, DOMAIN score \in SUBSET Int, IsFiniteSet(DOMAIN score),
         \A k \in DOMAIN score : score[k] \in Int
  PROVE  /\ FirstBest(score) # None =>
              /\ FirstBest(score) \in DOMAIN score /\ IsTop(score, FirstBest(score))
              /\ score[FirstBest(score)] > -One * One
         /\ FirstBest(score) = None => \A k \in DOMAIN score : ~(score[k] > -One * One)
         /\ \A k \in DOMAIN score :
              IsTop(score, k) /\ score[k] > -One * One => FirstBest(score) = k
<1> DEFINE b == FirstBest(score)
           best == {k \in DOMAIN score : score[k] > -One * One /\ IsTop(score, k)}
<1>1. b = IF best = {} THEN None ELSE CHOOSE k \in best : TRUE
  BY DEF FirstBest, IsTop
<1>2. best \subseteq DOMAIN score /\ None \notin best
  BY RulesAssumption
<1>3. b # None => b \in best
  <2> HIDE DEF best, b
  <2> QED
    BY <1>1
<1>4. b = None => best = {}
  <2> HIDE DEF best, b
  <2> QED
    BY <1>1, <1>2
<1>5. ASSUME NEW k \in best PROVE b = k
  <2>1. b \in best
    BY <1>3, <1>4
  <2>2. /\ score[b] < score[k] \/ (score[b] = score[k] /\ k <= b)
        /\ score[k] < score[b] \/ (score[k] = score[b] /\ b <= k)
    <3> HIDE DEF b
    <3> QED
      BY <2>1 DEF IsTop
  <2>3. b \in Int /\ k \in Int /\ score[b] \in Int /\ score[k] \in Int
    BY <1>2, <2>1
  <2> HIDE DEF b
  <2> QED
    BY <2>2, <2>3
<1>6. ASSUME b = None, NEW k \in DOMAIN score, score[k] > -One * One
      PROVE  FALSE
  <2>1. PICK m \in DOMAIN score : IsTop(score, m)
    BY TopExists
  <2>2. score[k] < score[m] \/ score[k] = score[m]
    BY <2>1 DEF IsTop
  <2>3. score[m] > -One * One
    <3> DEFINE low == -One * One
    <3>1. low \in Int
      BY RulesAssumption
    <3>2. score[k] > low /\ score[k] \in Int /\ score[m] \in Int
      BY <1>6
    <3> HIDE DEF low
    <3>3. score[m] > low
      BY <2>2, <3>1, <3>2
    <3> QED
      BY <3>3 DEF low
  <2>4. m \in best
    BY <2>1, <2>3
  <2> QED
    BY <1>4, <1>6, <2>4
<1> QED
  BY <1>3, <1>5, <1>6

LEMMA BestExists ==
  ASSUME NEW score, DOMAIN score \in SUBSET Int, IsFiniteSet(DOMAIN score), DOMAIN score # {},
         \A k \in DOMAIN score : score[k] \in Int /\ score[k] > -One * One
  PROVE  FirstBest(score) \in DOMAIN score
<1>2. FirstBest(score) # None
  BY BestFacts
<1> QED
  BY <1>2, BestFacts

-----------------------------------------------------------------------------
(* The evaluation: after[o] is what it has found after o orders.            *)

EvalStart(rows, observed) ==
  [loads |-> StartLoads(rows, observed), chosen |-> <<>>, eligible |-> <<>>, failed |-> FALSE]
EvalStep(c, weights, orders, rows, sofar, o) ==
  Ranked(c, weights, orders[o], rows, sofar, EligibleRows(c, orders[o], rows, sofar.loads))
IsRun(after, n, c, weights, orders, rows, observed) ==
  /\ after[0] = EvalStart(rows, observed)
  /\ \A o \in 1..n : after[o] = EvalStep(c, weights, orders, rows, after[o - 1], o)

LEMMA EvaluateRuns ==
  ASSUME NEW c, NEW weights, NEW orders, NEW rows, NEW observed, Len(orders) \in Nat
  PROVE  \E after : /\ IsRun(after, Len(orders), c, weights, orders, rows, observed)
                    /\ Evaluate(c, weights, orders, rows, observed) = after[Len(orders)]
<1> DEFINE Value(g, o) == IF o = 0 THEN EvalStart(rows, observed)
                          ELSE EvalStep(c, weights, orders, rows, g[o - 1], o)
           Upto(n, g) == g = [o \in 0..n |-> Value(g, o)]
           Good == {n \in Nat : \E g : Upto(n, g)}
<1>1. 0 \in Good
  <2> DEFINE g == [o \in 0..0 |-> EvalStart(rows, observed)]
  <2>1. Upto(0, g)
    <3>1. \A o \in 0..0 : o = 0
      OBVIOUS
    <3> QED
      BY <3>1
  <2> QED
    BY <2>1
<1>2. \A n \in Nat : n \in Good => n + 1 \in Good
  <2> HIDE DEF Upto
  <2> SUFFICES ASSUME NEW n \in Nat, NEW g, Upto(n, g)
               PROVE  \E k : Upto(n + 1, k)
    OBVIOUS
  <2> USE DEF Upto
  <2> DEFINE k == [o \in 0..(n + 1) |-> Value(g, o)]
  <2>1. \A o \in 0..n : g[o] = Value(g, o) /\ k[o] = Value(g, o)
    <3> HIDE DEF Value
    <3>1. g = [o \in 0..n |-> Value(g, o)]
      BY DEF Upto
    <3> QED
      BY <3>1
  <2>2. \A o \in 0..(n + 1) : Value(g, o) = Value(k, o)
    <3> TAKE o \in 0..(n + 1)
    <3>1. o = 0 \/ o - 1 \in 0..n
      OBVIOUS
    <3> HIDE DEF k
    <3> QED
      BY <2>1, <3>1
  <2>3. k = [o \in 0..(n + 1) |-> Value(k, o)]
    <3> HIDE DEF Value
    <3> QED
      BY <2>2
  <2> QED
    BY <2>3
<1>3. Len(orders) \in Good
  <2> HIDE DEF Good
  <2> QED
    BY <1>1, <1>2, NatInduction1
<1>4. PICK g : Upto(Len(orders), g)
  BY <1>3
<1> DEFINE after == CHOOSE h : Upto(Len(orders), h)
<1>5. Upto(Len(orders), after)
  <2> HIDE DEF Upto
  <2> QED
    BY <1>4
<1>6. Evaluate(c, weights, orders, rows, observed) = after[Len(orders)]
  BY DEF Evaluate, EvalStart, EvalStep
<1>7. IsRun(after, Len(orders), c, weights, orders, rows, observed)
  <2>1. \A o \in 0..Len(orders) : after[o] = Value(after, o)
    <3> HIDE DEF Value, after
    <3> QED
      BY <1>5
  <2> HIDE DEF after
  <2> QED
    BY <2>1 DEF IsRun
<1> QED
  BY <1>6, <1>7

(* What holds after n orders, whatever the configuration: who was chosen    *)
(* was eligible, and who was eligible passed the hard rules under some      *)
(* loads; if the negative weights add up to less than one and nothing       *)
(* raised, somebody was chosen whenever anybody passed.                     *)
WeightAt(c, weights, k) == Get(weights, c.scoring[k].name, 0)
Debt(c, weights) == Total([k \in ScoringAt(c) |-> Above(0, -WeightAt(c, weights, k))])
Scorable(c, weights) ==
  /\ IsConfig(c) /\ \A k \in DOMAIN c.scoring : c.scoring[k].name \in ScoringRules
  /\ \A n \in DOMAIN weights : weights[n] \in Int
  /\ Debt(c, weights) < One

RunAt(s, n, c, weights, orders, rows) ==
  /\ s.loads \in [IdsOf(rows) -> Int]
  /\ s.failed \in BOOLEAN
  /\ s.chosen \in Seq(IdsOf(rows) \cup {None}) /\ Len(s.chosen) = n
  /\ s.eligible \in Seq(SUBSET IdsOf(rows)) /\ Len(s.eligible) = n
  /\ \A q \in 1..n : s.chosen[q] \in s.eligible[q] \cup {None}
  /\ \A q \in 1..n : \A i \in s.eligible[q] :
        \E k \in DOMAIN rows : \E loads \in [IdsOf(rows) -> Int] :
            rows[k].id = i /\ k \in EligibleRows(c, orders[q], rows, loads)
  /\ Scorable(c, weights) /\ ~s.failed =>
        \A q \in 1..n : s.chosen[q] = None => s.eligible[q] = {}

LEMMA EffectiveRow ==
  ASSUME NEW rows, IsRows(rows), NEW k \in DOMAIN rows, NEW loads \in [IdsOf(rows) -> Int]
  PROVE  {Effective(rows, k, loads).pos, Effective(rows, k, loads).rating,
          Effective(rows, k, loads).load, Effective(rows, k, loads).avg_time} \subseteq Int
<1> DEFINE p == rows[k]
           x == loads[p.id]
           e == [p EXCEPT !.load = x]
<1>1. x \in Int /\ {p.pos, p.rating, p.avg_time, p.load} \subseteq Int
  BY RowsFacts DEF IsRow
<1>2. e.pos \in Int /\ e.rating \in Int /\ e.avg_time \in Int /\ e.load \in Int
  <2> HIDE DEF x, p
  <2> QED
    BY <1>1
<1> QED
  BY <1>2 DEF Effective

(* A score in [0, 1] takes away no more than a negative weight has. *)
LEMMA WeightedShare ==
  ASSUME NEW w \in Int, NEW v \in 0..One
  PROVE  w * v \in Int /\ (-1) * (w * v) <= One * Above(0, -w) + 0
<1>0. One \in Nat /\ v \in Nat /\ v <= One
  BY RulesAssumption
<1>1. CASE w >= 0
  <2>1. w * v >= 0 /\ w * v \in Int
    BY <1>0, <1>1
  <2>2. Above(0, -w) = 0
    BY <1>1 DEF Above
  <2> QED
    BY <1>0, <2>1, <2>2
<1>2. CASE w < 0
  <2> DEFINE u == -w
  <2>1. u \in Nat /\ w = -u /\ Above(0, -w) = u
    BY <1>2 DEF Above
  <2> HIDE DEF u
  <2>2. u * v <= u * One
    BY <1>0, <2>1
  <2>3. (-1) * (w * v) = u * v /\ w * v \in Int /\ One * u = u * One /\ u * One \in Int /\ u * v \in Int
    BY <1>0, <2>1
  <2>4. (-1) * (w * v) <= One * u
    BY <2>2, <2>3
  <2> QED
    BY <1>0, <2>1, <2>3, <2>4
<1> QED
  BY <1>1, <1>2

LEMMA WeightedIsEnough ==
  ASSUME NEW c, NEW weights, Scorable(c, weights), \A e \in EnabledEntries(c.scoring) : ~Raises(e),
         NEW order, order.pos \in Int,
         NEW p, {p.pos, p.rating, p.load, p.avg_time} \subseteq Int,
         NEW loads, IsFiniteSet(DOMAIN loads), \A i \in DOMAIN loads : loads[i] \in Int
  PROVE  /\ WeightedScore(c, weights, order, p, loads) \in Int
         /\ WeightedScore(c, weights, order, p, loads) > -One * One
<1> DEFINE S == ScoringAt(c)
           f == [k \in S |-> Get(weights, c.scoring[k].name, 0)
                               * Score(c.scoring[k], order, p, loads)]
           g == [k \in S |-> Above(0, -WeightAt(c, weights, k))]
<1>0. One \in Nat \ {0}
  BY RulesAssumption
<1>1. \A k \in S : f[k] \in Int /\ g[k] \in Int /\ (-1) * f[k] <= One * g[k] + 0
  <2> SUFFICES ASSUME NEW k \in S
               PROVE  f[k] \in Int /\ g[k] \in Int /\ (-1) * f[k] <= One * g[k] + 0
    OBVIOUS
  <2> DEFINE w == Get(weights, c.scoring[k].name, 0)
             v == Score(c.scoring[k], order, p, loads)
  <2>1. w \in Int
    BY DEF Get, Scorable
  <2>2. /\ IsEntry(c.scoring[k]) /\ c.scoring[k].name \in ScoringRules
        /\ c.scoring[k] \in EnabledEntries(c.scoring)
    BY DEF Scorable, IsConfig, IsList, ScoringAt, EnabledEntries
  <2>3. v \in 0..One
    BY <2>2, ScoreIsUnit
  <2>4. f[k] = w * v /\ g[k] = Above(0, -w)
    BY DEF WeightAt
  <2>5. Above(0, -w) \in Int
    <3> HIDE DEF w
    <3> QED
      BY <2>1 DEF Above
  <2>6. w * v \in Int /\ (-1) * (w * v) <= One * Above(0, -w) + 0
    <3> HIDE DEF w, v
    <3> QED
      BY <2>1, <2>3, WeightedShare
  <2> HIDE DEF w, v, f, g
  <2> QED
    BY <2>4, <2>5, <2>6
<1>2. IsFiniteSet(S) /\ Cardinality(S) \in Nat
  BY ConfigParts, FS_CardinalityType DEF Scorable
<1>3. Total(f) = Sum(f, S) /\ Total(g) = Sum(g, S)
  BY TotalIsSum
<1>4. Sum(g, S) < One
  <2>1. Total(g) < One
    BY DEF Scorable, Debt
  <2> HIDE DEF g, S
  <2> QED
    BY <1>3, <2>1
<1>5. WeightedScore(c, weights, order, p, loads) = Sum(f, S)
  BY <1>3 DEF WeightedScore
<1> HIDE DEF f, g, S
<1>6. Sum(f, S) \in Int /\ Sum(g, S) \in Int
  BY <1>1, <1>2, SumInt
<1>7. (-1) * Sum(f, S) <= One * Sum(g, S) + 0 * Cardinality(S)
  <2> DEFINE m == -1
             z == 0
  <2>1. m \in Int /\ z \in Int /\ One \in Int
    BY <1>0
  <2>2. \A k \in S : f[k] \in Int /\ g[k] \in Int /\ m * f[k] <= One * g[k] + z
    BY <1>1
  <2> HIDE DEF m, z
  <2>3. m * Sum(f, S) <= One * Sum(g, S) + z * Cardinality(S)
    BY <1>2, <2>1, <2>2, SumBound
  <2> QED
    BY <2>3 DEF m, z
<1> DEFINE x == Sum(f, S)
           d == Sum(g, S)
<1>8. x \in Int /\ d \in Int /\ d <= One - 1 /\ -x <= One * d
  BY <1>0, <1>2, <1>4, <1>6, <1>7
<1> HIDE DEF x, d
<1>9. One * d <= One * (One - 1)
  BY <1>0, <1>8
<1>10. One * (One - 1) = One * One - One /\ One * One \in Int /\ -One * One = -(One * One)
  BY <1>0
<1>11. One * d \in Int
  BY <1>0, <1>8
<1>12. x > -(One * One)
  <2> DEFINE a == One * d
             b == One * (One - 1)
             u == One * One
  <2>1. /\ a \in Int /\ u \in Int /\ -x <= a /\ a <= b /\ b = u - One
        /\ One \in Int /\ One > 0 /\ x \in Int
    BY <1>0, <1>8, <1>9, <1>10, <1>11
  <2> HIDE DEF a, b, u
  <2>2. x > -u
    BY <2>1
  <2> QED
    BY <2>2 DEF u
<1> QED
  BY <1>5, <1>8, <1>10, <1>12 DEF x

LEMMA BestRowFacts ==
  ASSUME NEW c, NEW weights, NEW order, NEW rows, IsRows(rows),
         NEW loads \in [IdsOf(rows) -> Int], NEW passing \in SUBSET DOMAIN rows
  PROVE  LET b == BestRow(c, weights, order, rows, loads, passing)
         IN  /\ b \in passing \cup {None}
             /\ /\ Scorable(c, weights) /\ order.pos \in Int
                /\ \A e \in EnabledEntries(c.scoring) : ~Raises(e)
                /\ passing # {}
                => b \in passing
<1> DEFINE score == [k \in passing |->
                       WeightedScore(c, weights, order, Effective(rows, k, loads), loads)]
           b == BestRow(c, weights, order, rows, loads, passing)
<1>1. b = FirstBest(score) /\ DOMAIN score = passing
  BY DEF BestRow
<1>2. b \in passing \cup {None}
  <2> HIDE DEF score, b
  <2> QED
    BY <1>1, BestIsEligible
<1>3. ASSUME Scorable(c, weights), order.pos \in Int,
             \A e \in EnabledEntries(c.scoring) : ~Raises(e), passing # {}
      PROVE  b \in passing
  <2>1. IsFiniteSet(passing) /\ passing \in SUBSET Int
    BY RowsFacts, FS_Subset
  <2>2. \A k \in passing : score[k] \in Int /\ score[k] > -One * One
    <3> DEFINE x(k) == WeightedScore(c, weights, order, Effective(rows, k, loads), loads)
    <3> SUFFICES ASSUME NEW k \in passing
                 PROVE  x(k) \in Int /\ x(k) > -One * One
      OBVIOUS
    <3>1. {Effective(rows, k, loads).pos, Effective(rows, k, loads).rating,
           Effective(rows, k, loads).load, Effective(rows, k, loads).avg_time} \subseteq Int
      BY EffectiveRow
    <3>2. IsFiniteSet(DOMAIN loads) /\ \A i \in DOMAIN loads : loads[i] \in Int
      BY RowsFacts
    <3> QED
      BY <1>3, <3>1, <3>2, WeightedIsEnough
  <2> HIDE DEF score, b
  <2> QED
    BY <1>1, <1>3, <2>1, <2>2, BestExists
<1> QED
  BY <1>2, <1>3

LEMMA RunStep ==
  ASSUME NEW c, NEW weights, NEW orders, NEW rows, IsRows(rows), NEW n \in Nat, NEW s,
         RunAt(s, n, c, weights, orders, rows), orders[n + 1].pos \in Int
  PROVE  RunAt(EvalStep(c, weights, orders, rows, s, n + 1), n + 1, c, weights, orders, rows)
<1> DEFINE order == orders[n + 1]
           passing == EligibleRows(c, order, rows, s.loads)
           raised == ScoreRaises(c, s, passing)
           best == IF raised THEN None ELSE BestRow(c, weights, order, rows, s.loads, passing)
           who == IF best = None THEN None ELSE rows[best].id
           who1 == {rows[k].id : k \in passing}
           t == EvalStep(c, weights, orders, rows, s, n + 1)
           Ids == IdsOf(rows)
<1>1. /\ t.loads = IF who = None THEN s.loads ELSE [s.loads EXCEPT ![who] = @ + 1]
      /\ t.chosen = Append(s.chosen, who)
      /\ t.eligible = Append(s.eligible, who1)
      /\ t.failed = raised
  BY DEF EvalStep, Ranked, Allocated
<1>2. passing \in SUBSET DOMAIN rows
  BY DEF EligibleRows
<1>3. s.loads \in [Ids -> Int]
  BY DEF RunAt
<1>4. best \in passing \cup {None}
  BY <1>2, <1>3, BestRowFacts
<1>5. who1 \in SUBSET Ids /\ Ids \subseteq Int /\ None \notin Int
  BY <1>2, RowsFacts, RulesAssumption
<1>6. who \in who1 \cup {None}
  BY <1>4
<1>7. t.loads \in [Ids -> Int]
  <2> HIDE DEF who, who1, t
  <2> QED
    BY <1>1, <1>3, <1>5, <1>6
<1>8. t.failed \in BOOLEAN
  BY <1>1 DEF ScoreRaises, RunAt
<1>9. /\ t.chosen \in Seq(Ids \cup {None}) /\ Len(t.chosen) = n + 1
      /\ t.chosen[n + 1] = who /\ \A q \in 1..n : t.chosen[q] = s.chosen[q]
  <2>1. s.chosen \in Seq(Ids \cup {None}) /\ Len(s.chosen) = n /\ who \in Ids \cup {None}
    BY <1>5, <1>6 DEF RunAt
  <2> HIDE DEF who, t, Ids
  <2> QED
    BY <1>1, <2>1
<1>10. /\ t.eligible \in Seq(SUBSET Ids) /\ Len(t.eligible) = n + 1
       /\ t.eligible[n + 1] = who1 /\ \A q \in 1..n : t.eligible[q] = s.eligible[q]
  <2>1. s.eligible \in Seq(SUBSET Ids) /\ Len(s.eligible) = n
    BY DEF RunAt
  <2> HIDE DEF who1, t, Ids
  <2> QED
    BY <1>1, <1>5, <2>1
<1>11. \A q \in 1..(n + 1) : t.chosen[q] \in t.eligible[q] \cup {None}
  <2> TAKE q \in 1..(n + 1)
  <2>1. CASE q = n + 1
    BY <1>6, <1>9, <1>10, <2>1
  <2>2. CASE q \in 1..n
    <3>1. s.chosen[q] \in s.eligible[q] \cup {None}
      BY <2>2 DEF RunAt
    <3> QED
      BY <1>9, <1>10, <2>2, <3>1
  <2> QED
    BY <2>1, <2>2
<1>12. \A q \in 1..(n + 1) : \A i \in t.eligible[q] :
          \E k \in DOMAIN rows : \E loads \in [Ids -> Int] :
              rows[k].id = i /\ k \in EligibleRows(c, orders[q], rows, loads)
  <2> TAKE q \in 1..(n + 1)
  <2>1. CASE q = n + 1
    <3> SUFFICES ASSUME NEW i \in who1
                 PROVE  \E k \in DOMAIN rows : \E loads \in [Ids -> Int] :
                          rows[k].id = i /\ k \in EligibleRows(c, order, rows, loads)
      BY <1>10, <2>1
    <3>1. PICK k \in passing : rows[k].id = i
      OBVIOUS
    <3> QED
      BY <1>2, <1>3, <3>1
  <2>2. CASE q \in 1..n
    <3>1. \A i \in s.eligible[q] :
            \E k \in DOMAIN rows : \E loads \in [Ids -> Int] :
                rows[k].id = i /\ k \in EligibleRows(c, orders[q], rows, loads)
      BY <2>2 DEF RunAt
    <3>2. t.eligible[q] = s.eligible[q]
      BY <1>10, <2>2
    <3> QED
      BY <3>1, <3>2
  <2> QED
    BY <2>1, <2>2
<1>13. ASSUME Scorable(c, weights), ~t.failed
       PROVE  \A q \in 1..(n + 1) : t.chosen[q] = None => t.eligible[q] = {}
  <2>1. ~raised /\ ~s.failed /\ (passing # {} => \A e \in EnabledEntries(c.scoring) : ~Raises(e))
    BY <1>1, <1>13 DEF ScoreRaises
  <2> TAKE q \in 1..(n + 1)
  <2>2. CASE q = n + 1
    <3>1. CASE passing = {}
      BY <1>10, <2>2, <3>1
    <3>2. CASE passing # {}
      <4>1. best = BestRow(c, weights, order, rows, s.loads, passing)
        BY <2>1
      <4>2. best \in passing
        BY <1>2, <1>3, <1>13, <2>1, <3>2, <4>1, BestRowFacts
      <4>3. best \in DOMAIN rows /\ best \in Int /\ rows[best].id \in Int
        BY <1>2, <1>5, <4>2, RowsFacts
      <4>4. who # None
        BY <1>5, <4>3
      <4> QED
        BY <1>9, <2>2, <4>4
    <3> QED
      BY <3>1, <3>2
  <2>3. CASE q \in 1..n
    <3>1. s.chosen[q] = None => s.eligible[q] = {}
      BY <1>13, <2>1, <2>3 DEF RunAt
    <3> QED
      BY <1>9, <1>10, <2>3, <3>1
  <2> QED
    BY <2>2, <2>3
<1> QED
  BY <1>7, <1>8, <1>9, <1>10, <1>11, <1>12, <1>13 DEF RunAt

LEMMA RunStart ==
  ASSUME NEW c, NEW weights, NEW orders, NEW rows, IsRows(rows),
         NEW observed, \A i \in DOMAIN observed : observed[i] \in Int
  PROVE  RunAt(EvalStart(rows, observed), 0, c, weights, orders, rows)
<1> DEFINE s == EvalStart(rows, observed)
<1>1. s.loads \in [IdsOf(rows) -> Int]
  BY StartLoadsFacts DEF EvalStart
<1>2. s.failed = FALSE /\ s.chosen = <<>> /\ s.eligible = <<>>
  BY DEF EvalStart
<1> HIDE DEF s
<1>3. \A q \in 1..0 : FALSE
  OBVIOUS
<1>4. /\ s.chosen \in Seq(IdsOf(rows) \cup {None}) /\ Len(s.chosen) = 0
      /\ s.eligible \in Seq(SUBSET IdsOf(rows)) /\ Len(s.eligible) = 0
  BY <1>2
<1>5. s.failed \in BOOLEAN
  BY <1>2
<1>6. RunAt(s, 0, c, weights, orders, rows)
  BY <1>1, <1>3, <1>4, <1>5, Zenon DEF RunAt
<1> QED
  BY <1>6 DEF s

LEMMA RunFacts ==
  ASSUME NEW c, NEW weights, NEW orders, IsOrders(orders), NEW rows, IsRows(rows),
         NEW observed, \A i \in DOMAIN observed : observed[i] \in Int
  PROVE  RunAt(Evaluate(c, weights, orders, rows, observed), Len(orders), c, weights, orders, rows)
<1> DEFINE m == Len(orders)
<1>1. m \in Nat /\ \A o \in 1..m : orders[o].pos \in Int
  BY DEF IsOrders
<1>2. PICK after : /\ IsRun(after, m, c, weights, orders, rows, observed)
                   /\ Evaluate(c, weights, orders, rows, observed) = after[m]
  BY <1>1, EvaluateRuns
<1> DEFINE Good == {n \in Nat : n <= m => RunAt(after[n], n, c, weights, orders, rows)}
<1>3. 0 \in Good
  BY <1>2, RunStart DEF IsRun
<1>4. \A n \in Nat : n \in Good => n + 1 \in Good
  <2> SUFFICES ASSUME NEW n \in Nat, n \in Good, n + 1 <= m
               PROVE  RunAt(after[n + 1], n + 1, c, weights, orders, rows)
    OBVIOUS
  <2>1. n + 1 \in 1..m /\ n <= m /\ (n + 1) - 1 = n
    BY <1>1
  <2>2. RunAt(after[n], n, c, weights, orders, rows)
    BY <2>1
  <2>3. after[n + 1] = EvalStep(c, weights, orders, rows, after[n], n + 1)
    <3>1. after[n + 1] = EvalStep(c, weights, orders, rows, after[(n + 1) - 1], n + 1)
      BY <1>2, <2>1 DEF IsRun
    <3> QED
      BY <2>1, <3>1
  <2> QED
    BY <1>1, <2>1, <2>2, <2>3, RunStep
<1>5. m \in Good
  <2> HIDE DEF Good
  <2> QED
    BY <1>1, <1>3, <1>4, NatInduction1
<1> QED
  BY <1>1, <1>2, <1>5

-----------------------------------------------------------------------------
(* What is read of a request, and what is made of it.                       *)

LEMMA SeqLength ==
  ASSUME NEW rows, rows \in Seq({rows[k] : k \in DOMAIN rows})
  PROVE  Len(rows) \in Nat /\ DOMAIN rows = 1..Len(rows)
OBVIOUS

LEMMA OrdersTyped ==
  ASSUME NEW json, IsOrderJson(json), NormalizedOrder(json) # None
  PROVE  /\ NormalizedOrder(json).pos \in Int
         /\ Kept(NormalizedOrder(json).pos) \in Int
<1> DEFINE pos == Or(json.pos, json.restaurant_location)
<1>1. pos # None /\ NormalizedOrder(json).pos = pos
  BY DEF NormalizedOrder
<1>2. pos \in Int
  BY <1>1 DEF IsOrderJson, Or
<1>3. Kept(pos) \in Int
  <2> HIDE DEF pos
  <2> QED
    BY <1>2, PayloadsAssumption DEF Kept
<1> QED
  BY <1>1, <1>2, <1>3

HasFields(p) ==
  p = [id |-> p.id, pos |-> p.pos, available |-> p.available, active |-> p.active,
       rating |-> p.rating, types |-> p.types, load |-> p.load, condition |-> p.condition,
       avg_time |-> p.avg_time, raw |-> p.raw]

LEMMA PartnersTyped ==
  ASSUME NEW json, IsPartnerJson(json), NormalizedPartner(json) # None
  PROVE  LET p == NormalizedPartner(json)
         IN  /\ IsRow(p) /\ IsRow([p EXCEPT !.pos = Kept(@)])
             /\ p.id = json.id /\ [p EXCEPT !.pos = Kept(@)].id = json.id
             /\ p.load = [p EXCEPT !.pos = Kept(@)].load /\ HasFields([p EXCEPT !.pos = Kept(@)])
<1> DEFINE pos == Or(json.pos, json.current_location)
           p == NormalizedPartner(json)
           r == [p EXCEPT !.pos = Kept(@)]
           raw == Or(CoerceRaw(Or(json.raw, json.vehicle_type)), json.raw)
           single == CoerceVehicle(Or(json.vehicle_type, json.raw))
           types == IF json.types = {} /\ single # None THEN {single} ELSE json.types
<1>1. pos # None
  BY DEF NormalizedPartner
<1>2. p = [id |-> json.id, pos |-> pos, available |-> json.available,
           active |-> json.active, rating |-> json.rating, types |-> types,
           load |-> json.load, condition |-> json.condition,
           avg_time |-> json.avg_time, raw |-> raw]
  BY DEF NormalizedPartner
<1>3. pos \in Int /\ {json.id, json.rating, json.load, json.condition, json.avg_time} \subseteq Int
  BY <1>1 DEF IsPartnerJson, Or
<1>4. Kept(pos) \in Int
  <2> HIDE DEF pos
  <2> QED
    BY <1>3, PayloadsAssumption DEF Kept
<1> HIDE DEF p, pos, types, raw
<1>5. r = [id |-> json.id, pos |-> Kept(pos), available |-> json.available,
           active |-> json.active, rating |-> json.rating, types |-> types,
           load |-> json.load, condition |-> json.condition,
           avg_time |-> json.avg_time, raw |-> raw]
  BY <1>2
<1>6. IsRow(p) /\ p.id = json.id
  BY <1>2, <1>3 DEF IsRow
<1>7. IsRow(r) /\ r.id = json.id /\ p.load = r.load /\ HasFields(r)
  <2>1. p.load = json.load
    BY <1>2
  <2> HIDE DEF r
  <2>2. r.load = json.load /\ HasFields(r)
    BY <1>5 DEF HasFields
  <2> QED
    BY <1>3, <1>4, <1>5, <2>1, <2>2 DEF IsRow
<1> QED
  BY <1>6, <1>7 DEF p

LEMMA RequestTyped ==
  ASSUME payload \in Inputs, Acceptable
  PROVE  /\ IsOrders(Orders) /\ IsOrders(Restored(Orders))
         /\ DOMAIN Orders = DOMAIN payload.orders /\ DOMAIN Restored(Orders) = DOMAIN payload.orders
         /\ Len(Orders) = Len(Restored(Orders))
         /\ IsRows(Partners) /\ IsRows(Restored(Partners))
         /\ DOMAIN Partners = DOMAIN payload.partners
         /\ \A k \in DOMAIN payload.partners : Partners[k].id = payload.partners[k].id
         /\ IdsOf(Restored(Partners)) = IdsOf(Partners)
<1> DEFINE o == payload.orders
           p == payload.partners
           n == Len(o)
           m == Len(p)
<1>1. /\ n \in Nat /\ DOMAIN o = 1..n /\ \A k \in 1..n : IsOrderJson(o[k])
      /\ m \in Nat /\ DOMAIN p = 1..m /\ \A k \in 1..m : IsPartnerJson(p[k])
  <2>1. IsListOf(o, IsOrderJson) /\ IsListOf(p, IsPartnerJson)
    BY WhatIfAssumption
  <2>2. /\ o \in Seq({o[k] : k \in DOMAIN o}) /\ \A k \in DOMAIN o : IsOrderJson(o[k])
        /\ p \in Seq({p[k] : k \in DOMAIN p}) /\ \A k \in DOMAIN p : IsPartnerJson(p[k])
    BY <2>1 DEF IsListOf
  <2> QED
    BY <2>2, SeqLength
<1>2. /\ \A k \in 1..n : NormalizedOrder(o[k]) # None
      /\ \A k \in 1..m : NormalizedPartner(p[k]) # None
  BY <1>1 DEF Acceptable, AllAccepted, Orders, Partners
<1> DEFINE os == Orders
           rs == Restored(Orders)
           ps == Partners
           qs == Restored(Partners)
<1>3. os = [k \in 1..n |-> NormalizedOrder(o[k])] /\ DOMAIN os = 1..n
  BY <1>1 DEF Orders
<1>4. rs = [k \in 1..n |-> [os[k] EXCEPT !.pos = Kept(@)]] /\ DOMAIN rs = 1..n
  BY <1>3 DEF Restored
<1>5. ps = [k \in 1..m |-> NormalizedPartner(p[k])] /\ DOMAIN ps = 1..m
  BY <1>1 DEF Partners
<1>6. qs = [k \in 1..m |-> [ps[k] EXCEPT !.pos = Kept(@)]] /\ DOMAIN qs = 1..m
  BY <1>5 DEF Restored
<1> HIDE DEF os, rs, ps, qs, n, m
<1>7. Len(os) = n /\ Len(rs) = n
  BY <1>1, <1>3, <1>4
<1>8. \A k \in 1..n : os[k].pos \in Int /\ rs[k].pos \in Int
  <2> TAKE k \in 1..n
  <2> DEFINE x == NormalizedOrder(o[k])
             y == [x EXCEPT !.pos = Kept(@)]
  <2>1. os[k] = x /\ rs[k] = y
    BY <1>3, <1>4
  <2>2. x.pos \in Int /\ Kept(x.pos) \in Int
    BY <1>1, <1>2, OrdersTyped
  <2>3. y.pos = Kept(x.pos)
    BY <1>2 DEF NormalizedOrder
  <2> QED
    BY <2>1, <2>2, <2>3
<1>9. \A k \in 1..m : IsRow(ps[k]) /\ IsRow(qs[k]) /\ ps[k].id = p[k].id /\ qs[k].id = p[k].id
  BY <1>1, <1>2, <1>5, <1>6, PartnersTyped
<1>10. IsOrders(os) /\ IsOrders(rs)
  BY <1>1, <1>3, <1>4, <1>7, <1>8 DEF IsOrders
<1>11. IsRows(ps) /\ IsRows(qs)
  BY <1>1, <1>5, <1>6, <1>9 DEF IsRows
<1>12. IdsOf(qs) = IdsOf(ps)
  BY <1>5, <1>6, <1>9 DEF IdsOf
<1> QED
  BY <1>1, <1>3, <1>4, <1>5, <1>7, <1>9, <1>10, <1>11, <1>12 DEF os, rs, ps, qs

-----------------------------------------------------------------------------
(* What the mutations do.                                                   *)

LEMMA AscendingFacts ==
  ASSUME NEW ids \in SUBSET Int, IsFiniteSet(ids)
  PROVE  /\ Cardinality(ids) \in Nat /\ DOMAIN Ascending(ids) = 1..Cardinality(ids)
         /\ \A k \in 1..Cardinality(ids) : Ascending(ids)[k] \in ids
         /\ \A j, k \in 1..Cardinality(ids) : j < k => Ascending(ids)[j] < Ascending(ids)[k]
         /\ \A i \in ids : \E k \in 1..Cardinality(ids) : Ascending(ids)[k] = i
<1> DEFINE n == Cardinality(ids)
           upto(i) == {j \in ids : j <= i}
           f == [i \in ids |-> Cardinality(upto(i))]
<1>1. n \in Nat
  BY FS_CardinalityType
<1>2. \A i \in ids : IsFiniteSet(upto(i)) /\ f[i] \in 1..n
  <2> TAKE i \in ids
  <2>1. upto(i) \subseteq ids /\ i \in upto(i)
    OBVIOUS
  <2> HIDE DEF upto
  <2>2. IsFiniteSet(upto(i)) /\ Cardinality(upto(i)) <= n
    BY <2>1, FS_Subset
  <2>3. Cardinality(upto(i)) \in Nat /\ Cardinality(upto(i)) # 0
    BY <2>1, <2>2, FS_CardinalityType, FS_EmptySet
  <2> QED
    BY <1>1, <2>2, <2>3
<1>3. \A i, j \in ids : i < j => f[i] < f[j]
  <2> SUFFICES ASSUME NEW i \in ids, NEW j \in ids, i < j
               PROVE  f[i] < f[j]
    OBVIOUS
  <2>1. upto(i) \subseteq upto(j) /\ j \in upto(j) /\ j \notin upto(i)
    <3>1. i \in Int /\ j \in Int /\ \A l \in ids : l \in Int
      OBVIOUS
    <3>2. \A l \in ids : l <= i => l <= j
      BY <3>1
    <3>3. j <= j /\ ~(j <= i)
      BY <3>1
    <3> QED
      BY <3>2, <3>3
  <2>2. IsFiniteSet(upto(j)) /\ f[i] = Cardinality(upto(i)) /\ f[j] = Cardinality(upto(j))
        /\ f[i] \in Nat /\ f[j] \in Nat
    BY <1>2
  <2> HIDE DEF upto, f
  <2>3. Cardinality(upto(i)) <= Cardinality(upto(j))
        /\ (Cardinality(upto(i)) = Cardinality(upto(j)) => upto(i) = upto(j))
    BY <2>1, <2>2, FS_Subset
  <2> QED
    BY <2>1, <2>2, <2>3
<1>4. f \in Injection(ids, 1..n)
  <2>1. f \in [ids -> 1..n]
    BY <1>2
  <2>2. \A i, j \in ids : f[i] = f[j] => i = j
    <3> TAKE i \in ids, j \in ids
    <3>1. i \in Int /\ j \in Int /\ f[i] \in Int /\ f[j] \in Int
      BY <1>2
    <3> HIDE DEF f
    <3> QED
      BY <1>3, <3>1
  <2> HIDE DEF f
  <2> QED
    BY <2>1, <2>2 DEF Injection, IsInjective
<1>5. IsFiniteSet(1..n) /\ Cardinality(1..n) = n
  BY <1>1, FS_Interval
<1>6. f \in Surjection(ids, 1..n)
  <2> HIDE DEF f
  <2> QED
    BY <1>4, <1>5, FS_Injection
<1>7. \A k \in 1..n : \E i \in ids : Cardinality(upto(i)) = k
  BY <1>6 DEF Surjection
<1>8. Ascending(ids) = [k \in 1..n |-> CHOOSE i \in ids : Cardinality(upto(i)) = k]
  BY DEF Ascending
<1>9. \A i \in ids : f[i] = Cardinality(upto(i)) /\ i \in Int
  OBVIOUS
<1>10. \A i, j \in ids : f[i] = f[j] => i = j
  BY <1>4 DEF Injection, IsInjective
<1> DEFINE sorted == Ascending(ids)
<1>11. DOMAIN sorted = 1..n
  BY <1>8
<1> HIDE DEF upto, f
<1>12. \A k \in 1..n : sorted[k] \in ids /\ f[sorted[k]] = k
  <2> TAKE k \in 1..n
  <2>1. sorted[k] = CHOOSE i \in ids : Cardinality(upto(i)) = k
    BY <1>8
  <2> HIDE DEF sorted
  <2>2. sorted[k] \in ids /\ Cardinality(upto(sorted[k])) = k
    BY <1>7, <2>1
  <2> QED
    BY <1>9, <2>2
<1> HIDE DEF sorted, n
<1>13. ASSUME NEW j \in 1..n, NEW k \in 1..n, j < k
       PROVE  sorted[j] < sorted[k]
  <2>1. sorted[j] \in ids /\ sorted[k] \in ids /\ f[sorted[j]] = j /\ f[sorted[k]] = k
    BY <1>12
  <2>2. sorted[k] < sorted[j] => k < j
    BY <1>3, <2>1
  <2>3. sorted[j] # sorted[k]
    BY <1>13, <2>1
  <2> QED
    <3>0. j \in Int /\ k \in Int
      BY <1>1
    <3>1. sorted[j] \in Int /\ sorted[k] \in Int
      <4>1. \A i \in ids : i \in Int
        BY <1>9
      <4> QED
        BY <2>1, <4>1, Zenon
    <3>2. ~(sorted[k] < sorted[j])
      BY <1>13, <2>2, <3>0
    <3> QED
      BY <2>3, <3>1, <3>2
<1>14. ASSUME NEW i \in ids
       PROVE  \E k \in 1..n : sorted[k] = i
  <2>1. f[i] \in 1..n
    BY <1>2
  <2>2. sorted[f[i]] = i
    BY <1>10, <1>12, <2>1
  <2> QED
    BY <2>1, <2>2
<1> QED
  BY <1>1, <1>11, <1>12, <1>13, <1>14 DEF n, sorted

LEMMA LastRowIn ==
  ASSUME NEW rows, rows \in Seq({rows[k] : k \in DOMAIN rows}), NEW i \in IdsOf(rows)
  PROVE  \E k \in DOMAIN rows : LastRow(rows, i) = rows[k] /\ rows[k].id = i
BY SeqLength, LastRowFacts

LEMMA RebuiltIsRow ==
  ASSUME NEW p, IsPartnerPayload(p)
  PROVE  IsRow(RebuiltPartner(p)) /\ RebuiltPartner(p).id = p.id
BY DEF RebuiltPartner, IsRow, IsPartnerPayload

LEMMA PoolIds ==
  ASSUME NEW rows, rows \in Seq({rows[k] : k \in DOMAIN rows}),
         \A k \in DOMAIN rows : IsPartnerPayload(rows[k])
  PROVE  IsFiniteSet(IdsOf(rows)) /\ IdsOf(rows) \subseteq Int
<1>1. IsFiniteSet(DOMAIN rows)
  BY SeqLength, FS_Interval
<1> DEFINE f == [k \in DOMAIN rows |-> rows[k].id]
<1>2. IdsOf(rows) = {f[k] : k \in DOMAIN rows}
  BY DEF IdsOf
<1>3. IsFiniteSet(IdsOf(rows))
  <2> HIDE DEF f
  <2> QED
    BY <1>1, <1>2, FiniteImage
<1> QED
  BY <1>3 DEF IdsOf, IsPartnerPayload

LEMMA PoolIsRows ==
  ASSUME NEW rows, IsRows(rows), NEW m, IsMutation(m), m.type = "partner_pool"
  PROVE  IsRows(Pool(rows, m))
<1> DEFINE ids == (IdsOf(rows) \ m.remove) \cup IdsOf(m.modify) \cup IdsOf(m.add)
           row(i) == IF i \in IdsOf(m.add) THEN RebuiltPartner(LastRow(m.add, i))
                     ELSE IF i \in IdsOf(m.modify) THEN RebuiltPartner(LastRow(m.modify, i))
                     ELSE LastRow(rows, i)
           sorted == Ascending(ids)
           pool == [k \in DOMAIN sorted |-> row(sorted[k])]
<1>1. /\ m.add \in Seq({m.add[k] : k \in DOMAIN m.add})
      /\ \A k \in DOMAIN m.add : IsPartnerPayload(m.add[k])
      /\ m.modify \in Seq({m.modify[k] : k \in DOMAIN m.modify})
      /\ \A k \in DOMAIN m.modify : IsPartnerPayload(m.modify[k])
  <2>1. IsListOf(m.add, IsPartnerPayload) /\ IsListOf(m.modify, IsPartnerPayload)
    BY DEF IsMutation
  <2> QED
    BY <2>1 DEF IsListOf
<1>2. ids \in SUBSET Int /\ IsFiniteSet(ids)
  <2>1. IsFiniteSet(IdsOf(m.add)) /\ IdsOf(m.add) \subseteq Int
    BY <1>1, PoolIds
  <2>2. IsFiniteSet(IdsOf(m.modify)) /\ IdsOf(m.modify) \subseteq Int
    BY <1>1, PoolIds
  <2>3. IsFiniteSet(IdsOf(rows)) /\ IdsOf(rows) \subseteq Int
    BY RowsFacts
  <2>4. IsFiniteSet(IdsOf(rows) \ m.remove)
    BY <2>3, FS_Subset
  <2>5. IsFiniteSet((IdsOf(rows) \ m.remove) \cup IdsOf(m.modify))
    BY <2>2, <2>4, FS_Union
  <2> QED
    BY <2>1, <2>2, <2>3, <2>5, FS_Union
<1>3. \A i \in ids : IsRow(row(i)) /\ row(i).id = i
  <2> TAKE i \in ids
  <2>1. CASE i \in IdsOf(m.add)
    <3>1. PICK k \in DOMAIN m.add : LastRow(m.add, i) = m.add[k] /\ m.add[k].id = i
      BY <1>1, <2>1, LastRowIn
    <3> QED
      BY <1>1, <2>1, <3>1, RebuiltIsRow
  <2>2. CASE i \notin IdsOf(m.add) /\ i \in IdsOf(m.modify)
    <3>1. PICK k \in DOMAIN m.modify : LastRow(m.modify, i) = m.modify[k] /\ m.modify[k].id = i
      BY <1>1, <2>2, LastRowIn
    <3> QED
      BY <1>1, <2>2, <3>1, RebuiltIsRow
  <2>3. CASE i \notin IdsOf(m.add) /\ i \notin IdsOf(m.modify)
    <3>1. i \in IdsOf(rows)
      BY <2>3
    <3>2. PICK n \in Nat : DOMAIN rows = 1..n /\ \A k \in 1..n : IsRow(rows[k])
      BY DEF IsRows
    <3>3. PICK k \in 1..n : LastRow(rows, i) = rows[k] /\ rows[k].id = i
      BY <3>1, <3>2, LastRowFacts
    <3> QED
      BY <2>3, <3>2, <3>3
  <2> QED
    BY <2>1, <2>2, <2>3
<1> HIDE DEF row, ids
<1>4. /\ Cardinality(ids) \in Nat /\ DOMAIN sorted = 1..Cardinality(ids)
      /\ \A k \in 1..Cardinality(ids) : sorted[k] \in ids
  BY <1>2, AscendingFacts
<1> HIDE DEF sorted
<1>5. IsRows(pool)
  BY <1>3, <1>4 DEF IsRows
<1>6. Pool(rows, m) = pool
  BY DEF Pool, ids, row, sorted
<1> QED
  BY <1>5, <1>6

LEMMA FirstFacts ==
  ASSUME NEW at \in SUBSET Nat, at # {}
  PROVE  First(at) \in at /\ \A j \in at : First(at) <= j
<1>1. PICK m \in at : \A l \in at : ~(<<l, m>> \in OpToRel(<, Nat))
  BY NatLessThanWellFounded, WFMin, Zenon
<1>2. ASSUME NEW j \in at PROVE m <= j
  <2>1. j \in Nat /\ m \in Nat
    OBVIOUS
  <2>2. j < m => <<j, m>> \in OpToRel(<, Nat)
    BY <2>1 DEF OpToRel
  <2>3. ~(j < m)
    BY <1>1, <2>2, Zenon
  <2> QED
    BY <2>1, <2>3
<1> QED
  BY <1>2 DEF First

LEMMA FoundFacts ==
  ASSUME NEW c, IsConfig(c), NEW name, RuleKnown(c, name)
  PROVE  /\ IsEntry(Found(c, name)) /\ Found(c, name).name = name
         /\ Named(c.hard, name) # {} => First(Named(c.hard, name)) \in Named(c.hard, name)
         /\ Named(c.scoring, name) # {} => First(Named(c.scoring, name)) \in Named(c.scoring, name)
<1>1. IsList(c.hard) /\ IsList(c.scoring)
  BY DEF IsConfig
<1>2. Named(c.hard, name) \in SUBSET Nat /\ Named(c.scoring, name) \in SUBSET Nat
  BY <1>1, SeqLength DEF Named, IsList
<1>3. /\ Named(c.hard, name) # {} => First(Named(c.hard, name)) \in Named(c.hard, name)
      /\ Named(c.scoring, name) # {} => First(Named(c.scoring, name)) \in Named(c.scoring, name)
  BY <1>2, FirstFacts
<1>4. Named(c.hard, name) # {} \/ Named(c.scoring, name) # {}
  BY DEF RuleKnown
<1>5. /\ \A k \in Named(c.hard, name) : IsEntry(c.hard[k]) /\ c.hard[k].name = name
      /\ \A k \in Named(c.scoring, name) : IsEntry(c.scoring[k]) /\ c.scoring[k].name = name
  BY <1>1 DEF Named, IsList
<1> QED
  BY <1>3, <1>4, <1>5 DEF Found

LEMMA EditedList ==
  ASSUME NEW xs, IsList(xs), NEW k \in DOMAIN xs, NEW e, IsEntry(e), e.name = xs[k].name
  PROVE  LET ys == [xs EXCEPT ![k] = e]
         IN  /\ IsList(ys) /\ DOMAIN ys = DOMAIN xs
             /\ \A j \in DOMAIN ys : ys[j].name = xs[j].name
<1> DEFINE ys == [xs EXCEPT ![k] = e]
           n == Len(xs)
<1>1. n \in Nat /\ DOMAIN xs = 1..n /\ \A j \in 1..n : IsEntry(xs[j])
  BY SeqLength DEF IsList
<1>2. xs = [j \in 1..n |-> xs[j]]
  <2>1. xs \in Seq({xs[j] : j \in DOMAIN xs})
    BY DEF IsList
  <2> QED
    BY <1>1, <2>1
<1>3. ys = [j \in 1..n |-> IF j = k THEN e ELSE xs[j]] /\ DOMAIN ys = 1..n
  BY <1>1, <1>2
<1>4. \A j \in 1..n : IsEntry(ys[j]) /\ ys[j].name = xs[j].name
  <2> HIDE DEF ys
  <2> QED
    BY <1>1, <1>3
<1>5. ys \in Seq({ys[j] : j \in DOMAIN ys})
  <2>1. ys = [j \in 1..n |-> ys[j]] /\ \A j \in 1..n : ys[j] \in {ys[i] : i \in DOMAIN ys}
    BY <1>3
  <2> HIDE DEF ys
  <2> QED
    BY <1>1, <1>3, <2>1
<1>6. IsList(ys)
  <2> HIDE DEF ys
  <2> QED
    BY <1>3, <1>4, <1>5 DEF IsList
<1> QED
  BY <1>1, <1>3, <1>4, <1>6

LEMMA EditedConfig ==
  ASSUME NEW c, IsConfig(c), Builds(c), NEW name, RuleKnown(c, name),
         NEW e, IsEntry(e), e.name = name
  PROVE  IsConfig(Edited(c, name, e)) /\ Builds(Edited(c, name, e))
<1> DEFINE Row(h, s) == [hard |-> h, scoring |-> s, weights |-> c.weights,
                         compat |-> c.compat, threshold |-> c.threshold, factor |-> c.factor]
           a == First(Named(c.hard, name))
           b == First(Named(c.scoring, name))
           d == Edited(c, name, e)
<1>1. c = Row(c.hard, c.scoring) /\ IsList(c.hard) /\ IsList(c.scoring)
      /\ IsWeights(c.weights) /\ c.threshold \in Int /\ c.factor \in Int
  BY DEF IsConfig
<1>2. CASE Named(c.hard, name) # {}
  <2>1. a \in DOMAIN c.hard /\ c.hard[a].name = name
    <3>1. a \in Named(c.hard, name)
      BY <1>2, FoundFacts
    <3> QED
      BY <3>1 DEF Named
  <2> DEFINE ys == [c.hard EXCEPT ![a] = e]
  <2>2. IsList(ys) /\ DOMAIN ys = DOMAIN c.hard /\ \A j \in DOMAIN ys : ys[j].name = c.hard[j].name
    <3> HIDE DEF a
    <3> QED
      BY <1>1, <2>1, EditedList
  <2>3. d = [c EXCEPT !.hard = ys]
    BY <1>1, <1>2 DEF Edited
  <2> HIDE DEF ys, d
  <2>4. d = Row(ys, c.scoring)
    BY <1>1, <2>3
  <2>5. IsConfig(d)
    BY <1>1, <2>2, <2>4 DEF IsConfig
  <2>6. Builds(d)
    BY <2>2, <2>4 DEF Builds
  <2> QED
    BY <2>5, <2>6 DEF d
<1>3. CASE Named(c.hard, name) = {}
  <2>1. b \in DOMAIN c.scoring /\ c.scoring[b].name = name
    <3>1. b \in Named(c.scoring, name)
      BY <1>3, FoundFacts DEF RuleKnown
    <3> QED
      BY <3>1 DEF Named
  <2> DEFINE ys == [c.scoring EXCEPT ![b] = e]
  <2>2. IsList(ys) /\ DOMAIN ys = DOMAIN c.scoring /\ \A j \in DOMAIN ys : ys[j].name = c.scoring[j].name
    <3> HIDE DEF b
    <3> QED
      BY <1>1, <2>1, EditedList
  <2>3. d = [c EXCEPT !.scoring = ys]
    BY <1>1, <1>3 DEF Edited
  <2> HIDE DEF ys, d
  <2>4. d = Row(c.hard, ys)
    BY <1>1, <2>3
  <2>5. IsConfig(d)
    BY <1>1, <2>2, <2>4 DEF IsConfig
  <2>6. Builds(d)
    BY <2>2, <2>4 DEF Builds
  <2> QED
    BY <2>5, <2>6 DEF d
<1> QED
  BY <1>2, <1>3

LEMMA ParameterChanged ==
  ASSUME NEW e, IsEntry(e), NEW key, NEW value, IsParam(key, value)
  PROVE  LET d == [e EXCEPT !.params = Put(@, key, value)]
         IN  IsEntry(d) /\ d.name = e.name
<1> DEFINE ps == Put(e.params, key, value)
           d == [name |-> e.name, enabled |-> e.enabled, params |-> ps, deps |-> e.deps]
<1>1. \A k \in DOMAIN ps : IsParam(k, ps[k])
  <2> TAKE k \in DOMAIN ps
  <2>1. (k = key /\ ps[k] = value) \/ (k \in DOMAIN e.params /\ ps[k] = e.params[k])
    BY DEF Put
  <2> HIDE DEF ps
  <2> QED
    BY <2>1 DEF IsEntry
<1> HIDE DEF ps
<1>2. [e EXCEPT !.params = ps] = d
  BY DEF IsEntry
<1>3. IsEntry(d) /\ d.name = e.name
  BY <1>1 DEF IsEntry
<1> QED
  BY <1>2, <1>3 DEF ps

LEMMA Toggled ==
  ASSUME NEW e, IsEntry(e), NEW on \in BOOLEAN
  PROVE  LET d == [e EXCEPT !.enabled = on]
         IN  IsEntry(d) /\ d.name = e.name
<1> DEFINE d == [name |-> e.name, enabled |-> on, params |-> e.params, deps |-> e.deps]
<1>1. [e EXCEPT !.enabled = on] = d
  BY DEF IsEntry
<1>2. IsEntry(d) /\ d.name = e.name
  BY DEF IsEntry
<1> QED
  BY <1>1, <1>2

LEMMA Reweighted ==
  ASSUME NEW c, IsConfig(c), Builds(c), NEW name, NEW w \in Int
  PROVE  LET d == [c EXCEPT !.weights = Put(@, name, w)]
         IN  IsConfig(d) /\ Builds(d)
<1> DEFINE ws == Put(c.weights, name, w)
           d == [hard |-> c.hard, scoring |-> c.scoring, weights |-> ws,
                 compat |-> c.compat, threshold |-> c.threshold, factor |-> c.factor]
<1>1. IsWeights(ws)
  <2>1. ws = [n \in DOMAIN ws |-> ws[n]] /\ DOMAIN ws = DOMAIN c.weights \cup {name}
    BY DEF Put
  <2>2. IsFiniteSet(DOMAIN c.weights) /\ \A n \in DOMAIN c.weights : c.weights[n] \in Int
    BY DEF IsConfig, IsWeights
  <2>3. IsFiniteSet(DOMAIN ws)
    BY <2>1, <2>2, FS_AddElement
  <2>4. \A n \in DOMAIN ws : ws[n] \in Int
    BY <2>2 DEF Put
  <2> QED
    BY <2>1, <2>3, <2>4 DEF IsWeights
<1> HIDE DEF ws
<1>2. [c EXCEPT !.weights = ws] = d
  BY DEF IsConfig
<1>3. IsConfig(d) /\ Builds(d)
  BY <1>1 DEF IsConfig, Builds
<1> QED
  BY <1>2, <1>3 DEF ws

-----------------------------------------------------------------------------
(* The invariant: once stored, the decision is the one of the request under *)
(* the loaded configuration; while mutations are applied, what they are     *)
(* applied to remains a configuration and a list of partners; and an answer *)
(* is the simulation of the two.                                            *)

StoredAs(selected) ==
  [config |-> Loaded(yaml), orders |-> Restored(Orders), partners |-> Restored(Partners),
   loads |-> BaseLoads, escalated |-> Escalates(Loaded(yaml), BaseLoads),
   chosen |-> Decision.chosen, selected |-> selected]
StoredWell ==
  /\ Acceptable /\ Builds(yaml) /\ ~Decision.failed
  /\ \E selected \in ReservedOutcomes(Decision) : stored = StoredAs(selected)
AfterOne(m) ==
  /\ snapshot = IF m.type = "partner_pool" THEN Pool(stored.partners, m) ELSE stored.partners
  /\ m.type = "partner_pool" => config = stored.config
  /\ m.type = "rule_weight" =>
        config = [stored.config EXCEPT !.weights = Put(@, m.rule, m.value)]
  /\ m.type = "rule_toggle" =>
        /\ RuleKnown(stored.config, m.rule)
        /\ config = Edited(stored.config, m.rule,
                           [Found(stored.config, m.rule) EXCEPT !.enabled = m.value])
MutatedWell ==
  /\ step \in 1..(Len(spec) + 1)
  /\ IsConfig(config) /\ Builds(config) /\ IsRows(snapshot)
  /\ step = 1 => config = stored.config /\ snapshot = stored.partners
  /\ step = 2 => AfterOne(spec[1])
AnsweredWell ==
  /\ step = Len(spec) + 1 /\ Evaluable
  /\ reply = [allocations |-> Simulated(config, snapshot).chosen,
              changed |-> Changed(stored.selected, Simulated(config, snapshot).chosen)]

IsNew == /\ stage \in {"new", "refused", "failed"}
         /\ stored = None /\ reply = None /\ spec = <<>> /\ step = 1
IsStored == stage = "stored" /\ StoredWell /\ reply = None /\ spec = <<>> /\ step = 1
IsMutating == stage = "mutating" /\ StoredWell /\ MutatedWell /\ reply = None
IsAnswered == stage = "answered" /\ StoredWell /\ MutatedWell /\ (reply = None \/ AnsweredWell)

WInv ==
  /\ yaml \in Configs /\ payload \in Inputs /\ spec \in Specs \cup {<<>>}
  /\ IsNew \/ IsStored \/ IsMutating \/ IsAnswered

LEMMA SpecLength ==
  ASSUME NEW s \in Specs \cup {<<>>}
  PROVE  /\ Len(s) \in Nat /\ DOMAIN s = 1..Len(s)
         /\ \A k \in DOMAIN s : IsMutation(s[k])
<1>1. CASE s = <<>>
  BY <1>1
<1>2. CASE s \in Specs
  <2>1. s \in Seq({s[k] : k \in DOMAIN s}) /\ \A k \in DOMAIN s : IsMutation(s[k])
    <3>1. IsListOf(s, IsMutation)
      BY <1>2, WhatIfAssumption
    <3> QED
      BY <3>1 DEF IsListOf
  <2> QED
    BY <2>1, SeqLength
<1> QED
  BY <1>1, <1>2

LEMMA StoredFacts ==
  ASSUME yaml \in Configs, payload \in Inputs, StoredWell
  PROVE  /\ stored.config = Loaded(yaml) /\ stored.orders = Restored(Orders)
         /\ stored.partners = Restored(Partners) /\ stored.loads = BaseLoads
         /\ stored.escalated = Escalates(Loaded(yaml), BaseLoads)
         /\ stored.chosen = Decision.chosen /\ stored.selected \in ReservedOutcomes(Decision)
         /\ IsConfig(yaml) /\ IsConfig(stored.config) /\ Builds(stored.config)
         /\ IsOrders(stored.orders) /\ IsRows(stored.partners)
         /\ BaseLoads \in [IdsOf(Partners) -> Nat] /\ IdsOf(stored.partners) = IdsOf(Partners)
         /\ IsFiniteSet(IdsOf(Partners)) /\ IdsOf(Partners) \subseteq Int
<1>1. PICK selected \in ReservedOutcomes(Decision) : stored = StoredAs(selected)
  BY DEF StoredWell
<1>2. /\ stored.config = Loaded(yaml) /\ stored.orders = Restored(Orders)
      /\ stored.partners = Restored(Partners) /\ stored.loads = BaseLoads
      /\ stored.escalated = Escalates(Loaded(yaml), BaseLoads)
      /\ stored.chosen = Decision.chosen /\ stored.selected = selected
  BY <1>1 DEF StoredAs
<1>3. IsConfig(yaml) /\ Builds(yaml) /\ Acceptable
  BY WhatIfAssumption DEF StoredWell
<1>4. IsConfig(Loaded(yaml)) /\ Builds(Loaded(yaml))
  BY <1>3, LoadedConfig DEF Builds
<1>5. /\ IsOrders(Restored(Orders)) /\ IsRows(Restored(Partners)) /\ IsRows(Partners)
      /\ IdsOf(Restored(Partners)) = IdsOf(Partners)
  BY <1>3, RequestTyped
<1>6. BaseLoads \in [IdsOf(Partners) -> Nat]
  <2>1. \A i \in DOMAIN <<>> : <<>>[i] \in Int
    OBVIOUS
  <2> QED
    BY <1>5, <2>1, StartLoadsFacts DEF BaseLoads
<1>7. IsFiniteSet(IdsOf(Partners)) /\ IdsOf(Partners) \subseteq Int
  BY <1>5, RowsFacts
<1> QED
  BY <1>1, <1>2, <1>3, <1>4, <1>5, <1>6, <1>7

LEMMA RequestKept ==
  ASSUME yaml' = yaml, payload' = payload
  PROVE  /\ Acceptable' = Acceptable /\ Decision' = Decision
         /\ ReservedOutcomes(Decision)' = ReservedOutcomes(Decision)
         /\ \A selected : StoredAs(selected)' = StoredAs(selected)
<1>1. Orders' = Orders /\ Partners' = Partners
  BY DEF Orders, Partners
<1>2. BaseLoads' = BaseLoads
  BY <1>1 DEF BaseLoads
<1>3. Decision' = Decision
  BY <1>1, <1>2 DEF Decision
<1>4. Acceptable' = Acceptable
  BY <1>1 DEF Acceptable
<1>5. ReservedOutcomes(Decision)' = ReservedOutcomes(Decision)
  BY <1>1, <1>3 DEF ReservedOutcomes
<1>6. \A selected : StoredAs(selected)' = StoredAs(selected)
  BY <1>1, <1>2, <1>3 DEF StoredAs
<1> QED
  BY <1>3, <1>4, <1>5, <1>6

LEMMA StoredStays ==
  ASSUME StoredWell, yaml' = yaml, payload' = payload, stored' = stored
  PROVE  StoredWell'
BY RequestKept DEF StoredWell

LEMMA DecisionKept ==
  ASSUME WInv, Decide
  PROVE  IsStored'
<1>1. /\ yaml' = yaml /\ payload' = payload /\ spec' = spec /\ step' = step /\ reply' = reply
      /\ stage = "new" /\ stage' = "stored" /\ Acceptable /\ Builds(yaml)
  BY DEF Decide
<1>2. PICK run \in {Decision} : \E selected \in ReservedOutcomes(run) :
          /\ ~run.failed
          /\ stored' = [config |-> Loaded(yaml),
                        orders |-> Restored(Orders), partners |-> Restored(Partners),
                        loads |-> BaseLoads, escalated |-> Escalates(Loaded(yaml), BaseLoads),
                        chosen |-> run.chosen, selected |-> selected]
  BY Zenon DEF Decide
<1>3. StoredWell'
  <2>1. ~Decision.failed /\ \E selected \in ReservedOutcomes(Decision) : stored' = StoredAs(selected)
    BY <1>2 DEF StoredAs
  <2> QED
    BY <1>1, <2>1, RequestKept DEF StoredWell
<1>4. reply = None /\ spec = <<>> /\ step = 1
  BY <1>1 DEF WInv, IsNew, IsStored, IsMutating, IsAnswered
<1> QED
  BY <1>1, <1>3, <1>4 DEF IsStored

(* A mutation in turn, of the three kinds that change the configuration. *)
LEMMA Turn ==
  ASSUME WInv, NEW type, Applying(type)
  PROVE  /\ StoredWell /\ IsConfig(config) /\ Builds(config) /\ IsRows(snapshot) /\ reply = None
         /\ step + 1 \in 1..(Len(spec) + 1) /\ spec # <<>> /\ IsMutation(Mutation)
         /\ step \in Nat /\ step # 0 /\ Mutation.type = type
         /\ step = 1 => config = stored.config /\ snapshot = stored.partners /\ Mutation = spec[1]
<1>1. stage = "mutating" /\ step <= Len(spec)
  BY DEF Applying
<1>2. IsMutating
  BY <1>1 DEF WInv, IsNew, IsStored, IsAnswered
<1>3. Len(spec) \in Nat /\ DOMAIN spec = 1..Len(spec) /\ \A k \in DOMAIN spec : IsMutation(spec[k])
  BY SpecLength DEF WInv
<1>4. /\ step \in 1..(Len(spec) + 1)
      /\ step = 1 => config = stored.config /\ snapshot = stored.partners
  BY <1>2 DEF IsMutating, MutatedWell
<1>5. step + 1 \in 1..(Len(spec) + 1) /\ step \in DOMAIN spec /\ spec # <<>>
  BY <1>1, <1>3, <1>4
<1>6. IsMutation(Mutation) /\ Mutation.type = type /\ (step = 1 => Mutation = spec[1])
  BY <1>3, <1>5 DEF Mutation, Applying
<1>7. step \in Nat /\ step # 0
  BY <1>3, <1>4
<1> QED
  BY <1>2, <1>4, <1>5, <1>6, <1>7 DEF IsMutating, MutatedWell

LEMMA MutatedOn ==
  ASSUME WInv, NEW type, Applying(type), yaml' = yaml, payload' = payload, stage' = stage,
         stored' = stored, spec' = spec, reply' = reply, step' = step + 1,
         IsConfig(config'), Builds(config'), IsRows(snapshot'),
         step = 1 => AfterOne(spec[1])'
  PROVE  IsMutating'
<1>1. /\ StoredWell /\ reply = None /\ step + 1 \in 1..(Len(spec) + 1) /\ spec # <<>>
  BY Turn
<1>2. StoredWell'
  BY <1>1, StoredStays
<1>3. MutatedWell'
  <2>1. step \in Nat /\ step # 0
    BY Turn
  <2>2. (step' = 2 => AfterOne(spec[1])') /\ step' # 1
    BY <2>1
  <2> QED
    BY <1>1, <2>2 DEF MutatedWell
<1>4. stage' = "mutating" /\ reply' = None
  BY <1>1 DEF Applying
<1> QED
  BY <1>2, <1>3, <1>4 DEF IsMutating

LEMMA AnswerStays ==
  ASSUME stored' = stored, config' = config, snapshot' = snapshot, spec' = spec, step' = step
  PROVE  /\ Evaluable' = Evaluable
         /\ Simulated(config, snapshot)' = Simulated(config, snapshot)
         /\ Changed(stored.selected, Simulated(config, snapshot).chosen)'
              = Changed(stored.selected, Simulated(config, snapshot).chosen)
<1>1. Simulated(config, snapshot)' = Simulated(config, snapshot)
  BY DEF Simulated, ReplayLoads
<1>2. Evaluable' = Evaluable
  BY <1>1 DEF Evaluable
<1>3. Changed(stored.selected, Simulated(config, snapshot).chosen)'
              = Changed(stored.selected, Simulated(config, snapshot).chosen)
  BY <1>1 DEF Changed
<1> QED
  BY <1>1, <1>2, <1>3

LEMMA MutatedStays ==
  ASSUME MutatedWell, stored' = stored, config' = config, snapshot' = snapshot,
         spec' = spec, step' = step
  PROVE  MutatedWell'
BY DEF MutatedWell, AfterOne

LEMMA WInvInit == Init => WInv
BY DEF Init, WInv, IsNew

LEMMA WInvNext == WInv /\ [Next]_vars => WInv'
<1> SUFFICES ASSUME WInv, [Next]_vars PROVE WInv'
  OBVIOUS
<1> USE DEF WInv
<1>1. CASE Refuse
  BY <1>1 DEF Refuse, IsNew, IsStored, IsMutating, IsAnswered
<1>2. CASE Fail
  BY <1>2 DEF Fail, IsNew, IsStored, IsMutating, IsAnswered
<1>3. CASE Decide
  BY <1>3, DecisionKept DEF Decide
<1>4. ASSUME NEW s \in Specs, Simulate(s) PROVE WInv'
  <2>1. /\ stage \in {"stored", "answered"} /\ stage' = "mutating" /\ spec' = s /\ step' = 1
        /\ config' = stored.config /\ snapshot' = stored.partners /\ reply' = None
        /\ yaml' = yaml /\ payload' = payload /\ stored' = stored
    BY <1>4 DEF Simulate
  <2>2. StoredWell
    BY <2>1 DEF IsNew, IsStored, IsMutating, IsAnswered
  <2>3. IsConfig(stored.config) /\ Builds(stored.config) /\ IsRows(stored.partners)
    BY <2>2, StoredFacts
  <2>4. 1 \in 1..(Len(s) + 1)
    BY SpecLength
  <2>5. StoredWell'
    BY <2>1, <2>2, StoredStays
  <2>6. MutatedWell'
    BY <2>1, <2>3, <2>4 DEF MutatedWell
  <2>7. IsMutating'
    BY <2>1, <2>5, <2>6 DEF IsMutating
  <2> QED
    BY <2>1, <2>7
<1>5. CASE ChangeParameter
  <2> DEFINE e == Found(config, Mutation.rule)
             d == [e EXCEPT !.params = Put(@, Mutation.key, Mutation.value)]
  <2>1. /\ Applying("rule_parameter") /\ RuleKnown(config, Mutation.rule)
        /\ config' = Edited(config, Mutation.rule, d) /\ step' = step + 1
        /\ yaml' = yaml /\ payload' = payload /\ stage' = stage /\ stored' = stored
        /\ spec' = spec /\ snapshot' = snapshot /\ reply' = reply
    BY <1>5 DEF ChangeParameter
  <2>2. /\ IsConfig(config) /\ Builds(config) /\ IsRows(snapshot) /\ IsMutation(Mutation)
    BY <2>1, Turn
  <2>3. IsParam(Mutation.key, Mutation.value)
    BY <2>1, <2>2 DEF IsMutation, Applying, Mutation
  <2>4. IsEntry(e) /\ e.name = Mutation.rule
    BY <2>1, <2>2, FoundFacts
  <2>5. IsEntry(d) /\ d.name = Mutation.rule
    <3> HIDE DEF e
    <3> QED
      BY <2>3, <2>4, ParameterChanged
  <2> HIDE DEF d
  <2>6. IsConfig(config') /\ Builds(config')
    BY <2>1, <2>2, <2>5, EditedConfig
  <2>a. step = 1 => AfterOne(spec[1])'
    BY <2>1, Turn DEF AfterOne
  <2>7. IsMutating'
    BY <2>1, <2>2, <2>6, <2>a, MutatedOn
  <2> QED
    BY <2>1, <2>7
<1>6. CASE ChangeWeight
  <2>1. /\ Applying("rule_weight") /\ RuleKnown(config, Mutation.rule)
        /\ config' = [config EXCEPT !.weights = Put(@, Mutation.rule, Mutation.value)]
        /\ step' = step + 1
        /\ yaml' = yaml /\ payload' = payload /\ stage' = stage /\ stored' = stored
        /\ spec' = spec /\ snapshot' = snapshot /\ reply' = reply
    BY <1>6 DEF ChangeWeight
  <2>2. /\ IsConfig(config) /\ Builds(config) /\ IsRows(snapshot) /\ IsMutation(Mutation)
    BY <2>1, Turn
  <2>3. Mutation.value \in Int
    BY <2>1, <2>2 DEF IsMutation, Applying, Mutation
  <2>4. IsConfig(config') /\ Builds(config')
    BY <2>1, <2>2, <2>3, Reweighted
  <2>a. step = 1 => AfterOne(spec[1])'
    BY <2>1, Turn DEF AfterOne
  <2>5. IsMutating'
    BY <2>1, <2>2, <2>4, <2>a, MutatedOn
  <2> QED
    BY <2>1, <2>5
<1>7. CASE Toggle
  <2> DEFINE e == Found(config, Mutation.rule)
             d == [e EXCEPT !.enabled = Mutation.value]
  <2>1. /\ Applying("rule_toggle") /\ RuleKnown(config, Mutation.rule)
        /\ config' = Edited(config, Mutation.rule, d) /\ step' = step + 1
        /\ yaml' = yaml /\ payload' = payload /\ stage' = stage /\ stored' = stored
        /\ spec' = spec /\ snapshot' = snapshot /\ reply' = reply
    BY <1>7 DEF Toggle
  <2>2. /\ IsConfig(config) /\ Builds(config) /\ IsRows(snapshot) /\ IsMutation(Mutation)
    BY <2>1, Turn
  <2>3. Mutation.value \in BOOLEAN
    BY <2>1, <2>2 DEF IsMutation, Applying, Mutation
  <2>4. IsEntry(e) /\ e.name = Mutation.rule
    BY <2>1, <2>2, FoundFacts
  <2>5. IsEntry(d) /\ d.name = Mutation.rule
    <3> HIDE DEF e
    <3> QED
      BY <2>3, <2>4, Toggled
  <2> HIDE DEF d
  <2>6. IsConfig(config') /\ Builds(config')
    BY <2>1, <2>2, <2>5, EditedConfig
  <2>a. step = 1 => AfterOne(spec[1])'
    BY <2>1, Turn DEF AfterOne, d, e
  <2>7. IsMutating'
    BY <2>1, <2>2, <2>6, <2>a, MutatedOn
  <2> QED
    BY <2>1, <2>7
<1>8. CASE ChangePool
  <2>1. /\ Applying("partner_pool") /\ snapshot' = Pool(snapshot, Mutation) /\ step' = step + 1
        /\ yaml' = yaml /\ payload' = payload /\ stage' = stage /\ stored' = stored
        /\ spec' = spec /\ config' = config /\ reply' = reply
    BY <1>8 DEF ChangePool
  <2>2. /\ IsConfig(config) /\ Builds(config) /\ IsRows(snapshot) /\ IsMutation(Mutation)
    BY <2>1, Turn
  <2>3. IsRows(snapshot')
    BY <2>1, <2>2, PoolIsRows DEF Applying, Mutation
  <2>a. step = 1 => AfterOne(spec[1])'
    BY <2>1, Turn DEF AfterOne
  <2>4. IsMutating'
    BY <2>1, <2>2, <2>3, <2>a, MutatedOn
  <2> QED
    BY <2>1, <2>4
<1>9. CASE UnknownRule \/ Reject
  <2>1. /\ stage = "mutating" /\ stage' = "answered" /\ reply' = reply
        /\ yaml' = yaml /\ payload' = payload /\ stored' = stored
        /\ spec' = spec /\ step' = step /\ config' = config /\ snapshot' = snapshot
    BY <1>9 DEF UnknownRule, Reject, Mutated
  <2>2. StoredWell /\ MutatedWell /\ reply = None
    BY <2>1 DEF IsNew, IsStored, IsMutating, IsAnswered
  <2>3. IsAnswered'
    BY <2>1, <2>2, StoredStays, MutatedStays DEF IsAnswered
  <2> QED
    BY <2>1, <2>3
<1>10. CASE Answer
  <2>1. /\ stage = "mutating" /\ stage' = "answered" /\ step > Len(spec) /\ Evaluable
        /\ reply' = [allocations |-> Simulated(config, snapshot).chosen,
                     changed |-> Changed(stored.selected, Simulated(config, snapshot).chosen)]
        /\ yaml' = yaml /\ payload' = payload /\ stored' = stored
        /\ spec' = spec /\ step' = step /\ config' = config /\ snapshot' = snapshot
    BY <1>10 DEF Answer, Mutated
  <2>2. StoredWell /\ MutatedWell
    BY <2>1 DEF IsNew, IsStored, IsMutating, IsAnswered
  <2>3. step = Len(spec) + 1
    BY <2>1, <2>2, SpecLength DEF MutatedWell
  <2>4. AnsweredWell'
    BY <2>1, <2>3, AnswerStays DEF AnsweredWell
  <2>5. IsAnswered'
    BY <2>1, <2>2, <2>4, StoredStays, MutatedStays DEF IsAnswered
  <2> QED
    BY <2>1, <2>5
<1>11. CASE UNCHANGED vars
  <2>1. /\ stage' = stage /\ reply' = reply
        /\ yaml' = yaml /\ payload' = payload /\ stored' = stored
        /\ spec' = spec /\ step' = step /\ config' = config /\ snapshot' = snapshot
    BY <1>11 DEF vars
  <2>2. StoredWell => StoredWell'
    BY <2>1, StoredStays
  <2>3. MutatedWell => MutatedWell'
    BY <2>1, MutatedStays
  <2>4. AnsweredWell => AnsweredWell'
    BY <2>1, AnswerStays DEF AnsweredWell
  <2> QED
    BY <2>1, <2>2, <2>3, <2>4 DEF IsNew, IsStored, IsMutating, IsAnswered
<1> QED
  BY <1>1, <1>2, <1>3, <1>4, <1>5, <1>6, <1>7, <1>8, <1>9, <1>10, <1>11 DEF Next

(* The invariant holds throughout. *)
THEOREM DecisionInvariant == Spec => []WInv
BY WInvInit, WInvNext, PTL DEF Spec

-----------------------------------------------------------------------------
(* What the runs are that are stored and answered.                          *)

LEMMA WhenStored ==
  ASSUME WInv
  PROVE  /\ yaml \in Configs /\ payload \in Inputs
         /\ stored # None => StoredWell
         /\ stage = "stored" => StoredWell
         /\ Answered => StoredWell /\ MutatedWell /\ AnsweredWell
BY DEF WInv, IsNew, IsStored, IsMutating, IsAnswered, Answered

LEMMA DecisionRun ==
  ASSUME WInv, StoredWell
  PROVE  RunAt(Decision, Len(Orders), Loaded(yaml), AdjustedWeights(Loaded(yaml), BaseLoads),
               Orders, Partners)
<1>1. IsOrders(Orders) /\ IsRows(Partners)
  BY WhenStored, RequestTyped DEF StoredWell
<1>2. BaseLoads \in [IdsOf(Partners) -> Nat]
  BY WhenStored, StoredFacts
<1>3. \A i \in DOMAIN BaseLoads : BaseLoads[i] \in Int
  BY <1>2
<1> QED
  BY <1>1, <1>3, RunFacts DEF Decision

LEMMA SimulatedRun ==
  ASSUME WInv, StoredWell, MutatedWell
  PROVE  RunAt(Simulated(config, snapshot), Len(stored.orders), config, ResolvedWeights(config),
               stored.orders, snapshot)
<1>1. IsOrders(stored.orders) /\ IsRows(snapshot)
  BY WhenStored, StoredFacts DEF MutatedWell
<1>2. stored.loads \in [IdsOf(Partners) -> Nat]
  BY WhenStored, StoredFacts
<1>3. \A i \in DOMAIN ReplayLoads(snapshot) : ReplayLoads(snapshot)[i] \in Int
  BY <1>2 DEF ReplayLoads, Get
<1> QED
  BY <1>1, <1>3, RunFacts DEF Simulated

LEMMA RunShape ==
  ASSUME NEW orders, IsOrders(orders), NEW c, NEW weights, NEW rows,
         NEW s, RunAt(s, Len(orders), c, weights, orders, rows)
  PROVE  /\ DOMAIN orders = 1..Len(orders) /\ Len(orders) \in Nat
         /\ DOMAIN s.chosen = DOMAIN orders /\ DOMAIN s.eligible = DOMAIN orders
         /\ \A o \in DOMAIN orders :
              s.eligible[o] \in SUBSET IdsOf(rows) /\ s.chosen[o] \in s.eligible[o] \cup {None}
<1>1. DOMAIN orders = 1..Len(orders) /\ Len(orders) \in Nat
  BY DEF IsOrders
<1>2. /\ s.chosen \in Seq(IdsOf(rows) \cup {None}) /\ Len(s.chosen) = Len(orders)
      /\ s.eligible \in Seq(SUBSET IdsOf(rows)) /\ Len(s.eligible) = Len(orders)
      /\ \A q \in 1..Len(orders) : s.chosen[q] \in s.eligible[q] \cup {None}
  BY DEF RunAt
<1> QED
  BY <1>1, <1>2

(* Whatever is evaluated names weights for the scoring rules that are on. *)
LEMMA ResolvedType ==
  ASSUME NEW c, IsConfig(c)
  PROVE  \A n \in DOMAIN ResolvedWeights(c) : ResolvedWeights(c)[n] \in Int
<1>1. CASE ScoringNames(c) # {}
  BY <1>1, ResolvedAreWeights DEF IsWeights
<1>2. CASE ScoringNames(c) = {}
  <2>1. DOMAIN ResolvedWeights(c) = {}
    BY <1>2 DEF ResolvedWeights, FilteredWeights
  <2> QED
    BY <2>1
<1> QED
  BY <1>1, <1>2

-----------------------------------------------------------------------------
(* None is no record of a decision. *)
NoneIsNoDecision ==
    \A a, b, c, d, e, f, g :
        None # [config |-> a, orders |-> b, partners |-> c, loads |-> d, escalated |-> e,
                chosen |-> f, selected |-> g]

(* TypeOK: a decision is stored exactly when the request has been granted,   *)
(* and an answer has an allocation for every order, to a partner of the      *)
(* mutated snapshot or to nobody.                                            *)
THEOREM DecisionTypes == NoneIsNoDecision => (Spec => []TypeOK)
<1> SUFFICES ASSUME NoneIsNoDecision PROVE Spec => []TypeOK
  OBVIOUS
<1>1. WInv => TypeOK
  <2> SUFFICES ASSUME WInv PROVE TypeOK
    OBVIOUS
  <2>1. Len(spec) \in Nat
    BY SpecLength DEF WInv
  <2>2. StoredWell => stored # None
    BY DEF StoredWell, StoredAs, NoneIsNoDecision
  <2>3. /\ stage \in {"new", "refused", "failed", "stored", "mutating", "answered"}
        /\ (stored = None) = (stage \in {"new", "refused", "failed"})
        /\ step \in 1..Len(spec) + 1
        /\ reply # None => Answered
    BY <2>1, <2>2 DEF WInv, IsNew, IsStored, IsMutating, IsAnswered, MutatedWell, Answered
  <2>4. ASSUME Answered
        PROVE  /\ step = Len(spec) + 1
               /\ DOMAIN reply.allocations = DOMAIN stored.orders
               /\ \A o \in DOMAIN stored.orders :
                     reply.allocations[o] \in IdsOf(snapshot) \cup {None}
               /\ reply.changed \subseteq IdsOf(stored.orders)
    <3> DEFINE run == Simulated(config, snapshot)
    <3>1. StoredWell /\ MutatedWell /\ AnsweredWell
      BY <2>4, WhenStored
    <3>2. IsOrders(stored.orders)
      BY <3>1, WhenStored, StoredFacts
    <3>3. RunAt(run, Len(stored.orders), config, ResolvedWeights(config), stored.orders, snapshot)
      BY <3>1, SimulatedRun
    <3>4. /\ step = Len(spec) + 1 /\ reply.allocations = run.chosen
          /\ reply.changed = Changed(stored.selected, run.chosen)
      BY <3>1 DEF AnsweredWell
    <3> HIDE DEF run
    <3>5. /\ DOMAIN run.chosen = DOMAIN stored.orders
          /\ \A o \in DOMAIN stored.orders : run.chosen[o] \in IdsOf(snapshot) \cup {None}
      BY <3>2, <3>3, RunShape
    <3>6. reply.changed \subseteq IdsOf(stored.orders)
      BY <3>4 DEF Changed
    <3> QED
      BY <3>4, <3>5, <3>6
  <2> QED
    BY <2>3, <2>4 DEF TypeOK, Answered
<1> QED
  BY <1>1, DecisionInvariant, PTL

(* UnallocatedMeansNobodyPassed: a simulation leaves an order to nobody only *)
(* if nobody passed the hard rules, for any configuration whose negative     *)
(* weights, resolved, add up to less than one, any snapshot and any loads.   *)
THEOREM SomebodyIsChosen == Spec => []UnallocatedMeansNobodyPassed
<1>1. WInv => UnallocatedMeansNobodyPassed
  <2> SUFFICES ASSUME WInv, Answered, NegativeWeight(config) < One,
                      NEW o \in DOMAIN Simulated(config, snapshot).chosen,
                      Simulated(config, snapshot).chosen[o] = None
               PROVE  Simulated(config, snapshot).eligible[o] = {}
    BY DEF UnallocatedMeansNobodyPassed
  <2> DEFINE run == Simulated(config, snapshot)
             w == ResolvedWeights(config)
  <2>1. StoredWell /\ MutatedWell /\ AnsweredWell
    BY WhenStored
  <2>2. RunAt(run, Len(stored.orders), config, w, stored.orders, snapshot)
    BY <2>1, SimulatedRun
  <2>3. IsOrders(stored.orders)
    BY <2>1, WhenStored, StoredFacts
  <2>4. Scorable(config, w)
    <3>1. IsConfig(config) /\ Builds(config)
      BY <2>1 DEF MutatedWell
    <3>2. \A n \in DOMAIN w : w[n] \in Int
      BY <3>1, ResolvedType
    <3>3. DOMAIN w = ScoringNames(config)
      BY DEF ResolvedWeights, FilteredWeights
    <3>4. NegativeWeight(config) = Total([k \in ScoringAt(config) |-> Above(0, -w[config.scoring[k].name])])
      BY DEF NegativeWeight
    <3> HIDE DEF w
    <3>5. \A k \in ScoringAt(config) : WeightAt(config, w, k) = w[config.scoring[k].name]
      BY <3>3 DEF WeightAt, Get, ScoringNames
    <3>6. Debt(config, w) = NegativeWeight(config)
      BY <3>4, <3>5 DEF Debt
    <3> QED
      BY <3>1, <3>2, <3>6 DEF Scorable, Builds
  <2>5. ~run.failed
    BY <2>1 DEF AnsweredWell, Evaluable
  <2>6. o \in DOMAIN run.chosen /\ run.chosen[o] = None
    OBVIOUS
  <2> HIDE DEF run, w
  <2>7. o \in 1..Len(stored.orders)
    BY <2>2, <2>3, <2>6, RunShape
  <2>8. run.eligible[o] = {}
    BY <2>2, <2>4, <2>5, <2>6, <2>7 DEF RunAt
  <2> QED
    BY <2>8 DEF run
<1> QED
  BY <1>1, DecisionInvariant, PTL

LEMMA RawType ==
  ASSUME NEW v, Upper(v) \in DOMAIN RawToCore
  PROVE  CoerceRaw(v) = Upper(v) /\ Upper(v) # None
BY PayloadsAssumption DEF CoerceRaw

LEMMA PartnerRaw ==
  ASSUME NEW json, NormalizedPartner(json) # None, NEW load
  PROVE  /\ NormalizedPartner(json).raw = Or(CoerceRaw(Or(json.raw, json.vehicle_type)), json.raw)
         /\ [NormalizedPartner(json) EXCEPT !.load = load].raw = NormalizedPartner(json).raw
<1> DEFINE pos == Or(json.pos, json.current_location)
           raw == Or(CoerceRaw(Or(json.raw, json.vehicle_type)), json.raw)
           single == CoerceVehicle(Or(json.vehicle_type, json.raw))
           types == IF json.types = {} /\ single # None THEN {single} ELSE json.types
<1>1. NormalizedPartner(json)
        = [id |-> json.id, pos |-> pos, available |-> json.available,
           active |-> json.active, rating |-> json.rating, types |-> types,
           load |-> json.load, condition |-> json.condition,
           avg_time |-> json.avg_time, raw |-> raw]
  BY DEF NormalizedPartner
<1> HIDE DEF pos, raw, single, types
<1>2. NormalizedPartner(json).raw = raw
  BY <1>1
<1>3. [NormalizedPartner(json) EXCEPT !.load = load].raw = raw
  BY <1>1
<1> QED
  BY <1>2, <1>3 DEF raw

LEMMA RestrictedFails ==
  ASSUME WInv, StoredWell, NEW e \in EnabledEntries(stored.config.hard),
         NEW o \in DOMAIN payload.orders, NEW k \in DOMAIN payload.partners,
         e.name = "weather_safety",
         payload.orders[o].weather \in Param(e, "severe_conditions", {"Stormy", "Sandstorms"}),
         Upper(Or(payload.partners[k].raw, payload.partners[k].vehicle_type)) \in DOMAIN RawToCore,
         Upper(Or(payload.partners[k].raw, payload.partners[k].vehicle_type))
            \in Param(e, "restricted_vehicles", {"MOTORCYCLE", "SCOOTER"}),
         NEW loads \in [IdsOf(Partners) -> Int]
  PROVE  k \notin EligibleRows(Loaded(yaml), Orders[o], Partners, loads)
<1> DEFINE sent == payload.partners[k]
           json == payload.orders[o]
           raw == Upper(Or(sent.raw, sent.vehicle_type))
           p == Effective(Partners, k, loads)
<1>1. Acceptable /\ payload \in Inputs
  BY DEF StoredWell, WInv
<1>2. /\ DOMAIN Orders = DOMAIN payload.orders /\ DOMAIN Partners = DOMAIN payload.partners
      /\ Orders[o] = NormalizedOrder(json) /\ Partners[k] = NormalizedPartner(sent)
      /\ Orders[o] # None /\ Partners[k] # None
  BY <1>1 DEF Orders, Partners, Acceptable, AllAccepted
<1>3. Orders[o].weather = json.weather
  BY <1>2 DEF NormalizedOrder
<1>4. CoerceRaw(Or(sent.raw, sent.vehicle_type)) = raw /\ raw # None
  BY RawType
<1>5. Partners[k].raw = raw
  <2>1. Partners[k].raw = Or(CoerceRaw(Or(sent.raw, sent.vehicle_type)), sent.raw)
    BY <1>2, PartnerRaw
  <2> QED
    BY <1>4, <2>1 DEF Or
<1>6. p.raw = raw
  <2>1. p = [Partners[k] EXCEPT !.load = loads[Partners[k].id]]
    BY DEF Effective
  <2>2. p.raw = Partners[k].raw
    BY <1>2, <2>1, PartnerRaw
  <2> QED
    BY <1>5, <2>2
<1> HIDE DEF raw, p
<1>7. ~SafeInWeather(e, Orders[o], p)
  BY <1>3, <1>4, <1>6 DEF SafeInWeather, raw
<1>8. ~Passes(e, Loaded(yaml).compat, Orders[o], p)
  BY <1>7 DEF Passes
<1>9. e \in EnabledEntries(Loaded(yaml).hard)
  BY WhenStored, StoredFacts
<1> QED
  BY <1>8, <1>9 DEF EligibleRows, p

(* RestrictedStayOffTheRoad: no order of severe weather goes to a partner    *)
(* sent with a vehicle type the enabled weather rule restricts, neither by   *)
(* the pipeline's choice nor by the reservations'.                           *)
THEOREM RestrictedAreNotChosen == Spec => []RestrictedStayOffTheRoad
<1>1. WInv => RestrictedStayOffTheRoad
  <2> SUFFICES ASSUME WInv, stored # None, NEW e \in EnabledEntries(stored.config.hard),
                      NEW o \in DOMAIN payload.orders, NEW k \in DOMAIN payload.partners,
                      e.name = "weather_safety",
                      payload.orders[o].weather
                        \in Param(e, "severe_conditions", {"Stormy", "Sandstorms"}),
                      Upper(Or(payload.partners[k].raw, payload.partners[k].vehicle_type))
                        \in DOMAIN RawToCore,
                      Upper(Or(payload.partners[k].raw, payload.partners[k].vehicle_type))
                        \in Param(e, "restricted_vehicles", {"MOTORCYCLE", "SCOOTER"}),
                      UniqueRows(payload.partners)
               PROVE  /\ stored.selected[o] # payload.partners[k].id
                      /\ stored.chosen[o] # payload.partners[k].id
    BY DEF RestrictedStayOffTheRoad
  <2> DEFINE i == payload.partners[k].id
             c == Loaded(yaml)
             w == AdjustedWeights(c, BaseLoads)
             run == Decision
  <2>1. StoredWell /\ payload \in Inputs /\ Acceptable
    BY WhenStored DEF StoredWell
  <2>2. /\ IsOrders(Orders) /\ DOMAIN Orders = DOMAIN payload.orders /\ IsRows(Partners)
        /\ DOMAIN Partners = DOMAIN payload.partners
        /\ \A j \in DOMAIN payload.partners : Partners[j].id = payload.partners[j].id
    BY <2>1, RequestTyped
  <2>3. i \in Int
    BY <2>2, RowsFacts DEF IsRow
  <2>4. RunAt(run, Len(Orders), c, w, Orders, Partners)
    BY <2>1, DecisionRun
  <2>5. o \in 1..Len(Orders) /\ o \in DOMAIN run.chosen /\ run.chosen[o] \in run.eligible[o] \cup {None}
    <3> HIDE DEF run, c, w
    <3> QED
      BY <2>2, <2>4, RunShape
  <2>6. i \notin run.eligible[o]
    <3> SUFFICES ASSUME i \in run.eligible[o] PROVE FALSE
      OBVIOUS
    <3>1. \A q \in 1..Len(Orders) : \A j \in run.eligible[q] :
            \E r \in DOMAIN Partners : \E loads \in [IdsOf(Partners) -> Int] :
              Partners[r].id = j /\ r \in EligibleRows(c, Orders[q], Partners, loads)
      BY <2>4 DEF RunAt
    <3>2. PICK r \in DOMAIN Partners : \E loads \in [IdsOf(Partners) -> Int] :
              Partners[r].id = i /\ r \in EligibleRows(c, Orders[o], Partners, loads)
      <4> HIDE DEF run, c, i
      <4> QED
        BY <2>5, <3>1
    <3>3. PICK loads \in [IdsOf(Partners) -> Int] :
              Partners[r].id = i /\ r \in EligibleRows(c, Orders[o], Partners, loads)
      BY <3>2
    <3>4. r = k
      BY <2>2, <3>3 DEF UniqueRows
    <3> QED
      BY <2>1, <3>3, <3>4, RestrictedFails
  <2>7. stored.chosen = run.chosen /\ stored.selected \in ReservedOutcomes(run)
    BY <2>1, WhenStored, StoredFacts
  <2>8. run.chosen[o] # i
    BY <2>3, <2>5, <2>6, RulesAssumption
  <2>9. stored.selected[o] \in run.eligible[o] \cup {None}
    <3> HIDE DEF run
    <3> QED
      BY <2>5, <2>7 DEF ReservedOutcomes
  <2> QED
    BY <2>3, <2>6, <2>7, <2>8, <2>9, RulesAssumption
<1> QED
  BY <1>1, DecisionInvariant, PTL

(* ReloadKeepsConfig: resolving the weights of a stored configuration again  *)
(* changes nothing, for any weights and any number of scoring rules.         *)
LEMMA NamesDiffer ==
  ASSUME NEW c, ListedOnce(c.scoring)
  PROVE  \A j, k \in ScoringAt(c) : j # k => c.scoring[j].name # c.scoring[k].name
BY DEF ListedOnce, ScoringAt

LEMMA LoadedNames ==
  ASSUME WInv, StoredWell
  PROVE  /\ IsConfig(yaml) /\ ScoringNames(yaml) \subseteq ScoringRules
         /\ stored.config = Loaded(yaml) /\ stored.config.scoring = yaml.scoring
         /\ stored.config.hard = yaml.hard /\ ScoringNames(stored.config) = ScoringNames(yaml)
         /\ ScoringAt(stored.config) = ScoringAt(yaml)
<1>1. IsConfig(yaml) /\ Builds(yaml) /\ stored.config = Loaded(yaml)
  BY WhenStored, StoredFacts DEF StoredWell
<1>2. ScoringNames(yaml) \subseteq ScoringRules
  BY <1>1 DEF ScoringNames, ScoringAt, Builds
<1> QED
  BY <1>1, <1>2, LoadedConfig

THEOREM ReloadingIsIdle == Spec => []ReloadKeepsConfig
<1>1. WInv => ReloadKeepsConfig
  <2> SUFFICES ASSUME WInv, stored # None, ListedOnce(stored.config.scoring)
               PROVE  Loaded(stored.config) = stored.config
    BY DEF ReloadKeepsConfig
  <2>1. StoredWell
    BY WhenStored
  <2>2. ListedOnce(yaml.scoring)
    BY <2>1, LoadedNames
  <2>3. \A j, k \in ScoringAt(yaml) : j # k => yaml.scoring[j].name # yaml.scoring[k].name
    BY <2>2, NamesDiffer
  <2> QED
    BY <2>1, <2>3, LoadedNames, LoadedAgain
<1> QED
  BY <1>1, DecisionInvariant, PTL

(* GiniIsMeanDifference: for any loads.                                      *)
THEOREM GiniIsGini == Spec => []GiniIsMeanDifference
<1>1. WInv => GiniIsMeanDifference
  <2> SUFFICES ASSUME WInv, stored # None PROVE GiniIsMeanDifference
    BY DEF GiniIsMeanDifference
  <2> DEFINE x == stored.loads
  <2>1. x \in [IdsOf(Partners) -> Nat] /\ IsFiniteSet(IdsOf(Partners)) /\ IdsOf(Partners) \subseteq Int
    BY WhenStored, StoredFacts
  <2>2. DOMAIN x \in SUBSET Int /\ IsFiniteSet(DOMAIN x) /\ \A i \in DOMAIN x : x[i] \in Nat
    BY <2>1
  <2> HIDE DEF x
  <2>3. /\ 2 * GiniNumerator(x) =
              Total([i \in DOMAIN x |->
                        Total([j \in DOMAIN x |-> Above(x[i], x[j]) - Below(x[i], x[j])])])
        /\ Total(x) > 0 => GiniNumerator(x) \in 0..GiniDenominator(x) - 1
    BY <2>2, GiniFacts
  <2> QED
    BY <2>3, Zenon DEF GiniIsMeanDifference, x
<1> QED
  BY <1>1, DecisionInvariant, PTL

(* EscalationFavoursFairness: for any loads, weights that are not negative,  *)
(* and a factor of at least one.                                             *)
THEOREM EscalationIsFair == Spec => []EscalationFavoursFairness
<1>1. WInv => EscalationFavoursFairness
  <2> DEFINE c == stored.config
  <2> SUFFICES ASSUME WInv, stored # None, stored.escalated, c.factor >= 10,
                      ListedOnce(c.scoring), ScoringNames(c) # {},
                      \A n \in DOMAIN c.weights : c.weights[n] >= 0
               PROVE  LET old == c.weights
                          new == AdjustedWeights(c, stored.loads)
                          others == DOMAIN old \ {"fairness_score"}
                      IN  /\ Above(Total(new), One) - Below(Total(new), One) <= Cardinality(DOMAIN new)
                          /\ new["fairness_score"] + Tolerance + 1 >= old["fairness_score"]
                          /\ \A a, b \in others : old[a] <= old[b] => new[a] <= new[b]
                          /\ \A a \in others : new[a] <= old[a] + Tolerance + 1
    BY Zenon DEF EscalationFavoursFairness
  <2>1. StoredWell
    BY WhenStored
  <2>2. /\ IsConfig(c) /\ c = Loaded(yaml) /\ stored.loads = BaseLoads
        /\ Escalates(c, stored.loads)
    BY <2>1, WhenStored, StoredFacts
  <2>3. /\ IsConfig(yaml) /\ ScoringNames(yaml) \subseteq ScoringRules /\ ScoringNames(yaml) # {}
        /\ \A j, k \in ScoringAt(yaml) : j # k => yaml.scoring[j].name # yaml.scoring[k].name
    BY <2>1, LoadedNames, NamesDiffer
  <2>4. c.weights = ResolvedWeights(yaml)
    BY <2>2, <2>3, LoadedConfig
  <2>5. ~OffOne(Total(c.weights))
    BY <2>3, <2>4, ResolvedSumIsOne
  <2> HIDE DEF c
  <2> QED
    BY <2>2, <2>5, EscalationFacts
<1> QED
  BY <1>1, DecisionInvariant, PTL

(* The bound the detector compares is one an enabled rule applies. *)
LEMMA BoundIsApplied ==
  ASSUME NEW c, IsConfig(c), NEW name, NEW default,
         NEW e \in EnabledEntries(c.hard), e.name = name
  PROVE  \E d \in EnabledEntries(c.hard) : d.name = name /\ Bound(c, name, default) = Param(d, name, default)
<1> DEFINE at == {k \in DOMAIN c.hard : c.hard[k].enabled /\ c.hard[k].name = name}
           last == CHOOSE k \in at : \A j \in at : j <= k
<1>1. IsList(c.hard)
  BY DEF IsConfig
<1>2. DOMAIN c.hard = 1..Len(c.hard) /\ Len(c.hard) \in Nat
  BY <1>1, SeqLength DEF IsList
<1>3. at \in SUBSET Int /\ IsFiniteSet(at)
  <2>1. at \subseteq 1..Len(c.hard) /\ at \subseteq Int
    BY <1>2
  <2>2. IsFiniteSet(1..Len(c.hard))
    BY <1>2, FS_Interval
  <2> HIDE DEF at
  <2>3. IsFiniteSet(at)
    BY <2>1, <2>2, FS_Subset
  <2> QED
    BY <2>1, <2>3
<1>4. at # {}
  BY DEF EnabledEntries
<1>5. last \in at
  <2> HIDE DEF at
  <2>1. PICK m \in at : \A j \in at : j <= m
    BY <1>3, <1>4, IntMaximum
  <2> QED
    BY <2>1
<1>6. Bound(c, name, default) = Param(c.hard[last], name, default)
  BY <1>4 DEF Bound
<1> HIDE DEF last
<1>7. c.hard[last] \in EnabledEntries(c.hard) /\ c.hard[last].name = name
  BY <1>5 DEF EnabledEntries
<1> QED
  BY <1>6, <1>7

LEMMA ARatingPasses ==
  ASSUME NEW c, IsConfig(c), ~Contradiction(c),
         NEW bounds, bounds = {e \in EnabledEntries(c.hard) : e.name \in {"min_rating", "max_rating"}},
         \A d, e \in bounds : d # e => d.name # e.name
  PROVE  \E stars \in {Param(e, e.name, 0) : e \in bounds} \cup {0} : \A e \in bounds :
            Passes(e, c.compat, None, [rating |-> stars])
<1>1. \A e \in EnabledEntries(c.hard) : IsEntry(e)
  BY DEF IsConfig, IsList, EnabledEntries
<1>2. ASSUME NEW e \in bounds, NEW stars
      PROVE  /\ e.name = "min_rating" =>
                  (Passes(e, c.compat, None, [rating |-> stars]) <=> stars >= Param(e, "min_rating", 0))
             /\ e.name = "max_rating" =>
                  (Passes(e, c.compat, None, [rating |-> stars]) <=> stars <= Param(e, "max_rating", 5))
  BY DEF Passes, Rated, NotOverrated
<1>3. ASSUME NEW e \in bounds
      PROVE  /\ IsEntry(e) /\ e \in EnabledEntries(c.hard) /\ e.name \in {"min_rating", "max_rating"}
             /\ Param(e, "min_rating", 0) \in Int /\ Param(e, "max_rating", 5) \in Int
             /\ Param(e, "max_rating", 0) \in Int
             /\ Param(e, "max_rating", 0) <= Param(e, "max_rating", 5)
  <2>1. IsEntry(e) /\ e \in EnabledEntries(c.hard) /\ e.name \in {"min_rating", "max_rating"}
    BY <1>1
  <2>2. \A key \in DOMAIN e.params : key \in NumericParams => e.params[key] \in Int
    BY <2>1 DEF IsEntry, IsParam
  <2>3. "min_rating" \in NumericParams /\ "max_rating" \in NumericParams
    BY DEF NumericParams
  <2>4. /\ "min_rating" \in DOMAIN e.params => e.params["min_rating"] \in Int
        /\ "max_rating" \in DOMAIN e.params => e.params["max_rating"] \in Int
    BY <2>2, <2>3
  <2>5. Param(e, "min_rating", 0) \in Int /\ Param(e, "max_rating", 5) \in Int
        /\ Param(e, "max_rating", 0) \in Int
    BY <2>4 DEF Param, Get
  <2>6. Param(e, "max_rating", 0) <= Param(e, "max_rating", 5)
    <3>1. CASE "max_rating" \in DOMAIN e.params
      BY <2>5, <3>1 DEF Param, Get
    <3>2. CASE "max_rating" \notin DOMAIN e.params
      BY <3>2 DEF Param, Get
    <3> QED
      BY <3>1, <3>2
  <2> QED
    BY <2>1, <2>5, <2>6
<1>4. CASE \E e \in bounds : e.name = "min_rating"
  <2>1. PICK m \in bounds : m.name = "min_rating"
    BY <1>4
  <2> DEFINE stars == Param(m, "min_rating", 0)
  <2>2. stars \in Int /\ stars \in {Param(e, e.name, 0) : e \in bounds} \cup {0}
    BY <1>3, <2>1
  <2>3. ASSUME NEW e \in bounds PROVE Passes(e, c.compat, None, [rating |-> stars])
    <3>1. CASE e.name = "min_rating"
      <4>1. e = m
        BY <2>1, <3>1
      <4>2. stars >= Param(e, "min_rating", 0)
        BY <2>2, <4>1
      <4> QED
        BY <1>2, <3>1, <4>2
    <3>2. CASE e.name = "max_rating"
      <4>1. PICK d \in EnabledEntries(c.hard) :
               d.name = "min_rating" /\ Bound(c, "min_rating", 0) = Param(d, "min_rating", 0)
        <5> DEFINE lowest == "min_rating"
                   none == 0
        <5>1. m \in EnabledEntries(c.hard) /\ m.name = lowest
          BY <1>3, <2>1
        <5> HIDE DEF lowest, none
        <5>2. \E d \in EnabledEntries(c.hard) :
                 d.name = lowest /\ Bound(c, lowest, none) = Param(d, lowest, none)
          BY <5>1, BoundIsApplied
        <5> QED
          BY <5>2 DEF lowest, none
      <4>2. PICK f \in EnabledEntries(c.hard) :
               f.name = "max_rating" /\ Bound(c, "max_rating", 5) = Param(f, "max_rating", 5)
        <5> DEFINE highest == "max_rating"
                   most == 5
        <5>1. e \in EnabledEntries(c.hard) /\ e.name = highest
          BY <1>3, <3>2
        <5> HIDE DEF highest, most
        <5>2. \E f \in EnabledEntries(c.hard) :
                 f.name = highest /\ Bound(c, highest, most) = Param(f, highest, most)
          BY <5>1, BoundIsApplied
        <5> QED
          BY <5>2 DEF highest, most
      <4>3. d = m /\ f = e
        <5>1. d \in bounds /\ f \in bounds
          BY <4>1, <4>2
        <5> QED
          BY <2>1, <3>2, <4>1, <4>2, <5>1
      <4>4. Bound(c, "min_rating", 0) = stars /\ Bound(c, "max_rating", 5) = Param(e, "max_rating", 5)
        BY <4>1, <4>2, <4>3
      <4>5. Param(e, "max_rating", 5) \in Int
        BY <1>3
      <4>6. ~(stars > Param(e, "max_rating", 5))
        <5>1. ~(/\ Bound(c, "min_rating", 0) # None /\ Bound(c, "max_rating", 5) # None
                /\ Bound(c, "min_rating", 0) > Bound(c, "max_rating", 5))
          BY Zenon DEF Contradiction
        <5> HIDE DEF stars
        <5>2. stars # None /\ Param(e, "max_rating", 5) # None
          BY <2>2, <4>5, RulesAssumption
        <5> QED
          BY <4>4, <5>1, <5>2
      <4>7. stars <= Param(e, "max_rating", 5)
        <5> HIDE DEF stars
        <5> QED
          BY <2>2, <4>5, <4>6
      <4> QED
        BY <1>2, <3>2, <4>7
    <3> QED
      BY <1>3, <3>1, <3>2
  <2> HIDE DEF stars
  <2> QED
    BY <2>2, <2>3
<1>5. CASE (\E e \in bounds : e.name = "max_rating") /\ ~\E e \in bounds : e.name = "min_rating"
  <2>1. PICK m \in bounds : m.name = "max_rating"
    BY <1>5
  <2> DEFINE stars == Param(m, "max_rating", 0)
  <2>2. stars \in {Param(e, e.name, 0) : e \in bounds} \cup {0}
    BY <2>1
  <2>3. ASSUME NEW e \in bounds PROVE Passes(e, c.compat, None, [rating |-> stars])
    <3>1. e.name = "max_rating"
      BY <1>3, <1>5
    <3>2. e = m
      BY <2>1, <3>1
    <3>3. stars <= Param(e, "max_rating", 5)
      BY <1>3, <3>2
    <3> QED
      BY <1>2, <3>1, <3>3
  <2> HIDE DEF stars
  <2> QED
    BY <2>2, <2>3
<1>6. CASE bounds = {}
  BY <1>6
<1> QED
  BY <1>3, <1>4, <1>5, <1>6

(* SomeRatingPasses: for any bounds of the file, of the parameters a         *)
(* simulation sets, and of the rules it switches on.                         *)
THEOREM RatingsAreNotContradictory == Spec => []SomeRatingPasses
<1>1. WInv => SomeRatingPasses
  <2> DEFINE c == IF Answered THEN config ELSE stored.config
             bounds == {e \in EnabledEntries(c.hard) : e.name \in {"min_rating", "max_rating"}}
  <2> SUFFICES ASSUME WInv, Answered \/ stage = "stored",
                      \A d, e \in bounds : d # e => d.name # e.name
               PROVE  \E stars \in {Param(e, e.name, 0) : e \in bounds} \cup {0} : \A e \in bounds :
                         Passes(e, c.compat, None, [rating |-> stars])
    BY Zenon DEF SomeRatingPasses
  <2>1. IsConfig(c) /\ ~Contradiction(c)
    <3>1. CASE Answered
      <4>1. MutatedWell /\ AnsweredWell
        BY <3>1, WhenStored
      <4>2. IsConfig(config) /\ ~Blocking(config)
        BY <4>1 DEF MutatedWell, AnsweredWell, Evaluable
      <4> QED
        BY <3>1, <4>2 DEF Blocking
    <3>2. CASE ~Answered
      <4>1. StoredWell
        BY <3>2, WhenStored
      <4>2. IsConfig(stored.config) /\ stored.config.hard = yaml.hard /\ ~Blocking(yaml)
        BY <4>1, WhenStored, StoredFacts, LoadedNames DEF StoredWell, Acceptable
      <4>3. ~Contradiction(yaml)
        BY <4>2 DEF Blocking
      <4>4. ~Contradiction(stored.config)
        <5>1. \A name, default : Bound(stored.config, name, default) = Bound(yaml, name, default)
          BY <4>2 DEF Bound
        <5> QED
          BY <4>3, <5>1, Zenon DEF Contradiction
      <4> QED
        BY <3>2, <4>2, <4>4
    <3> QED
      BY <3>1, <3>2
  <2> HIDE DEF c
  <2> QED
    BY <2>1, ARatingPasses
<1> QED
  BY <1>1, DecisionInvariant, PTL

-----------------------------------------------------------------------------
(* Two evaluations agree if they take the same steps from the same start.   *)
LEMMA SameSteps ==
  ASSUME NEW c, NEW d, NEW v, NEW w, NEW orders, Len(orders) \in Nat, NEW rows, NEW pool,
         NEW observed, StartLoads(rows, observed) = StartLoads(pool, observed),
         \A sofar, o : EvalStep(c, v, orders, rows, sofar, o) = EvalStep(d, w, orders, pool, sofar, o)
  PROVE  Evaluate(c, v, orders, rows, observed) = Evaluate(d, w, orders, pool, observed)
<1> DEFINE m == Len(orders)
<1>1. PICK f : IsRun(f, m, c, v, orders, rows, observed)
               /\ Evaluate(c, v, orders, rows, observed) = f[m]
  BY EvaluateRuns
<1>2. PICK g : IsRun(g, m, d, w, orders, pool, observed)
               /\ Evaluate(d, w, orders, pool, observed) = g[m]
  BY EvaluateRuns
<1> DEFINE Good == {n \in Nat : n <= m => f[n] = g[n]}
<1>3. 0 \in Good
  BY <1>1, <1>2 DEF IsRun, EvalStart
<1>4. \A n \in Nat : n \in Good => n + 1 \in Good
  <2> SUFFICES ASSUME NEW n \in Nat, n \in Good, n + 1 <= m
               PROVE  f[n + 1] = g[n + 1]
    OBVIOUS
  <2>1. n + 1 \in 1..m /\ n <= m /\ (n + 1) - 1 = n
    OBVIOUS
  <2>2. f[n] = g[n]
    BY <2>1
  <2>3. f[n + 1] = EvalStep(c, v, orders, rows, f[(n + 1) - 1], n + 1)
    BY <1>1, <2>1 DEF IsRun
  <2>4. g[n + 1] = EvalStep(d, w, orders, pool, g[(n + 1) - 1], n + 1)
    BY <1>2, <2>1 DEF IsRun
  <2> QED
    BY <2>1, <2>2, <2>3, <2>4
<1>5. m \in Good
  <2> HIDE DEF Good
  <2> QED
    BY <1>3, <1>4, NatInduction1
<1> QED
  BY <1>1, <1>2, <1>5

(* The weights matter at the scoring rules that are on. *)
WeightsAgree(c, v, w) ==
  \A k \in ScoringAt(c) : Get(v, c.scoring[k].name, 0) = Get(w, c.scoring[k].name, 0)

LEMMA SameWeights ==
  ASSUME NEW c, NEW v, NEW w, WeightsAgree(c, v, w),
         NEW orders, Len(orders) \in Nat, NEW rows, NEW observed
  PROVE  Evaluate(c, v, orders, rows, observed) = Evaluate(c, w, orders, rows, observed)
<1>1. \A order, p, loads : WeightedScore(c, v, order, p, loads) = WeightedScore(c, w, order, p, loads)
  <2> TAKE order, p, loads
  <2> DEFINE score(k) == Score(c.scoring[k], order, p, loads)
             f == [k \in ScoringAt(c) |-> Get(v, c.scoring[k].name, 0) * score(k)]
             g == [k \in ScoringAt(c) |-> Get(w, c.scoring[k].name, 0) * score(k)]
  <2>1. f = g
    <3> HIDE DEF score
    <3> QED
      BY DEF WeightsAgree
  <2>2. WeightedScore(c, v, order, p, loads) = Total(f)
        /\ WeightedScore(c, w, order, p, loads) = Total(g)
    BY DEF WeightedScore
  <2> HIDE DEF f, g
  <2> QED
    BY <2>1, <2>2
<1>2. \A order, loads, passing :
         BestRow(c, v, order, rows, loads, passing) = BestRow(c, w, order, rows, loads, passing)
  BY <1>1 DEF BestRow
<1>3. \A sofar, o : EvalStep(c, v, orders, rows, sofar, o) = EvalStep(c, w, orders, rows, sofar, o)
  BY <1>2 DEF EvalStep, Ranked
<1> QED
  BY <1>3, SameSteps

(* What the simulator resolves anew is what is stored, as far as any rule    *)
(* reads it.                                                                 *)
LEMMA StoredWeightsAgree ==
  ASSUME WInv, StoredWell, ListedOnce(stored.config.scoring)
  PROVE  WeightsAgree(stored.config, ResolvedWeights(stored.config), stored.config.weights)
<1>1. \A j, k \in ScoringAt(yaml) : j # k => yaml.scoring[j].name # yaml.scoring[k].name
  BY LoadedNames, NamesDiffer
<1>2. CASE ScoringNames(yaml) # {}
  <2>1. ResolvedWeights(stored.config) = stored.config.weights
    BY <1>1, <1>2, LoadedNames, LoadedAgain
  <2> QED
    BY <2>1 DEF WeightsAgree
<1>3. CASE ScoringNames(yaml) = {}
  <2>1. ScoringAt(stored.config) = {}
    BY <1>3, LoadedNames DEF ScoringNames
  <2> QED
    BY <2>1 DEF WeightsAgree
<1> QED
  BY <1>2, <1>3

LEMMA ReplayedLoads ==
  ASSUME WInv, StoredWell
  PROVE  ReplayLoads(stored.partners) = BaseLoads
<1>1. /\ stored.loads = BaseLoads /\ IdsOf(stored.partners) = IdsOf(Partners)
      /\ BaseLoads \in [IdsOf(Partners) -> Nat]
  BY WhenStored, StoredFacts
<1>2. ReplayLoads(stored.partners) = [i \in IdsOf(Partners) |-> Get(BaseLoads, i, 0)]
  BY <1>1 DEF ReplayLoads
<1>3. \A i \in IdsOf(Partners) : Get(BaseLoads, i, 0) = BaseLoads[i]
  BY <1>1 DEF Get
<1> QED
  BY <1>1, <1>2, <1>3

(* EmptySpecReportsReservations: a simulation without mutations finds the    *)
(* pipeline's choices again and reports the reservations' changes, for any   *)
(* configuration that was not escalated and any request the snapshot keeps.  *)
THEOREM EmptySimulationIsIdle == Spec => []EmptySpecReportsReservations
<1>1. WInv => EmptySpecReportsReservations
  <2> SUFFICES ASSUME WInv, Answered, spec = <<>>, ~stored.escalated,
                      stored.orders = Orders, stored.partners = Partners,
                      UniqueRows(stored.orders), ListedOnce(stored.config.scoring)
               PROVE  /\ reply.allocations = stored.chosen
                      /\ reply.changed = {stored.orders[o].id :
                            o \in {k \in DOMAIN stored.orders : stored.selected[k] # stored.chosen[k]}}
    BY DEF EmptySpecReportsReservations
  <2> DEFINE c == stored.config
             os == stored.orders
             run == Simulated(config, snapshot)
  <2>1. StoredWell /\ MutatedWell /\ AnsweredWell
    BY WhenStored
  <2>2. config = c /\ snapshot = stored.partners
    BY <2>1 DEF MutatedWell, AnsweredWell
  <2>3. /\ c = Loaded(yaml) /\ stored.chosen = Decision.chosen /\ IsOrders(os)
        /\ ~Escalates(Loaded(yaml), BaseLoads)
    BY <2>1, WhenStored, StoredFacts
  <2>4. AdjustedWeights(c, BaseLoads) = c.weights
    BY <2>3 DEF AdjustedWeights
  <2>5. Decision = Evaluate(c, c.weights, os, stored.partners, BaseLoads)
    BY <2>3, <2>4 DEF Decision
  <2>6. run = Evaluate(c, ResolvedWeights(c), os, stored.partners, BaseLoads)
    BY <2>1, <2>2, ReplayedLoads DEF Simulated
  <2>7. Len(os) \in Nat
    BY <2>3, RunShape DEF IsOrders
  <2>8. WeightsAgree(c, ResolvedWeights(c), c.weights)
    BY <2>1, StoredWeightsAgree
  <2>9. run = Decision
    <3> HIDE DEF c, os, run
    <3> QED
      BY <2>5, <2>6, <2>7, <2>8, SameWeights
  <2>10. reply.allocations = stored.chosen /\ reply.changed = Changed(stored.selected, stored.chosen)
    <3>1. reply.allocations = run.chosen /\ reply.changed = Changed(stored.selected, run.chosen)
      BY <2>1 DEF AnsweredWell
    <3> HIDE DEF run
    <3> QED
      BY <2>3, <2>9, <3>1
  <2>11. ASSUME NEW k \in DOMAIN os
         PROVE  LET at == {j \in DOMAIN os : os[j].id = os[k].id}
                IN  (CHOOSE j \in at : \A l \in at : l <= j) = k
    <3> DEFINE at == {j \in DOMAIN os : os[j].id = os[k].id}
    <3>1. k \in Int
      BY <2>3 DEF IsOrders
    <3>2. at = {k}
      BY DEF UniqueRows
    <3> HIDE DEF at
    <3>3. \A j \in at : j = k
      BY <3>2
    <3>4. k \in at /\ \A l \in at : l <= k
      BY <3>1, <3>2
    <3>5. (CHOOSE j \in at : \A l \in at : l <= j) \in at
      BY <3>4
    <3> QED
      BY <3>3, <3>5 DEF at
  <2>12. Changed(stored.selected, stored.chosen)
           = {os[o].id : o \in {k \in DOMAIN os : stored.selected[k] # stored.chosen[k]}}
    <3> DEFINE Last(i) == CHOOSE j \in {l \in DOMAIN os : os[l].id = i} :
                             \A l \in {l \in DOMAIN os : os[l].id = i} : l <= j
    <3>1. \A k \in DOMAIN os : Last(os[k].id) = k
      BY <2>11
    <3>2. Changed(stored.selected, stored.chosen)
            = {i \in IdsOf(os) : stored.selected[Last(i)] # stored.chosen[Last(i)]}
      BY DEF Changed
    <3> HIDE DEF Last
    <3> QED
      BY <3>1, <3>2 DEF IdsOf
  <2> QED
    BY <2>10, <2>12
<1> QED
  BY <1>1, DecisionInvariant, PTL

-----------------------------------------------------------------------------
(* Rows in ascending order of ids that differ.                              *)
Increasing(rows, n) ==
  /\ n \in Nat /\ DOMAIN rows = 1..n
  /\ \A k \in 1..n : rows[k].id \in Int
  /\ \A j, k \in 1..n : j < k => rows[j].id < rows[k].id

LEMMA IncreasingRow ==
  ASSUME NEW rows, NEW n, Increasing(rows, n), NEW k \in 1..n
  PROVE  rows[k].id \in IdsOf(rows) /\ LastRow(rows, rows[k].id) = rows[k]
<1>1. n \in Nat /\ DOMAIN rows = 1..n /\ k \in DOMAIN rows
  BY DEF Increasing
<1>2. rows[k].id \in IdsOf(rows)
  BY <1>1 DEF IdsOf
<1>3. PICK j \in 1..n : LastRow(rows, rows[k].id) = rows[j] /\ rows[j].id = rows[k].id
  BY <1>1, <1>2, LastRowFacts
<1>4. j = k
  <2>1. j \in Int /\ k \in Int /\ rows[j].id \in Int /\ rows[k].id \in Int
    BY <1>1 DEF Increasing
  <2>2. ~(j < k) /\ ~(k < j)
    BY <1>3, <2>1 DEF Increasing
  <2> QED
    BY <2>1, <2>2
<1> QED
  BY <1>2, <1>3, <1>4

(* As many ids at most an id as there are rows up to its row. *)
LEMMA IdsUpto ==
  ASSUME NEW rows, NEW n, Increasing(rows, n), NEW k \in 0..n
  PROVE  LET upto == {rows[j].id : j \in 1..k}
         IN  IsFiniteSet(upto) /\ Cardinality(upto) = k
<1> DEFINE f == [j \in 1..k |-> rows[j].id]
           upto == {rows[j].id : j \in 1..k}
<1>1. n \in Nat /\ k \in Nat /\ k <= n /\ 1..k \subseteq 1..n
  BY DEF Increasing
<1>2. f \in Bijection(1..k, upto)
  <2>1. f \in [1..k -> upto] /\ \A i \in upto : \E j \in 1..k : f[j] = i
    OBVIOUS
  <2>2. \A i, j \in 1..k : f[i] = f[j] => i = j
    <3> SUFFICES ASSUME NEW i \in 1..k, NEW j \in 1..k, rows[i].id = rows[j].id PROVE i = j
      OBVIOUS
    <3>1. i \in 1..n /\ j \in 1..n /\ i \in Int /\ j \in Int /\ rows[i].id \in Int
      BY <1>1 DEF Increasing
    <3>2. ~(i < j) /\ ~(j < i)
      BY <3>1 DEF Increasing
    <3> QED
      BY <3>1, <3>2
  <2> HIDE DEF f, upto
  <2> QED
    BY <2>1, <2>2 DEF Bijection, Injection, Surjection, IsInjective
<1>3. IsFiniteSet(1..k) /\ Cardinality(1..k) = k
  BY <1>1, FS_Interval
<1> HIDE DEF f, upto
<1>4. IsFiniteSet(upto) /\ Cardinality(upto) = k
  BY <1>2, <1>3, FS_Bijection DEF ExistsBijection
<1> QED
  BY <1>4 DEF upto

LEMMA AscendingOfRows ==
  ASSUME NEW rows, NEW n, Increasing(rows, n)
  PROVE  Ascending(IdsOf(rows)) = [k \in 1..n |-> rows[k].id]
<1> DEFINE ids == IdsOf(rows)
           f == [k \in 1..n |-> rows[k].id]
<1>1. n \in Nat /\ DOMAIN rows = 1..n
  BY DEF Increasing
<1>2. ids = {rows[j].id : j \in 1..n}
  BY <1>1 DEF IdsOf
<1>3. Cardinality(ids) = n
  <2> DEFINE all == n
  <2>1. all \in 0..n
    BY <1>1
  <2> HIDE DEF all
  <2>2. Cardinality({rows[j].id : j \in 1..all}) = all
    BY <2>1, IdsUpto
  <2> QED
    BY <1>2, <2>2 DEF all
<1>4. \A k \in 1..n : Cardinality({j \in ids : j <= rows[k].id}) = k
  <2> TAKE k \in 1..n
  <2>1. {j \in ids : j <= rows[k].id} = {rows[j].id : j \in 1..k}
    <3>1. \A j \in 1..n : rows[j].id <= rows[k].id <=> j \in 1..k
      <4> TAKE j \in 1..n
      <4>1. j \in Int /\ k \in Int /\ rows[j].id \in Int /\ rows[k].id \in Int /\ 1 <= j
        BY DEF Increasing
      <4>2. /\ j < k => rows[j].id < rows[k].id
            /\ k < j => rows[k].id < rows[j].id
        BY DEF Increasing
      <4>3. j = k => rows[j].id = rows[k].id
        OBVIOUS
      <4> QED
        BY <4>1, <4>2, <4>3
    <3>2. \A j \in 1..k : j \in 1..n
      BY <1>1
    <3> HIDE DEF ids
    <3> QED
      BY <1>2, <3>1, <3>2
  <2>2. k \in 0..n
    OBVIOUS
  <2> QED
    BY <2>1, <2>2, IdsUpto
<1>5. \A k \in 1..n : (CHOOSE i \in ids : Cardinality({j \in ids : j <= i}) = k) = rows[k].id
  <2> TAKE k \in 1..n
  <2> DEFINE i == CHOOSE i \in ids : Cardinality({j \in ids : j <= i}) = k
  <2>1. rows[k].id \in ids
    BY <1>2
  <2>2. i \in ids /\ Cardinality({j \in ids : j <= i}) = k
    <3> HIDE DEF ids
    <3> QED
      BY <1>4, <2>1
  <2>3. PICK l \in 1..n : i = rows[l].id
    BY <1>2, <2>2
  <2>4. l = k
    BY <1>4, <2>2, <2>3
  <2> QED
    BY <2>3, <2>4
<1>6. Ascending(ids) = [k \in 1..n |-> CHOOSE i \in ids : Cardinality({j \in ids : j <= i}) = k]
  BY <1>3 DEF Ascending
<1> HIDE DEF ids
<1> QED
  BY <1>5, <1>6 DEF ids

(* The rows of the snapshot are in this order unless an id repeats.          *)
LEMMA StoredIncrease ==
  ASSUME WInv, StoredWell, UniqueRows(stored.partners)
  PROVE  /\ Increasing(stored.partners, Len(payload.partners))
         /\ \A k \in 1..Len(payload.partners) :
              /\ HasFields(stored.partners[k]) /\ IsRow(stored.partners[k])
              /\ stored.partners[k].load <= BaseLoads[stored.partners[k].id]
<1> DEFINE p == payload.partners
           rows == stored.partners
           n == Len(p)
<1>1. payload \in Inputs /\ Acceptable /\ rows = Restored(Partners)
  BY WhenStored, StoredFacts DEF StoredWell
<1>2. InOrder(p) /\ n \in Nat /\ DOMAIN p = 1..n /\ \A k \in 1..n : IsPartnerJson(p[k])
  <2>1. InOrder(p) /\ IsListOf(p, IsPartnerJson)
    BY <1>1, WhatIfAssumption
  <2>2. p \in Seq({p[k] : k \in DOMAIN p}) /\ \A k \in DOMAIN p : IsPartnerJson(p[k])
    BY <2>1 DEF IsListOf
  <2> QED
    BY <2>1, <2>2, SeqLength
<1>3. /\ DOMAIN rows = 1..n /\ \A k \in 1..n : rows[k].id = p[k].id
      /\ \A k \in 1..n : IsRow(rows[k]) /\ HasFields(rows[k])
      /\ DOMAIN Partners = 1..n
      /\ \A k \in 1..n : /\ Partners[k].id = p[k].id /\ Partners[k].load = rows[k].load
                        /\ IsRow(Partners[k])
  <2>1. DOMAIN Partners = 1..n /\ \A k \in 1..n : Partners[k] = NormalizedPartner(p[k])
    BY <1>2 DEF Partners
  <2>2. \A k \in 1..n : Partners[k] # None
    BY <1>1, <2>1 DEF Acceptable, AllAccepted
  <2>3. DOMAIN rows = 1..n /\ \A k \in 1..n : rows[k] = [Partners[k] EXCEPT !.pos = Kept(@)]
    BY <1>1, <2>1 DEF Restored
  <2> HIDE DEF rows, p, n
  <2>4. ASSUME NEW k \in 1..n
        PROVE  /\ rows[k].id = p[k].id /\ IsRow(rows[k]) /\ HasFields(rows[k])
               /\ Partners[k].id = p[k].id /\ Partners[k].load = rows[k].load
               /\ IsRow(Partners[k])
    <3> DEFINE json == p[k]
               q == Partners[k]
               r == rows[k]
    <3>1. IsPartnerJson(json) /\ q = NormalizedPartner(json) /\ q # None
          /\ r = [q EXCEPT !.pos = Kept(@)]
      BY <1>2, <2>1, <2>2, <2>3
    <3> HIDE DEF json, q, r
    <3>2. /\ q.id = json.id /\ r.id = json.id /\ r.load = q.load
          /\ IsRow(q) /\ IsRow(r) /\ HasFields(r)
      BY <3>1, PartnersTyped
    <3> QED
      BY <3>2 DEF json, q, r
  <2> QED
    BY <2>1, <2>3, <2>4
<1>4. \A k \in 1..n : p[k].id \in Int
  BY <1>2 DEF IsPartnerJson
<1>5. \A j, k \in 1..n : j < k => rows[j].id < rows[k].id
  <2> SUFFICES ASSUME NEW j \in 1..n, NEW k \in 1..n, j < k PROVE rows[j].id < rows[k].id
    OBVIOUS
  <2>1. p[j].id <= p[k].id
    <3>1. j \in DOMAIN p /\ k \in DOMAIN p /\ j <= k
      BY <1>2
    <3> HIDE DEF p, n
    <3> QED
      BY <1>2, <3>1 DEF InOrder
  <2>2. rows[j].id # rows[k].id
    BY <1>3 DEF UniqueRows
  <2> QED
    BY <1>3, <1>4, <2>1, <2>2
<1>6. Increasing(rows, n) /\ Increasing(Partners, n)
  BY <1>2, <1>3, <1>4, <1>5 DEF Increasing
<1>7. ASSUME NEW k \in 1..n PROVE rows[k].load <= BaseLoads[rows[k].id]
  <2> DEFINE i == rows[k].id
  <2>1. i = Partners[k].id /\ Partners[k].load = rows[k].load /\ rows[k].load \in Int
    BY <1>3 DEF IsRow
  <2>2. i \in IdsOf(Partners) /\ LastRow(Partners, i) = Partners[k]
    BY <1>6, <2>1, IncreasingRow
  <2>3. BaseLoads[i] = Above(Above(0, LastRow(Partners, i).load), Get(<<>>, i, 0))
    BY <2>2 DEF BaseLoads, StartLoads
  <2>4. Get(<<>>, i, 0) = 0
    BY DEF Get
  <2>5. BaseLoads[i] = Above(Above(0, rows[k].load), 0)
    BY <2>1, <2>2, <2>3, <2>4
  <2> HIDE DEF i, rows
  <2>6. rows[k].load <= BaseLoads[i]
    BY <2>1, <2>5 DEF Above
  <2> QED
    BY <2>6 DEF i
<1> QED
  BY <1>3, <1>6, <1>7

(* What the rules that are on read of two partners is the same.             *)
ReadAlike(c, p, q) ==
  /\ p.pos = q.pos /\ p.rating = q.rating /\ p.types = q.types /\ p.load = q.load
  /\ p.available = q.available /\ p.active = q.active
  /\ \A e \in EnabledEntries(c.hard) \cup EnabledEntries(c.scoring) :
        /\ e.name = "vehicle_condition" => p.condition = q.condition
        /\ e.name = "on_time_rate" => p.avg_time = q.avg_time
        /\ e.name = "weather_safety" => p.raw = q.raw

LEMMA AlikePass ==
  ASSUME NEW c, Builds(c), NEW p, NEW q, ReadAlike(c, p, q), NEW order,
         NEW e \in EnabledEntries(c.hard)
  PROVE  Passes(e, c.compat, order, p) = Passes(e, c.compat, order, q)
<1>1. e.name \in HardRules
  BY DEF Builds, EnabledEntries
<1>2. /\ p.pos = q.pos /\ p.rating = q.rating /\ p.types = q.types /\ p.load = q.load
      /\ p.available = q.available /\ p.active = q.active
      /\ e.name = "vehicle_condition" => p.condition = q.condition
      /\ e.name = "weather_safety" => p.raw = q.raw
  BY DEF ReadAlike
<1>3. /\ Available(p) = Available(q) /\ Near(e, order, p) = Near(e, order, q)
      /\ HasRoom(e, p) = HasRoom(e, q) /\ Rated(e, p) = Rated(e, q)
      /\ NotOverrated(e, p) = NotOverrated(e, q)
      /\ RightVehicle(c.compat, order, p) = RightVehicle(c.compat, order, q)
  BY <1>2 DEF Available, Near, Distance, HasRoom, Rated, NotOverrated, RightVehicle
<1>4. e.name = "vehicle_condition" => InCondition(e, p) = InCondition(e, q)
  BY <1>2 DEF InCondition
<1>5. e.name = "weather_safety" => SafeInWeather(e, order, p) = SafeInWeather(e, order, q)
  BY <1>2 DEF SafeInWeather
<1> QED
  BY <1>1, <1>3, <1>4, <1>5 DEF Passes, HardRules

LEMMA AlikeScore ==
  ASSUME NEW c, Builds(c), NEW p, NEW q, ReadAlike(c, p, q), NEW order, NEW loads,
         NEW k \in ScoringAt(c)
  PROVE  Score(c.scoring[k], order, p, loads) = Score(c.scoring[k], order, q, loads)
<1> DEFINE e == c.scoring[k]
<1>1. e \in EnabledEntries(c.scoring) /\ e.name \in ScoringRules
  BY DEF Builds, EnabledEntries, ScoringAt
<1> HIDE DEF e
<1>2. /\ p.pos = q.pos /\ p.rating = q.rating /\ p.load = q.load
      /\ e.name = "on_time_rate" => p.avg_time = q.avg_time
  BY <1>1 DEF ReadAlike
<1>3. /\ Proximity(e, order, p) = Proximity(e, order, q) /\ RatingScore(p) = RatingScore(q)
      /\ Fairness(p, loads) = Fairness(q, loads) /\ InTraffic(e, order, p) = InTraffic(e, order, q)
  BY <1>2 DEF Proximity, Distance, RatingScore, Fairness, InTraffic
<1>4. e.name = "on_time_rate" => OnTime(e, p) = OnTime(e, q)
  BY <1>2 DEF OnTime
<1>5. Score(e, order, p, loads) = Score(e, order, q, loads)
  BY <1>1, <1>3, <1>4 DEF Score, ScoringRules
<1> QED
  BY <1>5 DEF e

LEMMA AlikeWeighted ==
  ASSUME NEW c, Builds(c), NEW p, NEW q, ReadAlike(c, p, q), NEW w, NEW order, NEW loads
  PROVE  WeightedScore(c, w, order, p, loads) = WeightedScore(c, w, order, q, loads)
<1> DEFINE f == [k \in ScoringAt(c) |-> Get(w, c.scoring[k].name, 0) * Score(c.scoring[k], order, p, loads)]
           g == [k \in ScoringAt(c) |-> Get(w, c.scoring[k].name, 0) * Score(c.scoring[k], order, q, loads)]
<1>1. \A k \in ScoringAt(c) :
         Score(c.scoring[k], order, p, loads) = Score(c.scoring[k], order, q, loads)
  BY AlikeScore
<1>2. f = g
  BY <1>1
<1>3. WeightedScore(c, w, order, p, loads) = Total(f) /\ WeightedScore(c, w, order, q, loads) = Total(g)
  BY DEF WeightedScore
<1> HIDE DEF f, g
<1> QED
  BY <1>2, <1>3

LEMMA SameRows ==
  ASSUME NEW c, Builds(c), NEW w, NEW orders, Len(orders) \in Nat, NEW rows, NEW pool, NEW observed,
         StartLoads(rows, observed) = StartLoads(pool, observed), DOMAIN rows = DOMAIN pool,
         \A k \in DOMAIN rows :
            /\ rows[k].id = pool[k].id
            /\ \A loads : ReadAlike(c, Effective(rows, k, loads), Effective(pool, k, loads))
  PROVE  Evaluate(c, w, orders, rows, observed) = Evaluate(c, w, orders, pool, observed)
<1>1. ASSUME NEW order, NEW loads
      PROVE  /\ EligibleRows(c, order, rows, loads) = EligibleRows(c, order, pool, loads)
             /\ EligibleRows(c, order, rows, loads) \subseteq DOMAIN rows
  <2>1. \A k \in DOMAIN rows : \A e \in EnabledEntries(c.hard) :
           Passes(e, c.compat, order, Effective(rows, k, loads))
             = Passes(e, c.compat, order, Effective(pool, k, loads))
    BY AlikePass
  <2> QED
    BY <2>1 DEF EligibleRows
<1>2. ASSUME NEW order, NEW loads, NEW passing \in SUBSET DOMAIN rows
      PROVE  /\ BestRow(c, w, order, rows, loads, passing) = BestRow(c, w, order, pool, loads, passing)
             /\ BestRow(c, w, order, rows, loads, passing) \in passing \cup {None}
  <2> DEFINE score == [k \in passing |-> WeightedScore(c, w, order, Effective(rows, k, loads), loads)]
             score1 == [k \in passing |-> WeightedScore(c, w, order, Effective(pool, k, loads), loads)]
  <2>0. \A k \in passing : WeightedScore(c, w, order, Effective(rows, k, loads), loads)
                             = WeightedScore(c, w, order, Effective(pool, k, loads), loads)
    BY AlikeWeighted
  <2>1. score = score1
    BY <2>0
  <2>2. /\ BestRow(c, w, order, rows, loads, passing) = FirstBest(score)
        /\ BestRow(c, w, order, pool, loads, passing) = FirstBest(score1)
        /\ DOMAIN score = passing
    BY DEF BestRow
  <2> HIDE DEF score, score1
  <2> QED
    BY <2>1, <2>2, BestIsEligible
<1>3. ASSUME NEW sofar, NEW passing \in SUBSET DOMAIN rows, NEW raised, NEW best \in passing \cup {None}
      PROVE  Allocated(sofar, rows, passing, raised, best) = Allocated(sofar, pool, passing, raised, best)
  <2>1. {rows[k].id : k \in passing} = {pool[k].id : k \in passing}
    OBVIOUS
  <2>2. (IF best = None THEN None ELSE rows[best].id) = (IF best = None THEN None ELSE pool[best].id)
    OBVIOUS
  <2> QED
    BY <2>1, <2>2 DEF Allocated
<1>4. ASSUME NEW sofar, NEW o
      PROVE  EvalStep(c, w, orders, rows, sofar, o) = EvalStep(c, w, orders, pool, sofar, o)
  <2> DEFINE passing == EligibleRows(c, orders[o], rows, sofar.loads)
             raised == ScoreRaises(c, sofar, passing)
             best == IF raised THEN None ELSE BestRow(c, w, orders[o], rows, sofar.loads, passing)
  <2>1. passing \in SUBSET DOMAIN rows /\ passing = EligibleRows(c, orders[o], pool, sofar.loads)
    BY <1>1
  <2>2. best = IF raised THEN None ELSE BestRow(c, w, orders[o], pool, sofar.loads, passing)
    <3> HIDE DEF passing
    <3> QED
      BY <1>2, <2>1
  <2>3. best \in passing \cup {None}
    <3> HIDE DEF passing
    <3> QED
      BY <1>2, <2>1
  <2>4. Allocated(sofar, rows, passing, raised, best) = Allocated(sofar, pool, passing, raised, best)
    <3> HIDE DEF passing, raised, best
    <3> QED
      BY <1>3, <2>1, <2>3
  <2> QED
    BY <2>1, <2>2, <2>4 DEF EvalStep, Ranked
<1> QED
  BY <1>4, SameSteps

-----------------------------------------------------------------------------
(* The three mutations that are inert.                                      *)

LEMMA ShownWeightIsIdle ==
  ASSUME WInv, StoredWell, NEW m, RepeatsShownWeight(m)
  PROVE  [stored.config EXCEPT !.weights = Put(@, m.rule, m.value)] = stored.config
<1> DEFINE c == stored.config
           w == c.weights
<1>1. m.rule \in ScoringNames(yaml) /\ m.value = Get(Loaded(yaml).weights, m.rule, 0)
  BY DEF RepeatsShownWeight, OfferedWeights
<1>2. IsConfig(yaml) /\ c = Loaded(yaml) /\ IsConfig(c)
  BY WhenStored, StoredFacts
<1>3. w = ResolvedWeights(yaml) /\ DOMAIN w = ScoringNames(yaml)
  BY <1>1, <1>2, LoadedConfig, ResolvedAreWeights
<1>4. m.value = w[m.rule] /\ m.rule \in DOMAIN w
  BY <1>1, <1>2, <1>3 DEF Get
<1>5. w = [n \in DOMAIN w |-> w[n]]
  BY <1>2 DEF IsConfig, IsWeights
<1>6. Put(w, m.rule, m.value) = w
  <2> HIDE DEF w
  <2>1. DOMAIN w \cup {m.rule} = DOMAIN w
    BY <1>4
  <2>2. Put(w, m.rule, m.value) = [n \in DOMAIN w |-> w[n]]
    BY <1>4, <2>1 DEF Put
  <2> QED
    BY <1>5, <2>2
<1>7. [c EXCEPT !.weights = w] = c
  <2>1. c = [hard |-> c.hard, scoring |-> c.scoring, weights |-> c.weights,
             compat |-> c.compat, threshold |-> c.threshold, factor |-> c.factor]
    BY <1>2 DEF IsConfig
  <2> HIDE DEF c
  <2> QED
    BY <2>1
<1> QED
  BY <1>6, <1>7

LEMMA StoredPartnersAreIdle ==
  ASSUME WInv, StoredWell, NEW m, IsMutation(m), RepeatsStoredPartners(m)
  PROVE  Simulated(stored.config, Pool(stored.partners, m))
           = Simulated(stored.config, stored.partners)
<1> DEFINE c == stored.config
           rows == stored.partners
           n == Len(payload.partners)
           pool == Pool(rows, m)
           ids == (IdsOf(rows) \ m.remove) \cup IdsOf(m.modify) \cup IdsOf(m.add)
<1>1. /\ m.type = "partner_pool" /\ m.add = <<>> /\ m.remove = {} /\ UniqueRows(rows)
      /\ \A j \in DOMAIN m.modify : \E k \in DOMAIN rows :
            /\ RebuiltPartner(m.modify[j]) = RebuiltPartner(rows[k])
            /\ LossUnread(rows[k])
  BY DEF RepeatsStoredPartners
<1>2. /\ Increasing(rows, n)
      /\ \A k \in 1..n : /\ HasFields(rows[k]) /\ IsRow(rows[k])
                         /\ rows[k].load <= BaseLoads[rows[k].id]
  BY <1>1, StoredIncrease
<1>3. n \in Nat /\ DOMAIN rows = 1..n
  BY <1>2 DEF Increasing
<1>4. m.modify \in Seq({m.modify[k] : k \in DOMAIN m.modify})
  <2>1. IsListOf(m.modify, IsPartnerPayload)
    BY <1>1 DEF IsMutation
  <2> QED
    BY <2>1 DEF IsListOf
<1>5. \A j \in DOMAIN m.modify : m.modify[j].id \in IdsOf(rows)
  <2> TAKE j \in DOMAIN m.modify
  <2>1. PICK k \in DOMAIN rows : RebuiltPartner(m.modify[j]) = RebuiltPartner(rows[k])
    BY <1>1
  <2>2. RebuiltPartner(m.modify[j]).id = m.modify[j].id /\ RebuiltPartner(rows[k]).id = rows[k].id
    BY DEF RebuiltPartner
  <2> QED
    BY <2>1, <2>2 DEF IdsOf
<1>6. ids = IdsOf(rows) /\ IdsOf(m.add) = {}
  BY <1>1, <1>5 DEF IdsOf
<1>7. Ascending(ids) = [k \in 1..n |-> rows[k].id]
  BY <1>2, <1>6, AscendingOfRows
<1> DEFINE row(i) == IF i \in IdsOf(m.add) THEN RebuiltPartner(LastRow(m.add, i))
                     ELSE IF i \in IdsOf(m.modify) THEN RebuiltPartner(LastRow(m.modify, i))
                     ELSE LastRow(rows, i)
<1>8. pool = [k \in 1..n |-> row(rows[k].id)]
  <2>1. pool = [k \in DOMAIN Ascending(ids) |-> row(Ascending(ids)[k])]
    BY DEF Pool
  <2> HIDE DEF row, pool, ids, rows
  <2> QED
    BY <1>7, <2>1
<1>9. ASSUME NEW k \in 1..n
      PROVE  pool[k] = rows[k] \/ (pool[k] = RebuiltPartner(rows[k]) /\ LossUnread(rows[k]))
  <2> DEFINE i == rows[k].id
  <2>1. pool[k] = IF i \in IdsOf(m.modify) THEN RebuiltPartner(LastRow(m.modify, i))
                  ELSE LastRow(rows, i)
    BY <1>6, <1>8
  <2>2. CASE i \notin IdsOf(m.modify)
    BY <1>2, <2>1, <2>2, IncreasingRow
  <2>3. CASE i \in IdsOf(m.modify)
    <3>1. PICK j \in DOMAIN m.modify : LastRow(m.modify, i) = m.modify[j] /\ m.modify[j].id = i
      BY <1>4, <2>3, LastRowIn
    <3>2. PICK l \in DOMAIN rows : /\ RebuiltPartner(m.modify[j]) = RebuiltPartner(rows[l])
                                   /\ LossUnread(rows[l])
      BY <1>1
    <3>3. rows[l].id = i
      BY <3>1, <3>2 DEF RebuiltPartner
    <3>4. l = k
      BY <1>1, <1>3, <3>3 DEF UniqueRows
    <3> QED
      BY <2>1, <2>3, <3>1, <3>2, <3>4
  <2> QED
    BY <2>2, <2>3
<1>10. ASSUME NEW k \in 1..n
       PROVE  /\ pool[k].id = rows[k].id
              /\ pool[k].load = rows[k].load \/ pool[k].load = 0
              /\ \A x : ReadAlike(c, [rows[k] EXCEPT !.load = x], [pool[k] EXCEPT !.load = x])
  <2> DEFINE p == rows[k]
             q == pool[k]
  <2>1. HasFields(p) /\ (q = p \/ (q = RebuiltPartner(p) /\ LossUnread(p)))
    BY <1>2, <1>9
  <2> HIDE DEF p, q
  <2>2. CASE q = p
    BY <2>2 DEF ReadAlike, p, q
  <2>3. CASE q = RebuiltPartner(p) /\ LossUnread(p)
    <3>1. /\ q.id = p.id /\ q.load = 0
          /\ q.pos = p.pos /\ q.rating = p.rating /\ q.types = p.types
          /\ q.available = p.available /\ q.active = p.active
          /\ q.condition = 1 /\ q.avg_time = 30 /\ q.raw = None
          /\ HasFields(q)
      BY <2>3 DEF RebuiltPartner, HasFields
    <3>2. ASSUME NEW x PROVE ReadAlike(c, [p EXCEPT !.load = x], [q EXCEPT !.load = x])
      <4> DEFINE p1 == [p EXCEPT !.load = x]
                 q1 == [q EXCEPT !.load = x]
      <4>1. /\ p1.pos = p.pos /\ p1.rating = p.rating /\ p1.types = p.types /\ p1.load = x
            /\ p1.available = p.available /\ p1.active = p.active
            /\ p1.condition = p.condition /\ p1.avg_time = p.avg_time /\ p1.raw = p.raw
        BY <2>1 DEF HasFields
      <4>2. /\ q1.pos = q.pos /\ q1.rating = q.rating /\ q1.types = q.types /\ q1.load = x
            /\ q1.available = q.available /\ q1.active = q.active
            /\ q1.condition = q.condition /\ q1.avg_time = q.avg_time /\ q1.raw = q.raw
        BY <3>1 DEF HasFields
      <4> HIDE DEF p1, q1
      <4>3. \A e \in EnabledEntries(c.hard) \cup EnabledEntries(c.scoring) :
              /\ e.name = "vehicle_condition" => p1.condition = q1.condition
              /\ e.name = "on_time_rate" => p1.avg_time = q1.avg_time
              /\ e.name = "weather_safety" => p1.raw = q1.raw
        BY <2>3, <3>1, <4>1, <4>2 DEF LossUnread
      <4>4. ReadAlike(c, p1, q1)
        BY <3>1, <4>1, <4>2, <4>3 DEF ReadAlike
      <4> QED
        BY <4>4 DEF p1, q1
    <3> QED
      BY <3>1, <3>2 DEF p, q
  <2> QED
    BY <2>1, <2>2, <2>3
<1>11. DOMAIN pool = 1..n /\ IdsOf(pool) = IdsOf(rows)
  <2>1. DOMAIN pool = 1..n
    BY <1>8
  <2> HIDE DEF pool
  <2> QED
    BY <1>3, <1>10, <2>1 DEF IdsOf
<1>12. Increasing(pool, n)
  <2> HIDE DEF pool, rows
  <2> QED
    BY <1>2, <1>10, <1>11 DEF Increasing
<1>13. BaseLoads \in [IdsOf(rows) -> Nat] /\ ReplayLoads(rows) = BaseLoads
  BY WhenStored, StoredFacts, ReplayedLoads
<1>14. ReplayLoads(pool) = BaseLoads
  <2> HIDE DEF pool
  <2> QED
    BY <1>11, <1>13 DEF ReplayLoads
<1>15. ASSUME NEW k \in 1..n
       PROVE  /\ Above(Above(0, rows[k].load), BaseLoads[rows[k].id]) = BaseLoads[rows[k].id]
              /\ Above(Above(0, pool[k].load), BaseLoads[rows[k].id]) = BaseLoads[rows[k].id]
  <2>1. rows[k].id \in IdsOf(rows)
    BY <1>2, IncreasingRow
  <2>2. BaseLoads[rows[k].id] \in Nat
    BY <1>13, <2>1
  <2>3. rows[k].load \in Int /\ rows[k].load <= BaseLoads[rows[k].id]
    BY <1>2 DEF IsRow
  <2>4. pool[k].load = rows[k].load \/ pool[k].load = 0
    BY <1>10
  <2> HIDE DEF pool, rows
  <2> QED
    BY <2>2, <2>3, <2>4 DEF Above
<1>16. ASSUME NEW i \in IdsOf(rows)
       PROVE  /\ Above(Above(0, LastRow(rows, i).load), Get(BaseLoads, i, 0)) = BaseLoads[i]
              /\ Above(Above(0, LastRow(pool, i).load), Get(BaseLoads, i, 0)) = BaseLoads[i]
  <2>1. PICK k \in 1..n : rows[k].id = i
    BY <1>3 DEF IdsOf
  <2>2. LastRow(rows, i) = rows[k] /\ LastRow(pool, i) = pool[k]
    <3> HIDE DEF pool, rows
    <3> QED
      BY <1>2, <1>10, <1>12, <2>1, IncreasingRow
  <2>3. Get(BaseLoads, i, 0) = BaseLoads[i]
    BY <1>13 DEF Get
  <2> QED
    BY <1>15, <2>1, <2>2, <2>3
<1>17. StartLoads(rows, BaseLoads) = StartLoads(pool, BaseLoads)
  <2> HIDE DEF pool, rows
  <2> QED
    BY <1>11, <1>16 DEF StartLoads
<1>18. \A k \in DOMAIN rows :
          /\ rows[k].id = pool[k].id
          /\ \A loads : ReadAlike(c, Effective(rows, k, loads), Effective(pool, k, loads))
  <2> HIDE DEF pool, rows
  <2> QED
    BY <1>3, <1>10 DEF Effective
<1>19. Len(stored.orders) \in Nat /\ Builds(c)
  BY WhenStored, StoredFacts, RunShape DEF IsOrders
<1> HIDE DEF c, pool, rows, n
<1>20. Simulated(c, pool) = Evaluate(c, ResolvedWeights(c), stored.orders, pool, BaseLoads)
       /\ Simulated(c, rows) = Evaluate(c, ResolvedWeights(c), stored.orders, rows, BaseLoads)
  BY <1>13, <1>14 DEF Simulated
<1> DEFINE w == ResolvedWeights(c)
           orders == stored.orders
<1> HIDE DEF w, orders
<1>21. Evaluate(c, w, orders, rows, BaseLoads) = Evaluate(c, w, orders, pool, BaseLoads)
  <2>1. Len(orders) \in Nat
    BY <1>19 DEF orders
  <2> QED
    BY <1>3, <1>11, <1>17, <1>18, <1>19, <2>1, SameRows
<1> QED
  BY <1>20, <1>21 DEF c, pool, rows, w, orders

(* A scoring rule switched on: everything else is as it was.                *)
Switched(c, d, b) ==
  /\ d.hard = c.hard /\ d.compat = c.compat /\ d.weights = c.weights
  /\ b \in DOMAIN c.scoring /\ b \notin ScoringAt(c)
  /\ ScoringAt(d) = ScoringAt(c) \cup {b}
  /\ \A k \in ScoringAt(c) : d.scoring[k] = c.scoring[k]
  /\ EnabledEntries(c.scoring) \subseteq EnabledEntries(d.scoring)
  /\ d.scoring[b].name = c.scoring[b].name

LEMMA ScoreSwitchedOn ==
  ASSUME NEW c, IsConfig(c), ListedOnce(c.scoring), NEW name, RuleKnown(c, name),
         Named(c.hard, name) = {},
         NEW d, d = Edited(c, name, [Found(c, name) EXCEPT !.enabled = TRUE]), ~Blocking(d)
  PROVE  d = c \/ \E b \in DOMAIN c.scoring : Switched(c, d, b)
<1> DEFINE b == First(Named(c.scoring, name))
           xs == c.scoring
           e == xs[b]
           on == [e EXCEPT !.enabled = TRUE]
           ys == [xs EXCEPT ![b] = on]
           Row(s) == [hard |-> c.hard, scoring |-> s, weights |-> c.weights,
                      compat |-> c.compat, threshold |-> c.threshold, factor |-> c.factor]
<1>1. c = Row(xs) /\ IsList(xs)
  BY DEF IsConfig
<1>2. b \in DOMAIN xs /\ e.name = name
  <2>1. b \in Named(xs, name)
    BY FoundFacts DEF RuleKnown
  <2> QED
    BY <2>1 DEF Named
<1>3. IsEntry(e) /\ IsEntry(on) /\ on.name = name /\ on.enabled = TRUE
  <2>1. IsEntry(e)
    BY <1>1, <1>2 DEF IsList
  <2> DEFINE flag == TRUE
  <2>2. flag \in BOOLEAN
    OBVIOUS
  <2>3. on = [e EXCEPT !.enabled = flag]
    OBVIOUS
  <2> HIDE DEF e, on, flag
  <2>4. IsEntry(on) /\ on.name = e.name
    BY <2>1, <2>2, <2>3, Toggled
  <2>5. on.enabled = TRUE
    BY <2>1, <2>3 DEF flag, IsEntry
  <2> QED
    BY <1>2, <2>1, <2>4, <2>5
<1>4. d = Row(ys)
  <2>1. Found(c, name) = e
    BY DEF Found
  <2>2. d = [c EXCEPT !.scoring[b] = on]
    BY <2>1 DEF Edited
  <2>3. d = [c EXCEPT !.scoring = ys]
    BY <2>2
  <2> HIDE DEF ys, xs
  <2> QED
    BY <1>1, <2>3
<1>5. xs = [j \in DOMAIN xs |-> xs[j]]
  <2>1. xs \in Seq({xs[j] : j \in DOMAIN xs})
    BY <1>1 DEF IsList
  <2> HIDE DEF xs
  <2> QED
    BY <2>1
<1>6. DOMAIN ys = DOMAIN xs /\ ys[b] = on /\ \A k \in DOMAIN xs : k # b => ys[k] = xs[k]
  BY <1>2, <1>5
<1>7. CASE e.enabled
  <2>1. on = e
    <3> HIDE DEF e
    <3> QED
      BY <1>3, <1>7 DEF IsEntry
  <2>2. ys = xs
    <3> HIDE DEF on
    <3> QED
      BY <1>2, <1>5, <2>1
  <2> QED
    BY <1>1, <1>4, <2>2
<1>8. CASE ~e.enabled
  <2> HIDE DEF e, on, ys
  <2>1. d.hard = c.hard /\ d.compat = c.compat /\ d.weights = c.weights /\ d.scoring = ys
    BY <1>4
  <2>2. on \in EnabledEntries(ys)
    BY <1>2, <1>3, <1>6 DEF EnabledEntries
  <2>3. name # None
    BY <1>3, <2>1, <2>2 DEF Blocking, Misconfigured
  <2>4. b \notin ScoringAt(c)
    BY <1>8 DEF ScoringAt, e
  <2>5. ScoringAt(d) = ScoringAt(c) \cup {b}
    <3>1. \A k \in DOMAIN xs : k \in ScoringAt(d) <=> k \in ScoringAt(c) \/ k = b
      <4> TAKE k \in DOMAIN xs
      <4>1. CASE k = b
        BY <1>2, <1>3, <1>6, <2>1, <2>3, <4>1 DEF ScoringAt
      <4>2. CASE k # b
        BY <1>6, <2>1, <4>2 DEF ScoringAt
      <4> QED
        BY <4>1, <4>2
    <3>2. ScoringAt(d) \subseteq DOMAIN xs /\ ScoringAt(c) \subseteq DOMAIN xs
      BY <1>6, <2>1 DEF ScoringAt
    <3> QED
      BY <1>2, <3>1, <3>2
  <2>6. \A k \in ScoringAt(c) : d.scoring[k] = c.scoring[k]
    BY <1>6, <2>1, <2>4 DEF ScoringAt
  <2>7. EnabledEntries(xs) \subseteq EnabledEntries(ys)
    <3> SUFFICES ASSUME NEW k \in DOMAIN xs, xs[k].enabled
                 PROVE  xs[k] \in EnabledEntries(ys)
      BY DEF EnabledEntries
    <3>1. k # b
      BY <1>8 DEF e
    <3> QED
      BY <1>6, <3>1 DEF EnabledEntries
  <2>8. d.scoring[b].name = c.scoring[b].name
    BY <1>2, <1>3, <1>6, <2>1 DEF e
  <2> QED
    BY <1>2, <2>1, <2>4, <2>5, <2>6, <2>7, <2>8 DEF Switched
<1> QED
  BY <1>7, <1>8

(* Switched on without a weight of its own it gets none, and the others      *)
(* keep theirs.                                                              *)
LEMMA SwitchedWeights ==
  ASSUME NEW c, NEW d, NEW b, Switched(c, d, b), IsConfig(d), IsConfig(c), ListedOnce(c.scoring),
         DOMAIN c.weights = ScoringNames(c), ~OffOne(Total(c.weights))
  PROVE  /\ ResolvedWeights(d) = FilteredWeights(d)
         /\ Get(ResolvedWeights(d), d.scoring[b].name, 0) = 0
         /\ \A k \in ScoringAt(c) :
              Get(ResolvedWeights(d), d.scoring[k].name, 0) = Get(c.weights, c.scoring[k].name, 0)
<1> DEFINE name == d.scoring[b].name
           N == ScoringNames(c)
           M == ScoringNames(d)
           w == c.weights
           f == FilteredWeights(d)
<1>1. name \notin N
  <2>1. \A k \in ScoringAt(c) : k # b /\ k \in DOMAIN c.scoring
    BY DEF Switched, ScoringAt
  <2>2. \A k \in ScoringAt(c) : c.scoring[k].name # name
    BY <2>1 DEF Switched, ListedOnce
  <2> QED
    BY <2>2 DEF ScoringNames
<1>2. M = N \cup {name}
  BY DEF Switched, ScoringNames
<1>3. d.weights = w /\ DOMAIN w = N /\ w = [n \in N |-> w[n]] /\ \A n \in N : w[n] \in Int
  BY DEF Switched, IsConfig, IsWeights
<1>4. DOMAIN f = M /\ f[name] = 0 /\ \A n \in N : f[n] = w[n]
  BY <1>1, <1>2, <1>3 DEF FilteredWeights, Get
<1>5. IsFiniteSet(M) /\ IsFiniteSet(N)
  BY ConfigParts
<1>6. Total(f) = Total(w)
  <2> HIDE DEF f, w, M, N, name
  <2>1. \A n \in M : f[n] \in Int
    BY <1>2, <1>3, <1>4
  <2>2. Total(f) = Sum(f, M) /\ Total(w) = Sum(w, N)
    BY <1>3, <1>4, TotalIsSum
  <2>3. Sum(f, M) = f[name] + Sum(f, M \ {name})
    BY <1>2, <1>5, <2>1, SumRemove
  <2>4. M \ {name} = N
    BY <1>1, <1>2
  <2>5. Sum(f, N) = Sum(w, N)
    BY <1>4, <1>5, SumSame
  <2>6. Sum(w, N) \in Int
    BY <1>3, <1>5, SumInt
  <2>7. Sum(f, M) = 0 + Sum(w, N)
    BY <1>4, <2>3, <2>4, <2>5, Zenon
  <2>8. 0 + Sum(w, N) = Sum(w, N)
    BY <2>6
  <2> QED
    BY <2>2, <2>7, <2>8
<1>7. ResolvedWeights(d) = f
  BY <1>3, <1>6 DEF ResolvedWeights
<1>8. Get(f, name, 0) = 0
  BY <1>2, <1>4 DEF Get
<1>9. ASSUME NEW k \in ScoringAt(c)
      PROVE  Get(f, d.scoring[k].name, 0) = Get(w, c.scoring[k].name, 0)
  <2>1. d.scoring[k].name = c.scoring[k].name /\ c.scoring[k].name \in N
    BY DEF Switched, ScoringNames
  <2> HIDE DEF f, w, M, N
  <2> QED
    BY <1>2, <1>3, <1>4, <2>1 DEF Get
<1> QED
  BY <1>7, <1>8, <1>9

(* With no weight it adds nothing to a score.                               *)
LEMMA SwitchedScore ==
  ASSUME NEW c, NEW d, NEW b, Switched(c, d, b), IsConfig(d),
         \A k \in DOMAIN d.scoring : d.scoring[k].name \in ScoringRules,
         \A e \in EnabledEntries(d.scoring) : ~Raises(e),
         NEW v, NEW w, \A n \in DOMAIN w : w[n] \in Int,
         Get(w, d.scoring[b].name, 0) = 0,
         \A k \in ScoringAt(c) : Get(w, d.scoring[k].name, 0) = Get(v, c.scoring[k].name, 0),
         NEW order, order.pos \in Int,
         NEW p, {p.pos, p.rating, p.load, p.avg_time} \subseteq Int,
         NEW loads, IsFiniteSet(DOMAIN loads), \A i \in DOMAIN loads : loads[i] \in Int
  PROVE  WeightedScore(d, w, order, p, loads) = WeightedScore(c, v, order, p, loads)
<1> DEFINE S == ScoringAt(c)
           T == ScoringAt(d)
           score(e) == Score(e, order, p, loads)
           f == [k \in S |-> Get(v, c.scoring[k].name, 0) * score(c.scoring[k])]
           g == [k \in T |-> Get(w, d.scoring[k].name, 0) * score(d.scoring[k])]
<1>1. T = S \cup {b} /\ b \notin S /\ IsFiniteSet(T) /\ IsFiniteSet(S)
  <2>1. T = S \cup {b} /\ b \notin S
    BY DEF Switched
  <2>2. IsFiniteSet(T)
    BY ConfigParts
  <2> QED
    BY <2>1, <2>2, FS_Subset
<1>2. ASSUME NEW k \in T PROVE score(d.scoring[k]) \in Int /\ Get(w, d.scoring[k].name, 0) \in Int
  <2>1. /\ IsEntry(d.scoring[k]) /\ d.scoring[k].name \in ScoringRules
        /\ d.scoring[k] \in EnabledEntries(d.scoring)
    BY DEF IsConfig, IsList, ScoringAt, EnabledEntries
  <2>2. score(d.scoring[k]) \in 0..One
    BY <2>1, ScoreIsUnit
  <2> QED
    BY <2>2 DEF Get
<1>3. \A k \in T : g[k] = Get(w, d.scoring[k].name, 0) * score(d.scoring[k])
  <2> HIDE DEF score
  <2> QED
    OBVIOUS
<1>4. \A k \in S : f[k] = Get(v, c.scoring[k].name, 0) * score(c.scoring[k])
  <2> HIDE DEF score
  <2> QED
    OBVIOUS
<1> HIDE DEF f, g, score
<1>5. \A k \in T : g[k] \in Int
  BY <1>2, <1>3
<1>6. g[b] = 0
  BY <1>1, <1>2, <1>3
<1>7. \A k \in S : g[k] = f[k]
  <2> TAKE k \in S
  <2>1. d.scoring[k] = c.scoring[k]
    BY DEF Switched
  <2>2. Get(w, d.scoring[k].name, 0) = Get(v, c.scoring[k].name, 0)
    OBVIOUS
  <2> QED
    BY <1>1, <1>3, <1>4, <2>1, <2>2
<1>8. Sum(g, T) = g[b] + Sum(g, T \ {b})
  BY <1>1, <1>5, SumRemove
<1>9. T \ {b} = S
  BY <1>1
<1>10. Sum(g, S) = Sum(f, S) /\ Sum(g, S) \in Int
  BY <1>1, <1>5, <1>7, SumSame, SumInt
<1>11. Sum(g, T) = Sum(f, S)
  <2>1. Sum(g, T) = 0 + Sum(f, S)
    BY <1>6, <1>8, <1>9, <1>10, Zenon
  <2>2. Sum(f, S) \in Int
    BY <1>10
  <2> QED
    BY <2>1, <2>2
<1>12. Total(f) = Sum(f, S) /\ Total(g) = Sum(g, T)
  BY TotalIsSum DEF f, g
<1> QED
  BY <1>11, <1>12 DEF WeightedScore, f, g, score

LEMMA StepLoads ==
  ASSUME NEW c, NEW w, NEW orders, NEW rows, IsRows(rows), NEW o,
         NEW s, s.loads \in [IdsOf(rows) -> Int]
  PROVE  EvalStep(c, w, orders, rows, s, o).loads \in [IdsOf(rows) -> Int]
<1> DEFINE order == orders[o]
           passing == EligibleRows(c, order, rows, s.loads)
           best == IF ScoreRaises(c, s, passing) THEN None
                   ELSE BestRow(c, w, order, rows, s.loads, passing)
           who == IF best = None THEN None ELSE rows[best].id
           t == EvalStep(c, w, orders, rows, s, o)
           Ids == IdsOf(rows)
<1>1. t.loads = IF who = None THEN s.loads ELSE [s.loads EXCEPT ![who] = @ + 1]
  BY DEF EvalStep, Ranked, Allocated
<1>2. passing \in SUBSET DOMAIN rows
  BY DEF EligibleRows
<1>3. best \in passing \cup {None}
  BY <1>2, BestRowFacts
<1>4. who \in Ids \cup {None}
  BY <1>2, <1>3, RowsFacts
<1> HIDE DEF who, t, Ids
<1>5. t.loads \in [Ids -> Int]
  BY <1>1, <1>4 DEF Ids
<1> QED
  BY <1>5 DEF t, Ids

LEMMA StepFails ==
  ASSUME NEW c, NEW w, NEW orders, NEW rows, NEW sofar, NEW o
  PROVE  EvalStep(c, w, orders, rows, sofar, o).failed
           = ScoreRaises(c, sofar, EligibleRows(c, orders[o], rows, sofar.loads))
BY DEF EvalStep, Ranked, Allocated

(* Two evaluations agree, if the second raises nothing, if until then they   *)
(* take the same steps.                                                      *)
SameUnlessFailed(c, d, v, w, orders, rows) ==
  \A o \in 1..Len(orders) : \A sofar :
    /\ sofar.loads \in [IdsOf(rows) -> Int]
    /\ ~EvalStep(d, w, orders, rows, sofar, o).failed
    => EvalStep(c, v, orders, rows, sofar, o) = EvalStep(d, w, orders, rows, sofar, o)

LEMMA SameStepsUnlessFailed ==
  ASSUME NEW c, NEW d, NEW v, NEW w, NEW orders, IsOrders(orders), NEW rows, IsRows(rows),
         NEW observed, \A i \in DOMAIN observed : observed[i] \in Int,
         SameUnlessFailed(c, d, v, w, orders, rows),
         ~Evaluate(d, w, orders, rows, observed).failed
  PROVE  Evaluate(c, v, orders, rows, observed) = Evaluate(d, w, orders, rows, observed)
<1> DEFINE m == Len(orders)
<1>0. m \in Nat /\ \A o \in 1..m : orders[o].pos \in Int
  BY DEF IsOrders
<1>1. PICK f : IsRun(f, m, c, v, orders, rows, observed)
               /\ Evaluate(c, v, orders, rows, observed) = f[m]
  BY <1>0, EvaluateRuns
<1>2. PICK g : IsRun(g, m, d, w, orders, rows, observed)
               /\ Evaluate(d, w, orders, rows, observed) = g[m]
  BY <1>0, EvaluateRuns
<1> DEFINE Typed(s) == s.loads \in [IdsOf(rows) -> Int]
           Ok(n) == Typed(g[n]) /\ (~g[n].failed => f[n] = g[n])
           Good == {n \in Nat : n <= m => Ok(n)}
<1>3. 0 \in Good
  <2>1. f[0] = EvalStart(rows, observed) /\ g[0] = EvalStart(rows, observed)
    BY <1>1, <1>2 DEF IsRun
  <2>2. Typed(EvalStart(rows, observed))
    BY StartLoadsFacts DEF EvalStart
  <2> QED
    BY <2>1, <2>2
<1>4. \A n \in Nat : n \in Good => n + 1 \in Good
  <2> HIDE DEF Ok
  <2> SUFFICES ASSUME NEW n \in Nat, n \in Good, n + 1 <= m
               PROVE  Ok(n + 1)
    OBVIOUS
  <2>1. n + 1 \in 1..m /\ n <= m /\ (n + 1) - 1 = n
    BY <1>0
  <2>0. Ok(n)
    BY <2>1
  <2> USE DEF Ok
  <2>2. Typed(g[n]) /\ (~g[n].failed => f[n] = g[n])
    BY <2>0
  <2>3. f[n + 1] = EvalStep(c, v, orders, rows, f[(n + 1) - 1], n + 1)
    BY <1>1, <2>1 DEF IsRun
  <2>4. g[n + 1] = EvalStep(d, w, orders, rows, g[(n + 1) - 1], n + 1)
    BY <1>2, <2>1 DEF IsRun
  <2> DEFINE s == g[n]
             t == EvalStep(d, w, orders, rows, s, n + 1)
  <2>5. Typed(t)
    <3>1. s.loads \in [IdsOf(rows) -> Int]
      BY <2>2
    <3> HIDE DEF s
    <3> QED
      BY <3>1, StepLoads
  <2>6. g[n + 1] = t
    BY <2>1, <2>4
  <2>7. ASSUME ~t.failed PROVE f[n + 1] = t
    <3>1. ~s.failed
      BY <2>7, StepFails DEF ScoreRaises
    <3>2. f[n + 1] = EvalStep(c, v, orders, rows, s, n + 1)
      BY <2>1, <2>2, <2>3, <3>1
    <3> HIDE DEF t, s
    <3>3. EvalStep(c, v, orders, rows, s, n + 1) = t
      BY <2>1, <2>2, <2>7 DEF SameUnlessFailed, t, s
    <3> QED
      BY <3>2, <3>3
  <2> QED
    BY <2>5, <2>6, <2>7
<1>5. m \in Good
  <2> HIDE DEF Good
  <2> QED
    BY <1>0, <1>3, <1>4, NatInduction1
<1> QED
  BY <1>0, <1>1, <1>2, <1>5

LEMMA SwitchedSteps ==
  ASSUME NEW c, NEW d, NEW b, Switched(c, d, b), IsConfig(d),
         \A k \in DOMAIN d.scoring : d.scoring[k].name \in ScoringRules,
         NEW v, NEW w, \A n \in DOMAIN w : w[n] \in Int,
         Get(w, d.scoring[b].name, 0) = 0,
         \A k \in ScoringAt(c) : Get(w, d.scoring[k].name, 0) = Get(v, c.scoring[k].name, 0),
         NEW orders, IsOrders(orders), NEW rows, IsRows(rows)
  PROVE  SameUnlessFailed(c, d, v, w, orders, rows)
<1> SUFFICES ASSUME NEW o \in 1..Len(orders), NEW s, s.loads \in [IdsOf(rows) -> Int],
                    ~EvalStep(d, w, orders, rows, s, o).failed
             PROVE  EvalStep(c, v, orders, rows, s, o) = EvalStep(d, w, orders, rows, s, o)
  BY DEF SameUnlessFailed
<1> DEFINE order == orders[o]
           passing == EligibleRows(d, order, rows, s.loads)
<1>1. order.pos \in Int
  BY DEF IsOrders
<1>2. passing = EligibleRows(c, order, rows, s.loads) /\ passing \subseteq DOMAIN rows
  BY DEF EligibleRows, Switched
<1>3. ~s.failed /\ (passing # {} => \A e \in EnabledEntries(d.scoring) : ~Raises(e))
  BY StepFails DEF ScoreRaises
<1>4. ScoreRaises(d, s, passing) = FALSE /\ ScoreRaises(c, s, passing) = FALSE
  BY <1>3 DEF ScoreRaises, Switched
<1> HIDE DEF passing
<1>5. ASSUME NEW k \in passing
      PROVE  WeightedScore(d, w, order, Effective(rows, k, s.loads), s.loads)
               = WeightedScore(c, v, order, Effective(rows, k, s.loads), s.loads)
  <2> DEFINE p == Effective(rows, k, s.loads)
  <2>1. {p.pos, p.rating, p.load, p.avg_time} \subseteq Int
    BY <1>2, EffectiveRow
  <2>2. IsFiniteSet(DOMAIN s.loads) /\ \A i \in DOMAIN s.loads : s.loads[i] \in Int
    BY RowsFacts
  <2>3. \A e \in EnabledEntries(d.scoring) : ~Raises(e)
    BY <1>3
  <2> HIDE DEF p, order
  <2>4. order.pos \in Int
    BY <1>1 DEF order
  <2> QED
    BY <2>1, <2>2, <2>3, <2>4, SwitchedScore DEF p
<1>6. BestRow(d, w, order, rows, s.loads, passing) = BestRow(c, v, order, rows, s.loads, passing)
  BY <1>5 DEF BestRow
<1>7. Ranked(d, w, order, rows, s, passing) = Ranked(c, v, order, rows, s, passing)
  BY <1>4, <1>6 DEF Ranked
<1>8. EvalStep(d, w, orders, rows, s, o) = Ranked(d, w, order, rows, s, passing)
  BY DEF EvalStep, passing
<1>9. EvalStep(c, v, orders, rows, s, o) = Ranked(c, v, order, rows, s, passing)
  BY <1>2 DEF EvalStep
<1> QED
  BY <1>7, <1>8, <1>9

LEMMA SwitchedScoreIsIdle ==
  ASSUME WInv, StoredWell, NEW m, IsMutation(m), EnablesAScore(m),
         RuleKnown(stored.config, m.rule),
         NEW d, d = Edited(stored.config, m.rule, [Found(stored.config, m.rule) EXCEPT !.enabled = m.value]),
         IsConfig(d), Builds(d), ~Blocking(d), ~Simulated(d, stored.partners).failed
  PROVE  Simulated(stored.config, stored.partners) = Simulated(d, stored.partners)
<1> DEFINE c == stored.config
           rows == stored.partners
           orders == stored.orders
           v == c.weights
           w == ResolvedWeights(d)
           loads == ReplayLoads(rows)
<1>1. /\ m.value = TRUE /\ ListedOnce(c.scoring) /\ Named(c.hard, m.rule) = {}
      /\ ScoringNames(c) # {}
  BY DEF EnablesAScore, IsMutation
<1>2. d = c \/ \E b \in DOMAIN c.scoring : Switched(c, d, b)
  <2> DEFINE name == m.rule
  <2>1. d = Edited(c, name, [Found(c, name) EXCEPT !.enabled = TRUE])
    BY <1>1
  <2>2. IsConfig(c)
    BY WhenStored, StoredFacts
  <2> HIDE DEF name
  <2>3. RuleKnown(c, name) /\ Named(c.hard, name) = {}
    BY <1>1 DEF name
  <2> QED
    BY <1>1, <2>1, <2>2, <2>3, ScoreSwitchedOn
<1>3. CASE d = c
  BY <1>3
<1>4. ASSUME NEW b \in DOMAIN c.scoring, Switched(c, d, b)
      PROVE  Simulated(c, rows) = Simulated(d, rows)
  <2>1. /\ IsConfig(c) /\ IsOrders(orders) /\ IsRows(rows) /\ loads = BaseLoads
        /\ BaseLoads \in [IdsOf(Partners) -> Nat]
    BY WhenStored, StoredFacts, ReplayedLoads
  <2>2. v = ResolvedWeights(yaml) /\ DOMAIN v = ScoringNames(c) /\ ~OffOne(Total(v))
    <3>1. /\ IsConfig(yaml) /\ ScoringNames(yaml) \subseteq ScoringRules
          /\ c = Loaded(yaml) /\ ScoringNames(c) = ScoringNames(yaml)
          /\ ListedOnce(yaml.scoring)
      BY <1>1, LoadedNames
    <3>2. v = ResolvedWeights(yaml)
      BY <1>1, <3>1, LoadedConfig
    <3>3. \A j, k \in ScoringAt(yaml) : j # k => yaml.scoring[j].name # yaml.scoring[k].name
      BY <3>1, NamesDiffer
    <3> QED
      BY <1>1, <3>1, <3>2, <3>3, ResolvedSumIsOne
  <2>3. /\ Get(w, d.scoring[b].name, 0) = 0
        /\ \A k \in ScoringAt(c) : Get(w, d.scoring[k].name, 0) = Get(v, c.scoring[k].name, 0)
    BY <1>1, <1>4, <2>1, <2>2, SwitchedWeights
  <2>4. \A n \in DOMAIN w : w[n] \in Int
    BY ResolvedType
  <2>5. \A k \in DOMAIN d.scoring : d.scoring[k].name \in ScoringRules
    BY DEF Builds
  <2>6. \A i \in DOMAIN loads : loads[i] \in Int
    BY <2>1
  <2>7. ~Evaluate(d, w, orders, rows, loads).failed
    BY DEF Simulated
  <2>8. WeightsAgree(c, ResolvedWeights(c), v)
    BY <1>1, StoredWeightsAgree
  <2>9. Len(orders) \in Nat
    BY <2>1 DEF IsOrders
  <2> HIDE DEF c, rows, orders, v, w, loads
  <2>10. SameUnlessFailed(c, d, v, w, orders, rows)
    BY <1>4, <2>1, <2>3, <2>4, <2>5, SwitchedSteps
  <2>11. Evaluate(c, v, orders, rows, loads) = Evaluate(d, w, orders, rows, loads)
    BY <2>1, <2>6, <2>7, <2>10, SameStepsUnlessFailed
  <2>12. Evaluate(c, ResolvedWeights(c), orders, rows, loads) = Evaluate(c, v, orders, rows, loads)
    BY <2>8, <2>9, SameWeights
  <2> QED
    BY <2>11, <2>12 DEF Simulated, orders, loads, w
<1> QED
  BY <1>2, <1>3, <1>4

(* InertMutationsAreInert: for any configuration, request and snapshot, a    *)
(* scoring rule switched on, a weight sent back as it was shown and partners *)
(* sent back as they are stored, whatever no rule that is on reads, leave    *)
(* every allocation where it is.                                             *)
THEOREM InertMutationsAreIdle == Spec => []InertMutationsAreInert
<1>1. WInv => InertMutationsAreInert
  <2> SUFFICES ASSUME WInv, Answered, Len(spec) = 1,
                      \/ EnablesAScore(spec[1])
                      \/ RepeatsShownWeight(spec[1])
                      \/ RepeatsStoredPartners(spec[1])
               PROVE  reply.allocations = AsStored
    BY DEF InertMutationsAreInert
  <2> DEFINE m == spec[1]
             c == stored.config
             rows == stored.partners
  <2>1. StoredWell /\ MutatedWell /\ AnsweredWell
    BY WhenStored
  <2>2. AfterOne(m)
    BY <2>1 DEF MutatedWell, AnsweredWell
  <2>3. IsMutation(m)
    <3>1. spec \in Specs \cup {<<>>}
      BY DEF WInv
    <3>2. 1 \in DOMAIN spec
      BY <3>1, SpecLength
    <3> QED
      BY <3>1, <3>2, SpecLength
  <2>4. /\ reply.allocations = Simulated(config, snapshot).chosen
        /\ IsConfig(config) /\ Builds(config) /\ ~Blocking(config)
        /\ ~Simulated(config, snapshot).failed
    BY <2>1 DEF AnsweredWell, MutatedWell, Evaluable
  <2> HIDE DEF m
  <2>5. CASE EnablesAScore(m)
    <3>1. m.type = "rule_toggle"
      BY <2>5 DEF EnablesAScore
    <3>2. snapshot = rows /\ RuleKnown(c, m.rule)
          /\ config = Edited(c, m.rule, [Found(c, m.rule) EXCEPT !.enabled = m.value])
      BY <2>2, <3>1 DEF AfterOne
    <3>3. Simulated(c, rows) = Simulated(config, rows)
      BY <2>1, <2>3, <2>4, <2>5, <3>2, SwitchedScoreIsIdle
    <3> QED
      BY <2>4, <3>2, <3>3 DEF AsStored
  <2>6. CASE RepeatsShownWeight(m)
    <3>1. m.type = "rule_weight"
      BY <2>6 DEF RepeatsShownWeight
    <3>2. snapshot = rows /\ config = [c EXCEPT !.weights = Put(@, m.rule, m.value)]
      BY <2>2, <3>1 DEF AfterOne
    <3>3. config = c
      BY <2>1, <2>6, <3>2, ShownWeightIsIdle
    <3> QED
      BY <2>4, <3>2, <3>3 DEF AsStored
  <2>7. CASE RepeatsStoredPartners(m)
    <3>1. m.type = "partner_pool"
      BY <2>7 DEF RepeatsStoredPartners
    <3>2. config = c /\ snapshot = Pool(rows, m)
      BY <2>2, <3>1 DEF AfterOne
    <3>3. Simulated(c, Pool(rows, m)) = Simulated(c, rows)
      BY <2>1, <2>3, <2>7, StoredPartnersAreIdle
    <3> QED
      BY <2>4, <3>2, <3>3 DEF AsStored
  <2> QED
    BY <2>5, <2>6, <2>7 DEF m
<1> QED
  BY <1>1, DecisionInvariant, PTL

-----------------------------------------------------------------------------
(* Rows that take no part: no order was given to them.  Scores depend on the *)
(* others only through the highest load, and that only if fairness is scored. *)

Without(few, many) ==
  /\ IsFiniteSet(DOMAIN many) /\ DOMAIN few \subseteq DOMAIN many
  /\ \A i \in DOMAIN many : many[i] \in Nat
  /\ \A i \in DOMAIN few : few[i] = many[i]

(* Nobody who is missing has more than everybody who is left.               *)
SameScale(few, many) ==
  \A i \in DOMAIN many \ DOMAIN few :
     many[i] = 0 \/ \E j \in DOMAIN few : many[j] >= many[i]
FairnessScored(c) == "fairness_score" \in ScoringNames(c)

LEMMA SameHighest ==
  ASSUME NEW few, NEW many, Without(few, many), SameScale(few, many), NEW load \in Int
  PROVE  Highest(few, load) = Highest(many, load)
<1> DEFINE a == Highest(few, load)
           b == Highest(many, load)
<1>1. /\ a \in Nat /\ load <= a /\ \A i \in DOMAIN few : few[i] <= a
      /\ (\E i \in DOMAIN few : a = Above(0, few[i])) \/ a = Above(0, load)
  <2>1. IsFiniteSet(DOMAIN few) /\ \A i \in DOMAIN few : few[i] \in Int
    BY FS_Subset DEF Without
  <2> QED
    BY <2>1, HighestFacts
<1>2. /\ b \in Nat /\ load <= b /\ \A i \in DOMAIN many : many[i] <= b
      /\ (\E i \in DOMAIN many : b = Above(0, many[i])) \/ b = Above(0, load)
  <2>1. IsFiniteSet(DOMAIN many) /\ \A i \in DOMAIN many : many[i] \in Int
    BY DEF Without
  <2> QED
    BY <2>1, HighestFacts
<1> HIDE DEF a, b
<1>3. a <= b
  <2>1. CASE a = Above(0, load)
    BY <1>1, <1>2, <2>1 DEF Above
  <2>2. ASSUME NEW i \in DOMAIN few, a = Above(0, few[i])
        PROVE  a <= b
    <3>1. few[i] \in Nat /\ few[i] <= b
      BY <1>2 DEF Without
    <3> QED
      BY <1>1, <1>2, <2>2, <3>1 DEF Above
  <2> QED
    BY <1>1, <2>1, <2>2
<1>4. b <= a
  <2>1. CASE b = Above(0, load)
    BY <1>1, <1>2, <2>1 DEF Above
  <2>2. ASSUME NEW i \in DOMAIN many, b = Above(0, many[i])
        PROVE  b <= a
    <3>1. many[i] \in Nat /\ many[i] <= a
      <4>1. CASE i \in DOMAIN few
        BY <1>1, <4>1 DEF Without
      <4>2. CASE i \notin DOMAIN few
        <5>1. many[i] \in Nat /\ (many[i] = 0 \/ \E j \in DOMAIN few : many[j] >= many[i])
          BY <4>2 DEF Without, SameScale
        <5>2. ASSUME NEW j \in DOMAIN few, many[j] >= many[i] PROVE many[i] <= a
          <6>1. many[j] \in Nat /\ many[j] <= a
            BY <1>1 DEF Without
          <6> QED
            BY <1>1, <5>1, <5>2, <6>1
        <5> QED
          BY <1>1, <5>1, <5>2
      <4> QED
        BY <4>1, <4>2
    <3> QED
      BY <1>1, <1>2, <2>2, <3>1 DEF Above
  <2> QED
    BY <1>2, <2>1, <2>2
<1> QED
  BY <1>1, <1>2, <1>3, <1>4 DEF a, b

LEMMA SameScores ==
  ASSUME NEW c, NEW few, NEW many, Without(few, many), FairnessScored(c) => SameScale(few, many),
         NEW w, NEW order, NEW p, p.load \in Int
  PROVE  WeightedScore(c, w, order, p, few) = WeightedScore(c, w, order, p, many)
<1>1. FairnessScored(c) => Fairness(p, few) = Fairness(p, many)
  BY SameHighest DEF Fairness
<1>2. ASSUME NEW k \in ScoringAt(c)
      PROVE  Score(c.scoring[k], order, p, few) = Score(c.scoring[k], order, p, many)
  <2>1. c.scoring[k].name = "fairness_score" => Fairness(p, few) = Fairness(p, many)
    BY <1>1 DEF FairnessScored, ScoringNames
  <2> QED
    BY <2>1 DEF Score
<1> DEFINE f == [k \in ScoringAt(c) |-> Get(w, c.scoring[k].name, 0) * Score(c.scoring[k], order, p, few)]
           g == [k \in ScoringAt(c) |-> Get(w, c.scoring[k].name, 0) * Score(c.scoring[k], order, p, many)]
<1>3. f = g
  BY <1>2
<1>4. WeightedScore(c, w, order, p, few) = Total(f) /\ WeightedScore(c, w, order, p, many) = Total(g)
  BY DEF WeightedScore
<1> HIDE DEF f, g
<1> QED
  BY <1>3, <1>4

LEMMA WeightedIsInt ==
  ASSUME NEW c, IsConfig(c), \A k \in DOMAIN c.scoring : c.scoring[k].name \in ScoringRules,
         \A e \in EnabledEntries(c.scoring) : ~Raises(e),
         NEW w, \A n \in DOMAIN w : w[n] \in Int,
         NEW order, order.pos \in Int,
         NEW p, {p.pos, p.rating, p.load, p.avg_time} \subseteq Int,
         NEW loads, IsFiniteSet(DOMAIN loads), \A i \in DOMAIN loads : loads[i] \in Int
  PROVE  WeightedScore(c, w, order, p, loads) \in Int
<1> DEFINE S == ScoringAt(c)
           score(e) == Score(e, order, p, loads)
           f == [k \in S |-> Get(w, c.scoring[k].name, 0) * score(c.scoring[k])]
<1>1. \A k \in S : f[k] \in Int
  <2> SUFFICES ASSUME NEW k \in S PROVE f[k] \in Int
    OBVIOUS
  <2>1. /\ IsEntry(c.scoring[k]) /\ c.scoring[k].name \in ScoringRules
        /\ c.scoring[k] \in EnabledEntries(c.scoring)
    BY DEF IsConfig, IsList, ScoringAt, EnabledEntries
  <2>2. score(c.scoring[k]) \in 0..One
    BY <2>1, ScoreIsUnit
  <2>3. Get(w, c.scoring[k].name, 0) \in Int
    BY DEF Get
  <2> HIDE DEF score
  <2> QED
    BY <2>2, <2>3
<1>2. IsFiniteSet(S)
  BY ConfigParts
<1>3. Total(f) = Sum(f, S)
  BY TotalIsSum
<1>4. Sum(f, S) \in Int
  <2> HIDE DEF f, S
  <2> QED
    BY <1>1, <1>2, SumInt
<1> QED
  BY <1>3, <1>4 DEF WeightedScore

(* The rows of a pool are those of the snapshot without the removed.         *)
Thinned(rows, pool, removed) ==
  /\ \E n : Increasing(rows, n)
  /\ \E n : Increasing(pool, n)
  /\ \A k \in DOMAIN pool : \E j \in DOMAIN rows : pool[k] = rows[j]
  /\ \A j \in DOMAIN rows : rows[j].id \notin removed => \E k \in DOMAIN pool : pool[k] = rows[j]

LEMMA SameOrder ==
  ASSUME NEW rows, NEW n, Increasing(rows, n), NEW pool, NEW m, Increasing(pool, m),
         NEW j \in 1..n, NEW l \in 1..n, NEW k \in 1..m, NEW i \in 1..m,
         pool[k] = rows[j], pool[i] = rows[l], j <= l
  PROVE  k <= i
<1>1. j \in Int /\ l \in Int /\ k \in Int /\ i \in Int
  BY DEF Increasing
<1>2. rows[j].id \in Int /\ rows[l].id \in Int /\ (j < l => rows[j].id < rows[l].id)
  BY DEF Increasing
<1>3. i < k => pool[i].id < pool[k].id
  BY DEF Increasing
<1>4. rows[j].id <= rows[l].id
  <2>1. j < l \/ j = l
    BY <1>1
  <2>2. j = l => rows[j].id = rows[l].id
    OBVIOUS
  <2> QED
    BY <1>2, <2>1, <2>2
<1>5. pool[i].id = rows[l].id /\ pool[k].id = rows[j].id
  OBVIOUS
<1> QED
  BY <1>1, <1>2, <1>3, <1>4, <1>5

ScoreAt(c, w, order, rows, loads, passing) ==
  [k \in passing |-> WeightedScore(c, w, order, Effective(rows, k, loads), loads)]
BestOf(c, w, order, rows, loads) ==
  BestRow(c, w, order, rows, loads, EligibleRows(c, order, rows, loads))
WhoIs(rows, best) == IF best = None THEN None ELSE rows[best].id

Calculable(c, w, order) ==
  /\ IsConfig(c) /\ \A k \in DOMAIN c.scoring : c.scoring[k].name \in ScoringRules
  /\ \A e \in EnabledEntries(c.scoring) : ~Raises(e)
  /\ \A n \in DOMAIN w : w[n] \in Int
  /\ order.pos \in Int

(* What is known of the best row of a list. *)
LEMMA BestOfFacts ==
  ASSUME NEW c, NEW w, NEW order, Calculable(c, w, order),
         NEW rows, IsRows(rows), NEW loads \in [IdsOf(rows) -> Int]
  PROVE  LET passing == EligibleRows(c, order, rows, loads)
             score == ScoreAt(c, w, order, rows, loads, passing)
             best == BestOf(c, w, order, rows, loads)
         IN  /\ DOMAIN score = passing /\ passing \subseteq DOMAIN rows
             /\ best # None => best \in passing /\ IsTop(score, best) /\ score[best] > -One * One
             /\ best = None => \A k \in passing : ~(score[k] > -One * One)
             /\ \A k \in passing : IsTop(score, k) /\ score[k] > -One * One => best = k
<1> DEFINE passing == EligibleRows(c, order, rows, loads)
           score == ScoreAt(c, w, order, rows, loads, passing)
<1>1. passing \subseteq DOMAIN rows
  BY DEF EligibleRows
<1>2. DOMAIN score = passing
  BY DEF ScoreAt
<1>3. passing \in SUBSET Int /\ IsFiniteSet(passing)
  BY <1>1, RowsFacts, FS_Subset
<1>4. ASSUME NEW k \in passing PROVE score[k] \in Int
  <2> DEFINE p == Effective(rows, k, loads)
  <2>1. {p.pos, p.rating, p.load, p.avg_time} \subseteq Int
    BY <1>1, EffectiveRow
  <2>2. IsFiniteSet(DOMAIN loads) /\ \A i \in DOMAIN loads : loads[i] \in Int
    BY RowsFacts
  <2>3. score[k] = WeightedScore(c, w, order, p, loads)
    BY DEF ScoreAt
  <2> HIDE DEF p, score
  <2>4. WeightedScore(c, w, order, p, loads) \in Int
    BY <2>1, <2>2, WeightedIsInt DEF Calculable
  <2> QED
    BY <2>3, <2>4
<1>5. BestOf(c, w, order, rows, loads) = FirstBest(score)
  BY DEF BestOf, BestRow, ScoreAt
<1> HIDE DEF passing, score
<1>6. /\ FirstBest(score) # None =>
            /\ FirstBest(score) \in DOMAIN score /\ IsTop(score, FirstBest(score))
            /\ score[FirstBest(score)] > -One * One
      /\ FirstBest(score) = None => \A k \in DOMAIN score : ~(score[k] > -One * One)
      /\ \A k \in DOMAIN score : IsTop(score, k) /\ score[k] > -One * One => FirstBest(score) = k
  BY <1>2, <1>3, <1>4, BestFacts
<1> QED
  BY <1>1, <1>2, <1>5, <1>6 DEF passing, score

LEMMA ThinnedIds ==
  ASSUME NEW rows, NEW pool, NEW removed, Thinned(rows, pool, removed)
  PROVE  /\ IdsOf(pool) \subseteq IdsOf(rows)
         /\ \A k \in DOMAIN pool : pool[k].id \in IdsOf(pool)
         /\ \A i \in IdsOf(rows) \ IdsOf(pool) : i \in removed
<1>1. \A k \in DOMAIN pool : \E j \in DOMAIN rows : pool[k] = rows[j]
  BY DEF Thinned
<1>2. \A j \in DOMAIN rows : rows[j].id \notin removed => \E k \in DOMAIN pool : pool[k] = rows[j]
  BY DEF Thinned
<1> QED
  BY <1>1, <1>2 DEF IdsOf

LoadsThinned(c, rows, pool, many, few) ==
  /\ many \in [IdsOf(rows) -> Nat]
  /\ few = [i \in IdsOf(pool) |-> many[i]]
  /\ FairnessScored(c) => SameScale(few, many)

(* Whoever is chosen is chosen as well when those who are not are removed.   *)
LEMMA SameWho ==
  ASSUME NEW c, NEW w, NEW order, Calculable(c, w, order),
         NEW rows, NEW pool, IsRows(rows), IsRows(pool), NEW removed, Thinned(rows, pool, removed),
         NEW many, NEW few, LoadsThinned(c, rows, pool, many, few),
         WhoIs(rows, BestOf(c, w, order, rows, many)) \notin removed
  PROVE  WhoIs(pool, BestOf(c, w, order, pool, few)) = WhoIs(rows, BestOf(c, w, order, rows, many))
<1> DEFINE P == EligibleRows(c, order, rows, many)
           Q == EligibleRows(c, order, pool, few)
           x == ScoreAt(c, w, order, rows, many, P)
           y == ScoreAt(c, w, order, pool, few, Q)
           a == BestOf(c, w, order, rows, many)
           b == BestOf(c, w, order, pool, few)
           low == -One * One
<1>1. /\ many \in [IdsOf(rows) -> Int] /\ few \in [IdsOf(pool) -> Int]
      /\ Without(few, many) /\ (FairnessScored(c) => SameScale(few, many))
  <2>1. IdsOf(pool) \subseteq IdsOf(rows) /\ IsFiniteSet(IdsOf(rows))
    BY ThinnedIds, RowsFacts
  <2> QED
    BY <2>1 DEF LoadsThinned, Without
<1>2. PICK n : Increasing(rows, n)
  BY DEF Thinned
<1>3. PICK m : Increasing(pool, m)
  BY DEF Thinned
<1>4. DOMAIN rows = 1..n /\ DOMAIN pool = 1..m
  BY <1>2, <1>3 DEF Increasing
<1>5. ASSUME NEW k \in 1..m, NEW j \in 1..n, pool[k] = rows[j]
      PROVE  (k \in Q <=> j \in P) /\ (k \in Q => y[k] = x[j])
  <2>1. rows[j].id \in IdsOf(pool)
    BY <1>4, <1>5, ThinnedIds
  <2>2. few[pool[k].id] = many[rows[j].id]
    BY <1>5, <2>1 DEF LoadsThinned
  <2>3. Effective(pool, k, few) = Effective(rows, j, many)
    BY <1>5, <2>2 DEF Effective
  <2>4. k \in Q <=> j \in P
    BY <1>4, <2>3 DEF EligibleRows
  <2>5. ASSUME k \in Q PROVE y[k] = x[j]
    <3> DEFINE p == Effective(rows, j, many)
    <3>1. y[k] = WeightedScore(c, w, order, p, few)
      BY <2>3, <2>5 DEF ScoreAt
    <3>2. x[j] = WeightedScore(c, w, order, p, many)
      BY <2>4, <2>5 DEF ScoreAt
    <3>3. p.load \in Int
      BY <1>1, <1>4, EffectiveRow
    <3> HIDE DEF p, x, y
    <3>4. WeightedScore(c, w, order, p, few) = WeightedScore(c, w, order, p, many)
      BY <1>1, <3>3, SameScores
    <3> QED
      BY <3>1, <3>2, <3>4
  <2> QED
    BY <2>4, <2>5
<1>6. /\ DOMAIN x = P /\ P \subseteq 1..n
      /\ a # None => a \in P /\ IsTop(x, a) /\ x[a] > low
      /\ a = None => \A j \in P : ~(x[j] > low)
  <2>1. /\ DOMAIN x = P /\ P \subseteq DOMAIN rows
        /\ a # None => a \in P /\ IsTop(x, a) /\ x[a] > low
        /\ a = None => \A j \in P : ~(x[j] > low)
        /\ \A j \in P : IsTop(x, j) /\ x[j] > low => a = j
    BY <1>1, BestOfFacts, Zenon
  <2> QED
    BY <1>4, <2>1, Zenon
<1>7. /\ DOMAIN y = Q /\ Q \subseteq 1..m
      /\ b # None => b \in Q /\ y[b] > low
      /\ \A k \in Q : IsTop(y, k) /\ y[k] > low => b = k
  <2>1. /\ DOMAIN y = Q /\ Q \subseteq DOMAIN pool
        /\ b # None => b \in Q /\ IsTop(y, b) /\ y[b] > low
        /\ b = None => \A k \in Q : ~(y[k] > low)
        /\ \A k \in Q : IsTop(y, k) /\ y[k] > low => b = k
    BY <1>1, BestOfFacts, Zenon
  <2> QED
    BY <1>4, <2>1, Zenon
<1>8. \A k \in 1..m : \E j \in 1..n : pool[k] = rows[j]
  BY <1>4 DEF Thinned
<1> HIDE DEF P, Q, x, y, a, b, low
<1>9. CASE a = None
  <2>1. b = None
    <3> SUFFICES ASSUME b # None PROVE FALSE
      OBVIOUS
    <3>1. b \in Q /\ b \in 1..m /\ y[b] > low
      BY <1>7
    <3>2. PICK j \in 1..n : pool[b] = rows[j]
      BY <1>8, <3>1
    <3>3. j \in P /\ y[b] = x[j]
      BY <1>5, <3>1, <3>2
    <3> QED
      BY <1>6, <1>9, <3>1, <3>3
  <2> QED
    BY <1>9, <2>1 DEF WhoIs, a, b
<1>10. CASE a # None
  <2>1. a \in P /\ a \in 1..n /\ IsTop(x, a) /\ x[a] > low
    BY <1>6, <1>10
  <2>2. rows[a].id \notin removed
    BY <1>10 DEF WhoIs, a
  <2>3. PICK k \in 1..m : pool[k] = rows[a]
    BY <1>4, <2>1, <2>2 DEF Thinned
  <2>4. k \in Q /\ y[k] = x[a]
    BY <1>5, <2>1, <2>3
  <2>5. ASSUME NEW i \in Q PROVE y[i] < y[k] \/ (y[i] = y[k] /\ k <= i)
    <3>1. i \in 1..m
      BY <1>7
    <3>2. PICK l \in 1..n : pool[i] = rows[l]
      BY <1>8, <3>1
    <3>3. l \in P /\ y[i] = x[l]
      BY <1>5, <2>5, <3>1, <3>2
    <3>4. x[l] < x[a] \/ (x[l] = x[a] /\ a <= l)
      BY <1>6, <2>1, <3>3 DEF IsTop
    <3>5. a <= l => k <= i
      BY <1>2, <1>3, <2>1, <2>3, <3>1, <3>2, SameOrder
    <3> QED
      BY <2>4, <3>3, <3>4, <3>5
  <2>6. IsTop(y, k)
    BY <1>7, <2>5 DEF IsTop
  <2>7. b = k
    BY <1>7, <2>1, <2>4, <2>6
  <2>8. k # None
    BY <1>3, RulesAssumption DEF Increasing
  <2> QED
    BY <1>10, <2>3, <2>7, <2>8 DEF WhoIs, a, b
<1> QED
  BY <1>9, <1>10

StepsTo(t, s, who) ==
  /\ t.loads = IF who = None THEN s.loads ELSE [s.loads EXCEPT ![who] = @ + 1]
  /\ t.chosen = Append(s.chosen, who)
  /\ t.failed = FALSE

LEMMA StepWhenCalculable ==
  ASSUME NEW c, NEW w, NEW orders, NEW rows, NEW s, s.failed = FALSE,
         NEW o, Calculable(c, w, orders[o])
  PROVE  StepsTo(EvalStep(c, w, orders, rows, s, o), s,
                 WhoIs(rows, BestOf(c, w, orders[o], rows, s.loads)))
<1> DEFINE passing == EligibleRows(c, orders[o], rows, s.loads)
           best == BestOf(c, w, orders[o], rows, s.loads)
<1>1. ScoreRaises(c, s, passing) = FALSE
  BY DEF ScoreRaises, Calculable
<1>2. best = BestRow(c, w, orders[o], rows, s.loads, passing)
  BY DEF BestOf
<1>3. EvalStep(c, w, orders, rows, s, o) = Ranked(c, w, orders[o], rows, s, passing)
  BY DEF EvalStep
<1> HIDE DEF passing, best
<1>4. Ranked(c, w, orders[o], rows, s, passing) = Allocated(s, rows, passing, FALSE, best)
  BY <1>1, <1>2 DEF Ranked
<1> QED
  BY <1>3, <1>4 DEF Allocated, WhoIs, best, StepsTo

RunsThinned(c, rows, pool, s, t) ==
  /\ LoadsThinned(c, rows, pool, s.loads, t.loads)
  /\ s.chosen = t.chosen /\ s.failed = FALSE /\ t.failed = FALSE

LEMMA ThinnedStep ==
  ASSUME NEW c, NEW w, NEW orders, NEW o, Calculable(c, w, orders[o]),
         NEW rows, NEW pool, IsRows(rows), IsRows(pool), NEW removed, Thinned(rows, pool, removed),
         NEW s, NEW t, RunsThinned(c, rows, pool, s, t),
         WhoIs(rows, BestOf(c, w, orders[o], rows, s.loads)) \notin removed
  PROVE  RunsThinned(c, rows, pool, EvalStep(c, w, orders, rows, s, o), EvalStep(c, w, orders, pool, t, o))
<1> DEFINE order == orders[o]
           who == WhoIs(rows, BestOf(c, w, order, rows, s.loads))
           s1 == EvalStep(c, w, orders, rows, s, o)
           t1 == EvalStep(c, w, orders, pool, t, o)
<1>1. LoadsThinned(c, rows, pool, s.loads, t.loads) /\ s.failed = FALSE /\ t.failed = FALSE
      /\ s.chosen = t.chosen
  BY DEF RunsThinned
<1>2. WhoIs(pool, BestOf(c, w, order, pool, t.loads)) = who
  BY <1>1, SameWho
<1>3. StepsTo(s1, s, who)
  BY <1>1, StepWhenCalculable
<1>4. StepsTo(t1, t, who)
  <2>1. StepsTo(t1, t, WhoIs(pool, BestOf(c, w, order, pool, t.loads)))
    BY <1>1, StepWhenCalculable
  <2> QED
    BY <1>2, <2>1
<1>5. who \in IdsOf(pool) \cup {None} /\ IdsOf(pool) \subseteq IdsOf(rows)
  <2> DEFINE b == BestOf(c, w, order, pool, t.loads)
  <2>1. IdsOf(pool) \subseteq IdsOf(rows) /\ \A k \in DOMAIN pool : pool[k].id \in IdsOf(pool)
    BY ThinnedIds
  <2>2. t.loads \in [IdsOf(pool) -> Int]
    BY <1>1, <2>1 DEF LoadsThinned
  <2>3. EligibleRows(c, order, pool, t.loads) \subseteq DOMAIN pool
    BY DEF EligibleRows
  <2>4. b # None => b \in EligibleRows(c, order, pool, t.loads)
    BY <2>2, BestOfFacts
  <2> HIDE DEF b, who
  <2> QED
    BY <1>2, <2>1, <2>3, <2>4 DEF WhoIs, b
<1> HIDE DEF who, s1, t1
<1>6. LoadsThinned(c, rows, pool, s1.loads, t1.loads)
  <2> DEFINE I == IdsOf(rows)
             J == IdsOf(pool)
             x == s.loads
             y == t.loads
             x1 == [x EXCEPT ![who] = @ + 1]
             y1 == [y EXCEPT ![who] = @ + 1]
  <2>1. x \in [I -> Nat] /\ y = [i \in J |-> x[i]] /\ (FairnessScored(c) => SameScale(y, x))
    BY <1>1 DEF LoadsThinned
  <2>2. /\ s1.loads = IF who = None THEN x ELSE x1
        /\ t1.loads = IF who = None THEN y ELSE y1
    BY <1>3, <1>4 DEF StepsTo
  <2>3. CASE who = None
    BY <1>1, <2>2, <2>3
  <2>4. CASE who # None
    <3> HIDE DEF I, J, x, y
    <3>1. who \in J /\ J \subseteq I
      BY <1>5, <2>4 DEF I, J
    <3>2. x1 \in [I -> Nat] /\ y1 = [i \in J |-> x1[i]]
      BY <2>1, <3>1
    <3>3. ASSUME SameScale(y, x) PROVE SameScale(y1, x1)
      <4>1. DOMAIN x = I /\ DOMAIN x1 = I /\ DOMAIN y = J /\ DOMAIN y1 = J
        BY <2>1, <3>2
      <4>2. \A i \in I \ J : x1[i] = x[i] /\ x[i] \in Nat
        BY <2>1, <3>1
      <4>3. \A j \in J : x1[j] \in Nat /\ x[j] \in Nat /\ x1[j] >= x[j]
        BY <2>1, <3>1
      <4>4. ASSUME NEW i \in I \ J
            PROVE  x1[i] = 0 \/ \E j \in J : x1[j] >= x1[i]
        <5>1. x[i] = 0 \/ \E j \in J : x[j] >= x[i]
          BY <3>3, <4>1 DEF SameScale
        <5>2. CASE x[i] = 0
          BY <4>2, <5>2
        <5>3. ASSUME NEW j \in J, x[j] >= x[i] PROVE x1[j] >= x1[i]
          BY <4>2, <4>3, <5>3
        <5> QED
          BY <5>1, <5>2, <5>3
      <4> HIDE DEF x1, y1
      <4> QED
        BY <4>1, <4>4 DEF SameScale
    <3> QED
      BY <2>1, <2>2, <2>4, <3>2, <3>3 DEF LoadsThinned, I, J
  <2> QED
    BY <2>3, <2>4
<1>7. RunsThinned(c, rows, pool, s1, t1)
  BY <1>1, <1>3, <1>4, <1>6 DEF RunsThinned, StepsTo
<1> QED
  BY <1>7 DEF s1, t1

LEMMA AppendFacts ==
  ASSUME NEW S, NEW xs \in Seq(S), NEW x
  PROVE  /\ Append(xs, x)[Len(xs) + 1] = x
         /\ \A o \in 1..Len(xs) : Append(xs, x)[o] = xs[o]
<1> DEFINE T == S \cup {x}
<1>1. xs \in Seq(T) /\ x \in T
  OBVIOUS
<1> HIDE DEF T
<1> QED
  BY <1>1

LEMMA ThinnedRuns ==
  ASSUME NEW c, NEW w, NEW orders, IsOrders(orders),
         \A o \in 1..Len(orders) : Calculable(c, w, orders[o]),
         NEW rows, NEW pool, IsRows(rows), IsRows(pool), NEW removed, Thinned(rows, pool, removed),
         NEW observed, \A i \in DOMAIN observed : observed[i] \in Int, NEW others,
         LoadsThinned(c, rows, pool, StartLoads(rows, observed), StartLoads(pool, others)),
         \A o \in 1..Len(orders) : Evaluate(c, w, orders, rows, observed).chosen[o] \notin removed
  PROVE  Evaluate(c, w, orders, pool, others).chosen = Evaluate(c, w, orders, rows, observed).chosen
<1> DEFINE m == Len(orders)
<1>0. m \in Nat /\ \A o \in 1..m : orders[o].pos \in Int
  BY DEF IsOrders
<1>1. PICK f : IsRun(f, m, c, w, orders, rows, observed)
               /\ Evaluate(c, w, orders, rows, observed) = f[m]
  BY <1>0, EvaluateRuns
<1>2. PICK g : IsRun(g, m, c, w, orders, pool, others)
               /\ Evaluate(c, w, orders, pool, others) = g[m]
  BY <1>0, EvaluateRuns
<1> DEFINE Keeps(n) == \A o \in 1..n : f[n].chosen[o] \notin removed
           Ok(n) == /\ RunAt(f[n], n, c, w, orders, rows) /\ f[n].failed = FALSE
                    /\ Keeps(n) => RunsThinned(c, rows, pool, f[n], g[n])
           Good == {n \in Nat : n <= m => Ok(n)}
<1>3. 0 \in Good
  <2>1. f[0] = EvalStart(rows, observed) /\ g[0] = EvalStart(pool, others)
    BY <1>1, <1>2 DEF IsRun
  <2>2. RunAt(f[0], 0, c, w, orders, rows)
    BY <2>1, RunStart
  <2>3. f[0].failed = FALSE /\ RunsThinned(c, rows, pool, f[0], g[0])
    BY <2>1 DEF EvalStart, RunsThinned
  <2> QED
    BY <2>2, <2>3
<1>4. \A n \in Nat : n \in Good => n + 1 \in Good
  <2> HIDE DEF Ok
  <2> SUFFICES ASSUME NEW n \in Nat, n \in Good, n + 1 <= m
               PROVE  Ok(n + 1)
    OBVIOUS
  <2>1. n + 1 \in 1..m /\ n <= m /\ (n + 1) - 1 = n
    BY <1>0
  <2>2. Ok(n)
    BY <2>1
  <2> DEFINE s == f[n]
             t == g[n]
             who == WhoIs(rows, BestOf(c, w, orders[n + 1], rows, s.loads))
             s1 == EvalStep(c, w, orders, rows, s, n + 1)
             t1 == EvalStep(c, w, orders, pool, t, n + 1)
  <2>3. f[n + 1] = s1 /\ g[n + 1] = t1
    <3>1. f[n + 1] = EvalStep(c, w, orders, rows, f[(n + 1) - 1], n + 1)
      BY <1>1, <2>1 DEF IsRun
    <3>2. g[n + 1] = EvalStep(c, w, orders, pool, g[(n + 1) - 1], n + 1)
      BY <1>2, <2>1 DEF IsRun
    <3> QED
      BY <2>1, <3>1, <3>2
  <2>4. RunAt(s, n, c, w, orders, rows) /\ s.failed = FALSE
    BY <2>2 DEF Ok
  <2>5. Calculable(c, w, orders[n + 1]) /\ orders[n + 1].pos \in Int
    BY <1>0, <2>1
  <2>6. RunAt(s1, n + 1, c, w, orders, rows)
    BY <2>4, <2>5, RunStep
  <2>7. StepsTo(s1, s, who)
    BY <2>4, <2>5, StepWhenCalculable
  <2>8. /\ s1.failed = FALSE /\ s1.chosen[n + 1] = who
        /\ \A o \in 1..n : s1.chosen[o] = s.chosen[o]
    <3>1. s.chosen \in Seq(IdsOf(rows) \cup {None}) /\ Len(s.chosen) = n
      BY <2>4 DEF RunAt
    <3>2. s1.chosen = Append(s.chosen, who) /\ s1.failed = FALSE
      BY <2>7 DEF StepsTo
    <3> DEFINE xs == s.chosen
    <3>3. /\ Append(xs, who)[n + 1] = who
          /\ \A o \in 1..n : Append(xs, who)[o] = xs[o]
      <4> HIDE DEF xs, who
      <4> QED
        BY <3>1, AppendFacts DEF xs
    <3> HIDE DEF s, s1, who
    <3> QED
      BY <3>2, <3>3
  <2>9. ASSUME \A o \in 1..(n + 1) : s1.chosen[o] \notin removed
        PROVE  RunsThinned(c, rows, pool, s1, t1)
    <3>1. \A o \in 1..n : s.chosen[o] \notin removed
      <4>1. \A o \in 1..n : o \in 1..(n + 1)
        OBVIOUS
      <4> HIDE DEF s, s1, who
      <4> QED
        BY <2>8, <2>9, <4>1
    <3>2. RunsThinned(c, rows, pool, s, t)
      BY <2>2, <3>1 DEF Ok
    <3>3. who \notin removed
      BY <2>8, <2>9
    <3> QED
      BY <2>5, <3>2, <3>3, ThinnedStep
  <2> HIDE DEF s, t, s1, t1
  <2> QED
    BY <2>3, <2>6, <2>8, <2>9 DEF Ok
<1>5. Ok(m)
  <2> HIDE DEF Ok
  <2>1. m \in Good
    <3> HIDE DEF Good
    <3> QED
      BY <1>0, <1>3, <1>4, NatInduction1
  <2> QED
    BY <1>0, <2>1
<1>6. Keeps(m)
  BY <1>1
<1> QED
  BY <1>1, <1>2, <1>5, <1>6 DEF RunsThinned

(* If a rule that is on raises, nobody is ever chosen.                      *)
LEMMA RaisingChoosesNobody ==
  ASSUME NEW c, \E e \in EnabledEntries(c.scoring) : Raises(e),
         NEW w, NEW orders, Len(orders) \in Nat, NEW rows, NEW observed
  PROVE  Evaluate(c, w, orders, rows, observed).chosen = [o \in 1..Len(orders) |-> None]
<1> DEFINE m == Len(orders)
<1>1. PICK f : IsRun(f, m, c, w, orders, rows, observed)
               /\ Evaluate(c, w, orders, rows, observed) = f[m]
  BY EvaluateRuns
<1> DEFINE Ok(n) == f[n].chosen = [o \in 1..n |-> None]
           Good == {n \in Nat : n <= m => Ok(n)}
<1>2. 0 \in Good
  <2>1. f[0].chosen = <<>>
    BY <1>1 DEF IsRun, EvalStart
  <2>2. [o \in 1..0 |-> None] = <<>>
    OBVIOUS
  <2> QED
    BY <2>1, <2>2
<1>3. \A n \in Nat : n \in Good => n + 1 \in Good
  <2> HIDE DEF Ok
  <2> SUFFICES ASSUME NEW n \in Nat, n \in Good, n + 1 <= m
               PROVE  Ok(n + 1)
    OBVIOUS
  <2>1. n + 1 \in 1..m /\ n <= m /\ (n + 1) - 1 = n
    OBVIOUS
  <2>2. f[n].chosen = [o \in 1..n |-> None]
    BY <2>1 DEF Ok
  <2> DEFINE s == f[n]
             passing == EligibleRows(c, orders[n + 1], rows, s.loads)
             best == IF ScoreRaises(c, s, passing) THEN None
                     ELSE BestRow(c, w, orders[n + 1], rows, s.loads, passing)
  <2>3. f[n + 1] = EvalStep(c, w, orders, rows, s, n + 1)
    <3>1. f[n + 1] = EvalStep(c, w, orders, rows, f[(n + 1) - 1], n + 1)
      BY <1>1, <2>1 DEF IsRun
    <3> QED
      BY <2>1, <3>1
  <2>4. f[n + 1] = Allocated(s, rows, passing, ScoreRaises(c, s, passing), best)
    BY <2>3 DEF EvalStep, Ranked
  <2>5. best = None
    <3>1. CASE passing # {}
      BY <3>1 DEF ScoreRaises
    <3>2. CASE passing = {}
      <4> DEFINE score == ScoreAt(c, w, orders[n + 1], rows, s.loads, passing)
      <4>1. BestRow(c, w, orders[n + 1], rows, s.loads, passing) = FirstBest(score)
        BY DEF BestRow, ScoreAt
      <4>2. DOMAIN score = {}
        BY <3>2 DEF ScoreAt
      <4> HIDE DEF score
      <4>3. FirstBest(score) = None
        BY <4>2, BestIsEligible
      <4> QED
        BY <4>1, <4>3
    <3> QED
      BY <3>1, <3>2
  <2> HIDE DEF best, passing, s
  <2>6. f[n + 1].chosen = Append(s.chosen, None)
    BY <2>4, <2>5 DEF Allocated
  <2>7. Append([o \in 1..n |-> None], None) = [o \in 1..(n + 1) |-> None]
    OBVIOUS
  <2> QED
    BY <2>2, <2>6, <2>7 DEF Ok, s
<1>4. m \in Good
  <2> HIDE DEF Good
  <2> QED
    BY <1>2, <1>3, NatInduction1
<1> QED
  BY <1>1, <1>4

LEMMA PoolIsThinned ==
  ASSUME NEW rows, IsRows(rows), NEW n, Increasing(rows, n),
         NEW m, m.add = <<>>, m.modify = <<>>
  PROVE  Thinned(rows, Pool(rows, m), m.remove)
<1> DEFINE ids == (IdsOf(rows) \ m.remove) \cup IdsOf(m.modify) \cup IdsOf(m.add)
           row(i) == IF i \in IdsOf(m.add) THEN RebuiltPartner(LastRow(m.add, i))
                     ELSE IF i \in IdsOf(m.modify) THEN RebuiltPartner(LastRow(m.modify, i))
                     ELSE LastRow(rows, i)
           sorted == Ascending(ids)
           pool == [k \in DOMAIN sorted |-> row(sorted[k])]
           size == Cardinality(ids)
<1>1. Pool(rows, m) = pool
  BY DEF Pool
<1>2. IdsOf(m.add) = {} /\ IdsOf(m.modify) = {}
  BY DEF IdsOf
<1>3. ids = IdsOf(rows) \ m.remove
  BY <1>2
<1>4. ids \in SUBSET Int /\ IsFiniteSet(ids)
  BY <1>3, RowsFacts, FS_Subset
<1>5. \A i : row(i) = LastRow(rows, i)
  BY <1>2
<1> HIDE DEF row, ids
<1>6. /\ size \in Nat /\ DOMAIN sorted = 1..size
      /\ \A k \in 1..size : sorted[k] \in ids
      /\ \A j, k \in 1..size : j < k => sorted[j] < sorted[k]
      /\ \A i \in ids : \E k \in 1..size : sorted[k] = i
  BY <1>4, AscendingFacts
<1> HIDE DEF sorted, size
<1>7. DOMAIN pool = 1..size /\ \A k \in 1..size : pool[k] = LastRow(rows, sorted[k])
  BY <1>5, <1>6
<1>8. DOMAIN rows = 1..n
  BY DEF Increasing
<1> HIDE DEF pool
<1>9. ASSUME NEW k \in 1..size
      PROVE  pool[k].id = sorted[k] /\ sorted[k] \in Int /\ \E j \in 1..n : pool[k] = rows[j]
  <2>1. sorted[k] \in ids /\ sorted[k] \in Int
    BY <1>4, <1>6
  <2>2. PICK j \in 1..n : rows[j].id = sorted[k]
    BY <1>3, <1>8, <2>1 DEF IdsOf
  <2>3. pool[k] = rows[j]
    BY <1>7, <2>2, IncreasingRow
  <2> QED
    BY <2>1, <2>2, <2>3
<1>10. Increasing(pool, size)
  <2>1. ASSUME NEW j \in 1..size, NEW k \in 1..size, j < k
        PROVE  pool[j].id < pool[k].id
    BY <1>6, <1>9, <2>1
  <2>2. \A k \in 1..size : pool[k].id \in Int
    BY <1>9
  <2> QED
    BY <1>6, <1>7, <2>1, <2>2 DEF Increasing
<1>11. ASSUME NEW j \in 1..n, rows[j].id \notin m.remove
       PROVE  \E k \in 1..size : pool[k] = rows[j]
  <2>1. rows[j].id \in ids
    BY <1>3, <1>11, IncreasingRow
  <2>2. PICK k \in 1..size : sorted[k] = rows[j].id
    BY <1>6, <2>1
  <2> QED
    BY <1>7, <2>2, IncreasingRow
<1>12. Thinned(rows, pool, m.remove)
  BY <1>7, <1>8, <1>9, <1>10, <1>11 DEF Thinned
<1> QED
  BY <1>1, <1>12

(* The loads the decision started from, without those of the removed.        *)
LEMMA LoadsAreThinned ==
  ASSUME WInv, StoredWell, UniqueRows(stored.partners),
         NEW pool, NEW removed, Thinned(stored.partners, pool, removed),
         NEW c, FairnessScored(c) => KeepsHighestLoad(removed)
  PROVE  LoadsThinned(c, stored.partners, pool, StartLoads(stored.partners, ReplayLoads(stored.partners)),
                      StartLoads(pool, ReplayLoads(pool)))
<1> DEFINE rows == stored.partners
           n == Len(payload.partners)
           many == StartLoads(rows, BaseLoads)
           few == StartLoads(pool, ReplayLoads(pool))
<1>1. /\ IsRows(rows) /\ stored.loads = BaseLoads /\ ReplayLoads(rows) = BaseLoads
      /\ BaseLoads \in [IdsOf(rows) -> Nat]
  BY WhenStored, StoredFacts, ReplayedLoads
<1>2. /\ Increasing(rows, n)
      /\ \A k \in 1..n : IsRow(rows[k]) /\ rows[k].load <= BaseLoads[rows[k].id]
  BY StoredIncrease
<1>3. many \in [IdsOf(rows) -> Nat]
  <2>1. \A i \in DOMAIN BaseLoads : BaseLoads[i] \in Int
    BY <1>1
  <2> QED
    BY <1>1, <2>1, StartLoadsFacts
<1>4. IdsOf(pool) \subseteq IdsOf(rows) /\ \A i \in IdsOf(rows) \ IdsOf(pool) : i \in removed
  BY ThinnedIds
<1>5. DOMAIN rows = 1..n
  BY <1>2 DEF Increasing
<1>6. PICK m : Increasing(pool, m)
  BY DEF Thinned
<1>7. DOMAIN pool = 1..m
  BY <1>6 DEF Increasing
<1> HIDE DEF rows, n
<1>8. ASSUME NEW i \in IdsOf(pool)
      PROVE  Above(Above(0, LastRow(pool, i).load), Get(ReplayLoads(pool), i, 0)) = many[i]
  <2>1. PICK k \in 1..m : pool[k].id = i
    BY <1>7 DEF IdsOf
  <2>2. PICK j \in 1..n : pool[k] = rows[j]
    BY <1>5, <1>7 DEF Thinned, rows
  <2>3. LastRow(pool, i) = pool[k]
    BY <1>6, <2>1, IncreasingRow
  <2>4. LastRow(rows, i) = rows[j]
    BY <1>2, <2>1, <2>2, IncreasingRow
  <2>5. Get(ReplayLoads(pool), i, 0) = Get(BaseLoads, i, 0)
    BY <1>1 DEF ReplayLoads, Get
  <2>6. many[i] = Above(Above(0, LastRow(rows, i).load), Get(BaseLoads, i, 0))
    BY <1>4 DEF StartLoads
  <2> QED
    BY <2>2, <2>3, <2>4, <2>5, <2>6
<1>9. few = [i \in IdsOf(pool) |-> many[i]]
  <2>1. few = [i \in IdsOf(pool) |-> Above(Above(0, LastRow(pool, i).load), Get(ReplayLoads(pool), i, 0))]
    BY DEF StartLoads
  <2> HIDE DEF few, many
  <2> QED
    BY <1>8, <2>1
<1>10. ASSUME NEW i \in IdsOf(rows)
       PROVE  many[i] = BaseLoads[i]
  <2>1. PICK j \in 1..n : rows[j].id = i
    BY <1>5 DEF IdsOf
  <2>2. LastRow(rows, i) = rows[j]
    BY <1>2, <2>1, IncreasingRow
  <2>3. BaseLoads[i] \in Nat /\ Get(BaseLoads, i, 0) = BaseLoads[i]
    BY <1>1 DEF Get, rows
  <2>4. rows[j].load \in Int /\ rows[j].load <= BaseLoads[i]
    BY <1>2, <2>1 DEF IsRow
  <2>5. many[i] = Above(Above(0, rows[j].load), BaseLoads[i])
    BY <2>2, <2>3 DEF StartLoads
  <2> HIDE DEF many
  <2> QED
    BY <2>3, <2>4, <2>5 DEF Above
<1> HIDE DEF few, many
<1>11. FairnessScored(c) => SameScale(few, many)
  <2> SUFFICES ASSUME KeepsHighestLoad(removed), NEW i \in IdsOf(rows) \ IdsOf(pool)
               PROVE  many[i] = 0 \/ \E j \in IdsOf(pool) : many[j] >= many[i]
    <3>1. DOMAIN many = IdsOf(rows) /\ DOMAIN few = IdsOf(pool)
      BY <1>3, <1>9
    <3> QED
      BY <3>1 DEF SameScale
  <2>1. DOMAIN stored.loads = IdsOf(rows) /\ i \in removed
    BY <1>1, <1>4 DEF rows
  <2>2. stored.loads[i] = 0 \/ \E j \in IdsOf(rows) \ removed : stored.loads[j] >= stored.loads[i]
    BY <2>1 DEF KeepsHighestLoad
  <2>3. CASE stored.loads[i] = 0
    BY <1>1, <1>10, <2>3
  <2>4. ASSUME NEW j \in IdsOf(rows) \ removed, stored.loads[j] >= stored.loads[i]
        PROVE  j \in IdsOf(pool) /\ many[j] >= many[i]
    BY <1>1, <1>4, <1>10, <2>4
  <2> QED
    BY <2>2, <2>3, <2>4
<1>12. LoadsThinned(c, rows, pool, many, few)
  BY <1>3, <1>9, <1>11 DEF LoadsThinned
<1> QED
  BY <1>1, <1>12 DEF rows, many, few

(* BystanderRemovalChangesNothing: whatever the rules, the weights and the   *)
(* loads, removing partners who were chosen for nothing leaves every         *)
(* allocation where it is, unless fairness is scored and the highest load    *)
(* goes with them.                                                           *)
THEOREM BystandersAreIdle == Spec => []BystanderRemovalChangesNothing
<1>1. WInv => BystanderRemovalChangesNothing
  <2> SUFFICES ASSUME WInv, Answered, Len(spec) = 1, spec[1].type = "partner_pool",
                      UniqueRows(stored.partners),
                      spec[1].add = <<>>, spec[1].modify = <<>>,
                      \A o \in DOMAIN AsStored : AsStored[o] \notin spec[1].remove,
                      FairnessScored(stored.config) => KeepsHighestLoad(spec[1].remove)
               PROVE  reply.allocations = AsStored
    BY DEF BystanderRemovalChangesNothing, FairnessScored
  <2> DEFINE m == spec[1]
             removed == m.remove
             c == stored.config
             rows == stored.partners
             orders == stored.orders
             pool == Pool(rows, m)
             w == ResolvedWeights(c)
             many == ReplayLoads(rows)
             few == ReplayLoads(pool)
             run == Evaluate(c, w, orders, rows, many)
  <2>1. StoredWell /\ MutatedWell /\ AnsweredWell
    BY WhenStored
  <2>2. config = c /\ snapshot = pool
    BY <2>1 DEF MutatedWell, AnsweredWell, AfterOne
  <2>3. /\ IsConfig(c) /\ Builds(c) /\ IsOrders(orders) /\ IsRows(rows)
        /\ many = BaseLoads /\ BaseLoads \in [IdsOf(Partners) -> Nat] /\ IsRows(pool)
    BY <2>1, <2>2, WhenStored, StoredFacts, ReplayedLoads DEF MutatedWell
  <2>4. AsStored = run.chosen
    BY DEF AsStored, Simulated
  <2>5. reply.allocations = Evaluate(c, w, orders, pool, few).chosen
    BY <2>1, <2>2 DEF AnsweredWell, Simulated
  <2>6. Thinned(rows, pool, removed)
    <3>1. Increasing(rows, Len(payload.partners))
      BY <2>1, StoredIncrease
    <3> QED
      BY <2>3, <3>1, PoolIsThinned
  <2>7. LoadsThinned(c, rows, pool, StartLoads(rows, many), StartLoads(pool, few))
    <3>1. FairnessScored(c) => KeepsHighestLoad(removed)
      OBVIOUS
    <3> HIDE DEF pool, removed
    <3> QED
      BY <2>1, <2>6, <3>1, LoadsAreThinned
  <2>8. \A i \in DOMAIN many : many[i] \in Int
    BY <2>3
  <2>9. \A n \in DOMAIN w : w[n] \in Int
    BY <2>3, ResolvedType
  <2>10. Len(orders) \in Nat /\ \A o \in 1..Len(orders) : orders[o].pos \in Int
    BY <2>3 DEF IsOrders
  <2>11. \A o \in 1..Len(orders) : run.chosen[o] \notin removed
    <3>1. RunAt(run, Len(orders), c, w, orders, rows)
      BY <2>3, <2>8, RunFacts
    <3>2. DOMAIN run.chosen = 1..Len(orders)
      <4> HIDE DEF run
      <4> QED
        BY <2>3, <3>1, RunShape
    <3>3. \A o \in DOMAIN AsStored : AsStored[o] \notin removed
      OBVIOUS
    <3> HIDE DEF run, removed
    <3> QED
      BY <2>4, <3>2, <3>3
  <2> HIDE DEF m, removed, c, rows, orders, pool, w, many, few
  <2>12. Evaluate(c, w, orders, pool, few).chosen = run.chosen
    <3>1. CASE \E e \in EnabledEntries(c.scoring) : Raises(e)
      <4>1. run.chosen = [o \in 1..Len(orders) |-> None]
        BY <2>10, <3>1, RaisingChoosesNobody
      <4>2. Evaluate(c, w, orders, pool, few).chosen = [o \in 1..Len(orders) |-> None]
        BY <2>10, <3>1, RaisingChoosesNobody
      <4> QED
        BY <4>1, <4>2
    <3>2. CASE \A e \in EnabledEntries(c.scoring) : ~Raises(e)
      <4>1. \A o \in 1..Len(orders) : Calculable(c, w, orders[o])
        BY <2>3, <2>9, <2>10, <3>2 DEF Calculable, Builds
      <4> QED
        BY <2>3, <2>6, <2>7, <2>8, <2>11, <4>1, ThinnedRuns
    <3> QED
      BY <3>1, <3>2
  <2> QED
    BY <2>4, <2>5, <2>12
<1> QED
  BY <1>1, DecisionInvariant, PTL

=============================================================================
