---------------------------- MODULE Pipeline_proofs ----------------------------
(***************************************************************************)
(* What the pipeline does with the loads, whom it chooses, and how that    *)
(* agrees with the handler's ranking, for any payload, any number of       *)
(* orders and partners, any scores, weights and capacity.                  *)
(***************************************************************************)
EXTENDS Pipeline, FiniteSetTheorems, WellFoundedInduction, TLAPS

LEMMA AtLeastBounds ==
  ASSUME NEW n \in Int, NEW x \in Int
  PROVE  AtLeast(n, x) \in Int /\ AtLeast(n, x) >= n /\ AtLeast(n, x) >= x
BY DEF AtLeast

LEMMA InitialLoadIsNat ==
  ASSUME payload \in Payloads, NEW i \in Ids
  PROVE  InitialLoad(i) \in Nat
<1>1. payload.load[i] \in Int
  BY PipelineAssumption DEF PayloadType
<1> QED
  BY <1>1 DEF InitialLoad, AtLeast

LEMMA CountsAreFinite ==
  ASSUME NEW i, NEW o
  PROVE  IsFiniteSet(OrdersOf(i, o)) /\ Cardinality(OrdersOf(i, o)) \in Nat
<1>1. IsFiniteSet(OrderRows)
  BY PipelineAssumption, FS_Interval DEF OrderRows
<1>2. OrdersOf(i, o) \in SUBSET OrderRows
  BY DEF OrdersOf
<1> QED
  BY <1>1, <1>2, FS_Subset, FS_CardinalityType

LEMMA RowsHaveIds == \A r \in PartnerRows : PartnerId[r] \in Ids
BY DEF Ids

(* An order that ends without a partner leaves all counts as they are.      *)
LEMMA CountsUnallocated ==
  ASSUME LoadInv, LeaveUnallocated, NEW i \in Ids
  PROVE  OrdersOf(i, order)' = OrdersOf(i, order)
<1>1. order \in OrderRows /\ order' = order + 1 /\ choice' = choice /\ choice[order] = NoRow
  BY PipelineAssumption DEF LoadInv, TypeOK, LeaveUnallocated, NextOrder, OrderRows
<1>2. ASSUME NEW q \in OrderRows PROVE (q < order + 1 /\ choice[q] # NoRow) <=> (q < order /\ choice[q] # NoRow)
  BY <1>1, PipelineAssumption DEF OrderRows
<1> QED
  BY <1>1, <1>2 DEF OrdersOf

(* An allocation adds the order to those of the partner chosen, and to      *)
(* nobody else's.                                                           *)
LEMMA CountsAllocated ==
  ASSUME LoadInv, Allocate, NEW i \in Ids
  PROVE  Cardinality(OrdersOf(i, order)') =
           Cardinality(OrdersOf(i, order)) + IF i = PartnerId[best] THEN 1 ELSE 0
<1>1. /\ order \in OrderRows /\ order' = order + 1 /\ best # NoRow
      /\ choice' = [choice EXCEPT ![order] = best]
      /\ choice \in [OrderRows -> PartnerRows \cup {NoRow}]
  BY PipelineAssumption DEF LoadInv, TypeOK, Allocate, NextOrder, OrderRows
<1>2. ASSUME NEW q \in OrderRows
      PROVE  q < order + 1 <=> q < order \/ q = order
  BY <1>1 DEF OrderRows
<1>3. order \notin OrdersOf(i, order)
  BY <1>1 DEF OrdersOf, OrderRows
<1>4. CASE i = PartnerId[best]
  <2>1. OrdersOf(i, order)' = OrdersOf(i, order) \cup {order}
    BY <1>1, <1>2, <1>4 DEF OrdersOf
  <2> QED
    BY <1>3, <1>4, <2>1, CountsAreFinite, FS_AddElement
<1>5. CASE i # PartnerId[best]
  <2>0. ASSUME NEW q \in OrderRows
        PROVE  q < order' /\ choice'[q] # NoRow /\ PartnerId[choice'[q]] = i
                  <=> q < order /\ choice[q] # NoRow /\ PartnerId[choice[q]] = i
    <3>1. CASE q = order
      BY <1>1, <1>5, <3>1 DEF OrderRows
    <3>2. CASE q # order
      BY <1>1, <1>2, <3>2
    <3> QED
      BY <3>1, <3>2
  <2>1. OrdersOf(i, order)' = OrdersOf(i, order)
    BY <2>0 DEF OrdersOf
  <2>2. Cardinality(OrdersOf(i, order)) \in Nat
    BY CountsAreFinite
  <2> QED
    BY <1>5, <2>1, <2>2
<1> QED
  BY <1>4, <1>5

(* Nothing changes for an order while its partners are looked at.           *)
LEMMA CountsUnchanged ==
  ASSUME UNCHANGED <<payload, order, choice>>, NEW i
  PROVE  OrdersOf(i, order)' = OrdersOf(i, order) /\ InitialLoad(i)' = InitialLoad(i)
BY DEF OrdersOf, InitialLoad

-----------------------------------------------------------------------------
LEMMA LoadInit == Init => LoadInv
<1> SUFFICES ASSUME Init PROVE LoadInv
  OBVIOUS
<1>1. payload \in Payloads
  BY DEF Init
<1>2. TypeOK
  BY <1>1, PipelineAssumption, InitialLoadIsNat DEF Init, TypeOK, NoRow
<1>3. ASSUME NEW i \in Ids PROVE OrdersOf(i, order) = {} /\ Cardinality(OrdersOf(i, order)) = 0
  BY FS_EmptySet DEF Init, OrdersOf, OrderRows
<1>4. \A i \in Ids : loads[i] = InitialLoad(i) + Cardinality(OrdersOf(i, order))
  BY <1>1, <1>3, InitialLoadIsNat DEF Init
<1>5. CapacityRespected
  <2> SUFFICES ASSUME NEW i \in Ids
               PROVE InitialLoad(i) + Cardinality(OrdersOf(i, order)) <= AtLeast(Capacity, InitialLoad(i))
    BY DEF CapacityRespected
  <2>1. Capacity \in Int
    BY PipelineAssumption, AtLeastBounds DEF Capacity
  <2> QED
    BY <1>1, <1>3, <2>1, InitialLoadIsNat, AtLeastBounds
<1> QED
  BY <1>2, <1>4, <1>5 DEF Init, LoadInv, EligibleFromTheStart, NoRow

LEMMA LoadStep == LoadInv /\ [Next]_vars => LoadInv'
<1> SUFFICES ASSUME LoadInv, [Next]_vars PROVE LoadInv'
  OBVIOUS
<1> USE PipelineAssumption
<1>1. Capacity \in Int /\ Capacity' = Capacity
  BY AtLeastBounds DEF Capacity
<1>2. ASSUME UNCHANGED <<payload, order, choice, loads>> PROVE CapacityRespected' /\ (\A i \in Ids : loads'[i] = InitialLoad(i)' + Cardinality(OrdersOf(i, order)'))
  BY <1>1, <1>2, CountsUnchanged DEF LoadInv, CapacityRespected
<1>3. CASE Filter
  BY <1>2, <1>3 DEF LoadInv, TypeOK, Filter, Evaluating, EligibleFromTheStart, BelowCapacity, Capacity, InitialLoad
<1>4. CASE ScoreRow
  <2>0. /\ order \in OrderRows /\ row \in PartnerRows /\ row \in Nat
        /\ PartnerId[row] \in Ids
    BY <1>4, RowsHaveIds DEF LoadInv, TypeOK, ScoreRow, Evaluating, OrderRows, PartnerRows
  <2>1. TypeOK'
    BY <1>4, <2>0 DEF LoadInv, TypeOK, ScoreRow, Evaluating
  <2>2. (best # NoRow => best \in eligible[order] /\ order <= NumOrders)'
    BY <1>4, <2>0 DEF LoadInv, TypeOK, ScoreRow, Evaluating
  <2>3. (CapacityOn /\ best # NoRow => BelowCapacity(PartnerId[best]))'
    BY <1>4 DEF LoadInv, ScoreRow, Passes, BelowCapacity, Capacity
  <2>4. CapacityOn => InitialLoad(PartnerId[row]) < Capacity
    <3> SUFFICES ASSUME CapacityOn PROVE InitialLoad(PartnerId[row]) < Capacity
      OBVIOUS
    <3>1. loads[PartnerId[row]] < Capacity
      BY <1>4 DEF ScoreRow, Passes, BelowCapacity
    <3> QED
      BY <1>1, <2>0, <3>1, InitialLoadIsNat, CountsAreFinite DEF LoadInv, TypeOK
  <2>5. EligibleFromTheStart'
    <3> SUFFICES ASSUME CapacityOn, NEW o \in OrderRows, NEW r \in eligible'[o]
                 PROVE  InitialLoad(PartnerId[r])' < Capacity'
      BY DEF EligibleFromTheStart
    <3>1. r \in eligible[o] \/ r = row
      BY <1>4, <2>0 DEF ScoreRow, LoadInv, TypeOK
    <3>2. InitialLoad(PartnerId[r])' = InitialLoad(PartnerId[r])
      BY <1>4 DEF ScoreRow, InitialLoad
    <3> QED
      BY <1>1, <2>4, <3>1, <3>2 DEF LoadInv, EligibleFromTheStart
  <2> QED
    BY <1>2, <1>4, <2>1, <2>2, <2>3, <2>5 DEF LoadInv, ScoreRow
<1>5. ASSUME NextOrder, choice' = choice \/ (best # NoRow /\ choice' = [choice EXCEPT ![order] = best])
      PROVE  /\ order \in OrderRows /\ order' = order + 1
             /\ \A o \in OrderRows : o >= order' => choice'[o] = NoRow
             /\ choice' \in [OrderRows -> PartnerRows \cup {NoRow}]
             /\ EligibleFromTheStart'
             /\ best' = NoRow
             /\ payload' = payload
             /\ row' \in 1..(NumRows + 1) /\ order' \in 1..(NumOrders + 1)
             /\ eligible' \in [OrderRows -> SUBSET PartnerRows]
  BY <1>5 DEF LoadInv, TypeOK, NextOrder, EligibleFromTheStart, InitialLoad, Capacity, OrderRows
<1>6. CASE Allocate
  <2>1. /\ best \in PartnerRows /\ PartnerId[best] \in Ids
        /\ loads' = [loads EXCEPT ![PartnerId[best]] = @ + 1]
        /\ loads \in [Ids -> Nat]
    BY <1>6, RowsHaveIds DEF LoadInv, TypeOK, Allocate
  <2>2. \A i \in Ids : InitialLoad(i)' = InitialLoad(i) /\ InitialLoad(i) \in Nat
    BY <1>6, InitialLoadIsNat DEF Allocate, NextOrder, InitialLoad, LoadInv, TypeOK
  <2>3. \A i \in Ids : loads'[i] = InitialLoad(i)' + Cardinality(OrdersOf(i, order)')
    BY <1>6, <2>1, <2>2, CountsAllocated, CountsAreFinite DEF LoadInv
  <2>4. CapacityRespected'
    <3> SUFFICES ASSUME CapacityOn, NEW i \in Ids
                 PROVE  loads'[i] <= AtLeast(Capacity, InitialLoad(i))
      BY <1>1, <2>2, <2>3 DEF CapacityRespected, AtLeast
    <3>1. CASE i = PartnerId[best]
      <4>1. loads[i] \in Nat /\ loads[i] < Capacity /\ loads'[i] = loads[i] + 1
        BY <1>6, <2>1, <3>1 DEF LoadInv, Allocate, BelowCapacity
      <4>2. Capacity <= AtLeast(Capacity, InitialLoad(i)) /\ AtLeast(Capacity, InitialLoad(i)) \in Int
        <5>1. InitialLoad(i) \in Int /\ Capacity \in Int
          BY <1>1, <2>2
        <5> QED
          BY <5>1 DEF AtLeast
      <4> QED
        BY <1>1, <4>1, <4>2
    <3>2. CASE i # PartnerId[best]
      BY <2>1, <3>2 DEF LoadInv, CapacityRespected
    <3> QED
      BY <3>1, <3>2
  <2> QED
    BY <1>5, <1>6, <2>1, <2>3, <2>4 DEF LoadInv, TypeOK, Allocate
<1>7. CASE LeaveUnallocated
  <2>1. \A i \in Ids : InitialLoad(i)' = InitialLoad(i)
    BY <1>7 DEF LeaveUnallocated, NextOrder, InitialLoad
  <2>2. \A i \in Ids : OrdersOf(i, order)' = OrdersOf(i, order)
    BY <1>7, CountsUnallocated
  <2>3. CapacityRespected' /\ \A i \in Ids : loads'[i] = InitialLoad(i)' + Cardinality(OrdersOf(i, order)')
    BY <1>1, <1>7, <2>1, <2>2 DEF LoadInv, CapacityRespected, LeaveUnallocated
  <2> QED
    BY <1>5, <1>7, <2>3 DEF LoadInv, TypeOK, LeaveUnallocated
<1>8. CASE UNCHANGED vars
  BY <1>2, <1>8 DEF vars, LoadInv, TypeOK, EligibleFromTheStart, BelowCapacity, Capacity, InitialLoad
<1> QED
  BY <1>3, <1>4, <1>6, <1>7, <1>8 DEF Next

-----------------------------------------------------------------------------
(* With the capacity rule enabled, a payload as a whole takes no partner    *)
(* above its capacity, however many of its orders want the same partner.    *)
THEOREM CapacityHolds == Spec => []CapacityRespected
<1>1. LoadInv => CapacityRespected
  BY DEF LoadInv
<1> QED
  BY <1>1, LoadInit, LoadStep, PTL DEF Spec

(* Whoever is eligible for any order of the payload was below capacity      *)
(* before it: one order for each such partner, which is all the handler     *)
(* ever gives, stays within capacity even where it departs from the choice. *)
THEOREM EligibleAtStart == Spec => []EligibleFromTheStart
<1>1. LoadInv => EligibleFromTheStart
  BY DEF LoadInv
<1> QED
  BY <1>1, LoadInit, LoadStep, PTL DEF Spec

(* Types of the loops, the loads and the trace. *)
THEOREM PipelineTypes == Spec => []TypeOK
<1>1. LoadInv => TypeOK
  BY DEF LoadInv
<1> QED
  BY <1>1, LoadInit, LoadStep, PTL DEF Spec

-----------------------------------------------------------------------------
(* Whom the pipeline chooses.                                              *)


(* A finite set of integers has a greatest element: otherwise there is a    *)
(* smallest set that has none, and an element can be taken from it.         *)
LEMMA FiniteMaximum ==
  ASSUME NEW S, IsFiniteSet(S), S # {}, S \subseteq Int
  PROVE  \E m \in S : \A x \in S : x <= m
<1> DEFINE HasMax(T) == \E m \in T : \A x \in T : x <= m
           Bad == {T \in SUBSET S : T # {} /\ ~HasMax(T)}
<1>1. SUFFICES ASSUME ~HasMax(S) PROVE FALSE
  OBVIOUS
<1>2. IsWellFoundedOn(StrictSubsetOrdering(S), SUBSET S)
  BY FS_StrictSubsetOrderingWellFounded, FS_FiniteSubsetsOfFinite
<1>3. Bad # {} /\ Bad \subseteq SUBSET S
  BY <1>1
<1>4. PICK T \in Bad : \A U \in Bad : ~(<<U, T>> \in StrictSubsetOrdering(S))
  <2> HIDE DEF Bad
  <2> QED
    BY <1>2, <1>3, WFMin
<1>5. T \in SUBSET S /\ T # {} /\ ~HasMax(T)
  BY <1>4
<1>6. PICK x \in T : TRUE
  BY <1>5
<1> DEFINE U == T \ {x}
<1>7. <<U, T>> \in StrictSubsetOrdering(S)
  BY <1>5, <1>6 DEF StrictSubsetOrdering
<1>8. U = {} \/ HasMax(U)
  BY <1>4, <1>5, <1>7
<1>9. CASE U = {}
  <2>1. \A y \in T : y = x
    BY <1>9
  <2>2. x \in Int
    BY <1>5
  <2> QED
    BY <1>5, <1>6, <2>1, <2>2
<1>10. CASE HasMax(U)
  <2>1. PICK m \in U : \A y \in U : y <= m
    BY <1>10
  <2>2. m \in T /\ m \in Int /\ x \in Int /\ \A y \in T : y \in Int /\ (y = x \/ y <= m)
    BY <1>5, <2>1
  <2>3. CASE x <= m
    BY <1>5, <2>2, <2>3
  <2>4. CASE ~(x <= m)
    <3>1. \A y \in T : y <= x
      BY <2>2, <2>4
    <3> QED
      BY <1>5, <1>6, <3>1
  <2> QED
    BY <2>3, <2>4
<1> QED
  BY <1>8, <1>9, <1>10

LEMMA IdsAreFinite == IsFiniteSet(Ids)
<1>1. IsFiniteSet(PartnerRows) /\ PartnerRows \subseteq Nat
  BY PipelineAssumption, FS_Interval DEF PartnerRows
<1>2. [r \in PartnerRows |-> PartnerId[r]] \in Surjection(PartnerRows, Ids)
  BY DEF Surjection, Ids
<1> QED
  BY <1>1, <1>2, FS_Surjection

(* The fairness score is a score: the highest load it divides by exists. *)
LEMMA FairnessIsInt ==
  ASSUME NEW l \in [Ids -> Nat], NEW i \in Ids
  PROVE  FairnessScore(l, i) \in Int
<1> DEFINE L == {l[j] : j \in Ids}
           f == [j \in Ids |-> l[j]]
<1>1. f \in Surjection(Ids, L)
  BY DEF Surjection
<1>2. IsFiniteSet(L) /\ L # {} /\ L \subseteq Int
  BY <1>1, IdsAreFinite, FS_Surjection
<1>3. \E m \in L : \A x \in L : x <= m
  <2> HIDE DEF L
  <2> QED
    BY <1>2, FiniteMaximum
<1>4. \E m \in L : \A j \in Ids : l[j] <= m
  BY <1>3
<1>5. Highest(l) \in L /\ \A j \in Ids : l[j] <= Highest(l)
  BY <1>4 DEF Highest
<1>6. Highest(l) \in Nat /\ l[i] \in Nat
  BY <1>5
<1>7. One \in Int
  BY PipelineAssumption
<1>8. CASE Highest(l) = 0
  BY <1>7, <1>8 DEF FairnessScore
<1>9. CASE Highest(l) # 0
  <2>1. ASSUME NEW h \in Nat, NEW d \in Int, h # 0 PROVE (One * d) \div h \in Int
    BY <1>7, <2>1
  <2>2. Highest(l) - l[i] \in Int
    BY <1>6
  <2> QED
    BY <1>6, <1>9, <2>1, <2>2 DEF FairnessScore
<1> QED
  BY <1>8, <1>9

LEMMA WeightedIsInt ==
  ASSUME payload \in Payloads, NEW l \in [Ids -> Nat],
         NEW o \in OrderRows, NEW r \in PartnerRows
  PROVE  WeightedAt(l, o, r) \in Int
<1>1. payload.base[<<o, r>>] \in Int
  BY PipelineAssumption DEF PayloadType
<1>2. FairnessScore(l, PartnerId[r]) \in Int /\ FairWeight \in Int
  BY FairnessIsInt, RowsHaveIds, PipelineAssumption
<1> QED
  BY <1>1, <1>2 DEF WeightedAt

-----------------------------------------------------------------------------
(* The loads an order was evaluated under do not change any more. *)
LEMMA LoadsKeep ==
  ASSUME LoadInv, [Next]_vars, NEW o \in OrderRows, o <= order
  PROVE  LoadsBefore(o)' = LoadsBefore(o)
<1>1. payload' = payload /\ order \in Nat /\ o \in Nat
  BY PipelineAssumption
  DEF Next, Filter, ScoreRow, Allocate, LeaveUnallocated, NextOrder, vars, LoadInv, TypeOK, OrderRows
<1>2. \A q \in OrderRows : q < o => choice'[q] = choice[q]
  <2>1. choice \in [OrderRows -> PartnerRows \cup {NoRow}] /\ \A q \in OrderRows : q \in Nat
    BY DEF LoadInv, TypeOK, OrderRows
  <2>2. CASE Allocate
    BY <1>1, <2>1, <2>2 DEF Allocate
  <2>3. CASE ~Allocate
    <3>1. choice' = choice
      BY <2>3 DEF Next, Filter, ScoreRow, LeaveUnallocated, vars
    <3> QED
      BY <3>1
  <2> QED
    BY <2>2, <2>3
<1>3. \A i \in Ids : OrdersOf(i, o)' = OrdersOf(i, o) /\ InitialLoad(i)' = InitialLoad(i)
  BY <1>1, <1>2 DEF OrdersOf, InitialLoad
<1> QED
  BY <1>3 DEF LoadsBefore

LEMMA LoadsNow ==
  ASSUME LoadInv
  PROVE  loads = LoadsBefore(order)
BY DEF LoadInv, TypeOK, LoadsBefore

LEMMA RecordedStay ==
  ASSUME ScoreInv, [Next]_vars, NEW o \in OrderRows, NEW r \in eligible[o]
  PROVE  WeightedAt(LoadsBefore(o), o, r)' = WeightedAt(LoadsBefore(o), o, r)
<1>1. o <= order /\ LoadInv
  BY DEF ScoreInv, ScoresRecorded
<1>2. payload' = payload
  BY DEF Next, Filter, ScoreRow, Allocate, LeaveUnallocated, NextOrder, vars
<1>3. LoadsBefore(o)' = LoadsBefore(o)
  BY <1>1, LoadsKeep
<1> QED
  BY <1>2, <1>3 DEF WeightedAt, FairnessScore, Highest

-----------------------------------------------------------------------------
LEMMA ScoreInit == Init => ScoreInv
<1> SUFFICES ASSUME Init PROVE ScoreInv
  OBVIOUS
<1>1. LoadInv
  BY LoadInit
<1>2. /\ score \in [OrderRows -> [PartnerRows -> Int]] /\ best_score \in Int
      /\ \A o \in OrderRows : eligible[o] = {} /\ choice[o] = NoRow
      /\ best = NoRow /\ order = 1
  BY PipelineAssumption DEF Init
<1>3. BestSoFar
  <2>1. order <= NumOrders => order \in OrderRows
    BY <1>2, PipelineAssumption DEF OrderRows
  <2> QED
    BY <1>2, <2>1 DEF BestSoFar
<1> QED
  BY <1>1, <1>2, <1>3 DEF ScoreInv, ScoresRecorded, ChosenByScore

(* A row that is scored joins the eligible ones. *)
LEMMA ScoreRowStep ==
  ASSUME ScoreInv, LoadInv', ScoreRow
  PROVE  ScoreInv'
<1> DEFINE w == Weighted(order, row)
<1>0. /\ order \in OrderRows /\ row \in PartnerRows /\ row \in Nat /\ order \in Nat
      /\ order <= NumOrders
      /\ eligible \in [OrderRows -> SUBSET PartnerRows]
      /\ score \in [OrderRows -> [PartnerRows -> Int]] /\ best_score \in Int
      /\ best \in PartnerRows \cup {NoRow} /\ payload \in Payloads /\ loads \in [Ids -> Nat]
      /\ LoadInv
  <2>1. LoadInv /\ TypeOK /\ order <= NumOrders /\ row <= NumRows
    BY DEF ScoreInv, LoadInv, ScoreRow, Evaluating
  <2>2. order \in OrderRows /\ row \in PartnerRows /\ row \in Nat /\ order \in Nat
    BY <2>1, PipelineAssumption DEF TypeOK, OrderRows, PartnerRows
  <2>3. score \in [OrderRows -> [PartnerRows -> Int]] /\ best_score \in Int
    BY DEF ScoreInv
  <2> QED
    BY <2>1, <2>2, <2>3 DEF TypeOK
<1>1. w \in Int /\ w = WeightedAt(LoadsBefore(order), order, row)
  BY <1>0, WeightedIsInt, LoadsNow DEF Weighted
<1>2. /\ eligible' = [eligible EXCEPT ![order] = @ \cup {row}]
      /\ score' = [score EXCEPT ![order][row] = w]
      /\ IF w > best_score THEN best' = row /\ best_score' = w
                           ELSE best' = best /\ best_score' = best_score
      /\ row' = row + 1
      /\ UNCHANGED <<payload, order, loads, choice>>
  BY DEF ScoreRow
<1>3. ASSUME NEW o, NEW r, o = order, r = row
      PROVE  WeightedAt(LoadsBefore(o), o, r)' = w
  <2>1. LoadsBefore(o)' = LoadsBefore(o)
    BY <1>2 DEF LoadsBefore, OrdersOf, InitialLoad
  <2>2. WeightedAt(LoadsBefore(o), o, r)' = WeightedAt(LoadsBefore(o), o, r)
    BY <1>2, <2>1 DEF WeightedAt, FairnessScore, Highest
  <2> HIDE DEF w
  <2> QED
    BY <1>1, <1>3, <2>2
<1>4. row \notin eligible[order]
  BY <1>0 DEF ScoreInv, BestSoFar
<1> HIDE DEF w
<1>5. /\ score' \in [OrderRows -> [PartnerRows -> Int]] /\ best_score' \in Int
      /\ score'[order][row] = w
      /\ \A r \in PartnerRows : r # row => score'[order][r] = score[order][r]
      /\ \A o \in OrderRows : o # order => score'[o] = score[o] /\ eligible'[o] = eligible[o]
      /\ eligible'[order] = eligible[order] \cup {row}
  BY <1>0, <1>1, <1>2
<1>6. ScoresRecorded'
  <2> SUFFICES ASSUME NEW o \in OrderRows, NEW r \in eligible'[o]
               PROVE  o <= order' /\ score'[o][r] = WeightedAt(LoadsBefore(o), o, r)'
    BY DEF ScoresRecorded
  <2>1. CASE r \in eligible[o]
    <3>1. score'[o][r] = score[o][r]
      BY <1>0, <1>4, <1>5, <2>1
    <3>2. WeightedAt(LoadsBefore(o), o, r)' = WeightedAt(LoadsBefore(o), o, r)
      BY <2>1, RecordedStay DEF Next
    <3> QED
      BY <1>2, <2>1, <3>1, <3>2 DEF ScoreInv, ScoresRecorded
  <2>2. CASE o = order /\ r = row
    BY <1>0, <1>2, <1>3, <1>5, <2>2
  <2> QED
    BY <1>5, <2>1, <2>2
<1>7. BestSoFar'
  <2>1. \A r \in eligible[order] :
          /\ r < row /\ r \in Nat /\ r \in PartnerRows
          /\ score[order][r] \in Int /\ score'[order][r] = score[order][r]
          /\ score[order][r] < best_score \/ (score[order][r] = best_score /\ best <= r)
    <3> SUFFICES ASSUME NEW r \in eligible[order]
                 PROVE  /\ r < row /\ r \in Nat /\ r \in PartnerRows
                        /\ score[order][r] \in Int /\ score'[order][r] = score[order][r]
                        /\ \/ score[order][r] < best_score
                           \/ score[order][r] = best_score /\ best <= r
      OBVIOUS
    <3>1. r \in PartnerRows /\ r \in Nat /\ r # row
      BY <1>0, <1>4 DEF PartnerRows
    <3>2. score[order] \in [PartnerRows -> Int]
      BY <1>0
    <3>3. /\ r < row
          /\ score[order][r] < best_score \/ (score[order][r] = best_score /\ best <= r)
      BY <1>0 DEF ScoreInv, BestSoFar
    <3> QED
      BY <1>5, <3>1, <3>2, <3>3
  <2>2. best # NoRow => best \in eligible[order] /\ best_score = score[order][best]
    BY <1>0 DEF ScoreInv, BestSoFar, LoadInv
  <2>3. best \in Nat
    BY <1>0 DEF PartnerRows, NoRow
  <2>4. CASE w > best_score
    <3>1. best' = row /\ best_score' = w
      BY <1>2, <2>4
    <3>2. \A r \in eligible'[order] :
            /\ r < row' /\ (score'[order][r] < w \/ (score'[order][r] = w /\ row <= r))
      BY <1>0, <1>1, <1>2, <1>5, <2>1, <2>4
    <3> QED
      BY <1>2, <1>5, <3>1, <3>2 DEF BestSoFar
  <2>5. CASE ~(w > best_score)
    <3>1. best' = best /\ best_score' = best_score
      BY <1>2, <2>5
    <3>2. best <= row
      BY <1>0, <2>1, <2>2, <2>3 DEF NoRow
    <3>3. \A r \in eligible'[order] :
            /\ r < row'
            /\ score'[order][r] < best_score \/ (score'[order][r] = best_score /\ best <= r)
      BY <1>0, <1>1, <1>2, <1>5, <2>1, <2>5, <3>2
    <3>4. best # NoRow => best_score = score'[order][best]
      BY <2>1, <2>2
    <3> QED
      BY <1>2, <3>1, <3>3, <3>4 DEF BestSoFar
  <2> QED
    BY <2>4, <2>5
<1>8. ChosenByScore'
  <2> SUFFICES ASSUME NEW o \in OrderRows, o < order, choice[o] # NoRow
               PROVE  /\ choice[o] \in eligible'[o]
                      /\ \A r \in eligible'[o] :
                            \/ score'[o][choice[o]] > score'[o][r]
                            \/ score'[o][choice[o]] = score'[o][r] /\ choice[o] <= r
    BY <1>2 DEF ChosenByScore, Closed
  <2>1. score'[o] = score[o] /\ eligible'[o] = eligible[o]
    BY <1>0, <1>5 DEF OrderRows
  <2> QED
    BY <2>1 DEF ScoreInv, ChosenByScore, Closed
<1> QED
  BY <1>5, <1>6, <1>7, <1>8 DEF ScoreInv

(* With the last row of an order its best so far is its choice. *)
LEMMA OrderEndsStep ==
  ASSUME ScoreInv, LoadInv', Allocate \/ LeaveUnallocated
  PROVE  ScoreInv'
<1>0. /\ order \in OrderRows /\ order \in Nat /\ order <= NumOrders
      /\ eligible \in [OrderRows -> SUBSET PartnerRows]
      /\ choice \in [OrderRows -> PartnerRows \cup {NoRow}]
      /\ score \in [OrderRows -> [PartnerRows -> Int]]
      /\ LoadInv /\ choice[order] = NoRow
  BY PipelineAssumption
  DEF ScoreInv, LoadInv, TypeOK, Allocate, LeaveUnallocated, NextOrder, OrderRows
<1>1. /\ order' = order + 1 /\ best' = NoRow /\ best_score' = -One /\ best_score' \in Int
      /\ UNCHANGED <<payload, eligible, score>>
      /\ \A o \in OrderRows : o # order => choice'[o] = choice[o]
      /\ choice'[order] = best
  <2>1. -One \in Int
    BY PipelineAssumption
  <2> QED
    BY <1>0, <2>1 DEF Allocate, LeaveUnallocated, NextOrder
<1>2. ScoresRecorded'
  <2> SUFFICES ASSUME NEW o \in OrderRows, NEW r \in eligible[o]
               PROVE  o <= order' /\ score[o][r] = WeightedAt(LoadsBefore(o), o, r)'
    BY <1>1 DEF ScoresRecorded
  <2>1. WeightedAt(LoadsBefore(o), o, r)' = WeightedAt(LoadsBefore(o), o, r)
    BY RecordedStay DEF Next
  <2>2. o <= order /\ o \in Nat /\ score[o][r] = WeightedAt(LoadsBefore(o), o, r)
    BY DEF ScoreInv, ScoresRecorded, OrderRows
  <2> QED
    BY <1>0, <1>1, <2>1, <2>2
<1>3. BestSoFar'
  <2> SUFFICES ASSUME order + 1 <= NumOrders PROVE eligible[order + 1] = {}
    BY <1>1 DEF BestSoFar
  <2>1. order + 1 \in OrderRows /\ ~(order + 1 <= order)
    BY <1>0 DEF OrderRows
  <2>2. \A r \in eligible[order + 1] : FALSE
    BY <2>1 DEF ScoreInv, ScoresRecorded
  <2> QED
    BY <2>2
<1>4. ChosenByScore'
  <2> SUFFICES ASSUME NEW o \in OrderRows, o < order + 1, choice'[o] # NoRow
               PROVE  /\ choice'[o] \in eligible[o]
                      /\ \A r \in eligible[o] :
                            \/ score[o][choice'[o]] > score[o][r]
                            \/ score[o][choice'[o]] = score[o][r] /\ choice'[o] <= r
    BY <1>1 DEF ChosenByScore, Closed
  <2>1. CASE o = order
    <3>1. best \in eligible[order] /\ best_score = score[order][best] /\ best_score \in Int
      BY <1>0, <1>1, <2>1 DEF ScoreInv, BestSoFar, LoadInv
    <3>2. \A r \in eligible[order] :
            /\ score[order][r] \in Int
            /\ score[order][r] < best_score \/ (score[order][r] = best_score /\ best <= r)
      BY <1>0 DEF ScoreInv, BestSoFar
    <3> QED
      BY <1>1, <2>1, <3>1, <3>2
  <2>2. CASE o # order
    <3>1. o < order /\ choice'[o] = choice[o]
      BY <1>0, <1>1, <2>2 DEF OrderRows
    <3> QED
      BY <3>1 DEF ScoreInv, ChosenByScore, Closed
  <2> QED
    BY <2>1, <2>2
<1> QED
  BY <1>0, <1>1, <1>2, <1>3, <1>4 DEF ScoreInv

LEMMA ScoreStep == ScoreInv /\ [Next]_vars => ScoreInv'
<1> SUFFICES ASSUME ScoreInv, [Next]_vars PROVE ScoreInv'
  OBVIOUS
<1>1. LoadInv /\ LoadInv'
  BY LoadStep DEF ScoreInv
<1>2. CASE Filter \/ UNCHANGED vars
  <2>1. UNCHANGED <<payload, order, loads, best, best_score, eligible, score, choice>>
        /\ row \in Nat /\ row' \in {row, row + 1}
    BY <1>1, <1>2, PipelineAssumption DEF Filter, vars, LoadInv, TypeOK
  <2>2. ScoresRecorded'
    BY <2>1, RecordedStay DEF ScoreInv, ScoresRecorded
  <2>3. BestSoFar'
    <3>1. order <= NumOrders => order \in OrderRows
      BY <1>1, PipelineAssumption DEF LoadInv, TypeOK, OrderRows
    <3>2. order <= NumOrders => \A r \in eligible[order] : r \in Nat
      BY <1>1, <3>1 DEF LoadInv, TypeOK, PartnerRows
    <3> QED
      BY <2>1, <3>2 DEF ScoreInv, BestSoFar
  <2>4. ChosenByScore'
    BY <2>1 DEF ScoreInv, ChosenByScore, Closed
  <2> QED
    BY <1>1, <2>1, <2>2, <2>3, <2>4 DEF ScoreInv
<1> QED
  BY <1>1, <1>2, ScoreRowStep, OrderEndsStep DEF Next

-----------------------------------------------------------------------------
(* Every order the pipeline allocates goes to the partner that is best under *)
(* the loads it has left so far, whatever the weights and the loads.        *)
THEOREM ChoiceIsBest == Spec => []BestUnderCurrentLoads
<1>1. ScoreInv => BestUnderCurrentLoads
  <2> SUFFICES ASSUME ScoreInv, NEW o \in OrderRows, Closed(o), choice[o] # NoRow
               PROVE  /\ choice[o] \in eligible[o]
                      /\ \A r \in eligible[o] :
                           \/ WeightedAt(LoadsBefore(o), o, choice[o]) > WeightedAt(LoadsBefore(o), o, r)
                           \/ /\ WeightedAt(LoadsBefore(o), o, choice[o]) = WeightedAt(LoadsBefore(o), o, r)
                              /\ choice[o] <= r
    BY DEF BestUnderCurrentLoads
  <2>1. choice[o] \in eligible[o]
    BY DEF ScoreInv, ChosenByScore
  <2>2. \A r \in eligible[o] : score[o][r] = WeightedAt(LoadsBefore(o), o, r)
    BY DEF ScoreInv, ScoresRecorded
  <2> QED
    BY <2>1, <2>2 DEF ScoreInv, ChosenByScore
<1> QED
  BY <1>1, ScoreInit, ScoreStep, PTL DEF Spec

LEMMA RoundingKeepsOrder ==
  ASSUME NEW s \in Int, NEW t \in Int, s <= t
  PROVE  Rounded(s) \in Int /\ Rounded(t) \in Int /\ Rounded(s) <= Rounded(t)
<1>1. Grain \in Nat \ {0}
  BY PipelineAssumption
<1> DEFINE h == Grain \div 2
           a == Rounded(s)
           b == Rounded(t)
<1>2. h \in Int
  BY <1>1
<1> HIDE DEF h
<1>3. /\ a \in Int /\ Grain * a <= s + h /\ s + h < Grain * a + Grain
      /\ b \in Int /\ Grain * b <= t + h /\ t + h < Grain * b + Grain
  BY <1>1, <1>2 DEF Rounded, h
<1> HIDE DEF a, b
<1>4. SUFFICES ASSUME b + 1 <= a PROVE FALSE
  BY <1>3 DEF a, b
<1>5. Grain * (b + 1) <= Grain * a
  BY <1>1, <1>3, <1>4
<1>6. Grain * (b + 1) = Grain * b + Grain
  BY <1>1, <1>3
<1> QED
  BY <1>1, <1>2, <1>3, <1>5, <1>6

LEMMA EqualRoundedAreNear ==
  ASSUME NEW s \in Int, NEW t \in Int, Rounded(s) = Rounded(t)
  PROVE  t - s < Grain
<1>1. Grain \in Nat \ {0}
  BY PipelineAssumption
<1> DEFINE h == Grain \div 2
           a == Rounded(s)
<1>2. h \in Int
  BY <1>1
<1> HIDE DEF h
<1>3. a \in Int /\ Grain * a <= s + h /\ s + h < Grain * a + Grain
  BY <1>1, <1>2 DEF Rounded, h
<1>4. Grain * Rounded(t) <= t + h /\ t + h < Grain * Rounded(t) + Grain
  BY <1>1, <1>2 DEF Rounded, h
<1> HIDE DEF a
<1>5. t + h < Grain * a + Grain
  BY <1>4 DEF a
<1>6. Grain * a \in Int
  BY <1>1, <1>3
<1> DEFINE g == Grain * a
<1>7. g \in Int /\ g <= s + h /\ t + h < g + Grain
  BY <1>3, <1>5, <1>6
<1> HIDE DEF g
<1> QED
  BY <1>1, <1>2, <1>7

(* For every grain, weight and load: only a near tie of the pipeline's       *)
(* choice, with a smaller id, is tried before it.                           *)
THEOREM RankingAgrees == Spec => []OnlyNearTiesGoFirst
<1>1. ScoreInv => OnlyNearTiesGoFirst
  <2> SUFFICES ASSUME ScoreInv, NEW o \in OrderRows, Closed(o), choice[o] # NoRow,
                      NEW r \in eligible[o], RankedBefore(o, r, choice[o])
               PROVE  /\ r < choice[o]
                      /\ score[o][choice[o]] - score[o][r] \in 1..(Grain - 1)
    BY DEF OnlyNearTiesGoFirst
  <2>1. choice[o] \in PartnerRows /\ r \in PartnerRows
    BY DEF ScoreInv, LoadInv, TypeOK
  <2>2. score[o][choice[o]] \in Int /\ score[o][r] \in Int /\ choice[o] \in Nat /\ r \in Nat
    <3>1. score[o] \in [PartnerRows -> Int]
      BY DEF ScoreInv
    <3>2. choice[o] \in Nat /\ r \in Nat
      BY <2>1 DEF PartnerRows
    <3> QED
      BY <2>1, <3>1, <3>2
  <2>3. \/ score[o][choice[o]] > score[o][r]
        \/ score[o][choice[o]] = score[o][r] /\ choice[o] <= r
    BY DEF ScoreInv, ChosenByScore
  <2>4. /\ Rounded(score[o][r]) <= Rounded(score[o][choice[o]])
        /\ Rounded(score[o][r]) \in Int /\ Rounded(score[o][choice[o]]) \in Int
    BY <2>2, <2>3, RoundingKeepsOrder
  <2>5. Rounded(score[o][r]) = Rounded(score[o][choice[o]]) /\ r < choice[o]
    BY <2>4 DEF RankedBefore
  <2>6. score[o][choice[o]] - score[o][r] < Grain
    BY <2>2, <2>5, EqualRoundedAreNear
  <2> QED
    BY <2>2, <2>3, <2>5, <2>6, PipelineAssumption
<1> QED
  BY <1>1, ScoreInit, ScoreStep, PTL DEF Spec
=============================================================================
