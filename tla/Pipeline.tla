------------------------------- MODULE Pipeline -------------------------------
(***************************************************************************)
(* engine/pipeline.py, DeterministicAllocationPipeline.evaluate: a greedy  *)
(* pass over the sorted orders.  For each order every partner goes through *)
(* the hard rules; those who pass are scored, the best one gets the order, *)
(* and its load grows for the orders that follow.  The hard rules that do  *)
(* not look at the load, and the scores they have nothing to do with, come *)
(* with the payload; the capacity rule and the fairness score depend on    *)
(* the loads and are computed.  Also here: the ranking that the handler    *)
(* of POST /allocations makes of the trace (allocate.py).                  *)
(*                                                                         *)
(* Orders and partner rows are numbered in the order sorted() leaves them  *)
(* in.  Two rows may carry the same partner id: nothing forbids it.        *)
(* Scores are integers, One for 1.0.                                       *)
(***************************************************************************)
EXTENDS Integers, FiniteSets

CONSTANTS
    NumOrders, NumRows,
    PartnerId,      \* PartnerId[r]: the partner id in row r
    Payloads,       \* the payloads explored
    CapacityOn,     \* is the load_capacity rule enabled?
    MaxActive,      \* its max_active_orders, as the configuration has it
    FairWeight,     \* the weight of fairness_score, 0 when it is disabled
    One,            \* 1.0
    Grain           \* what round(score, 8) rounds to a multiple of

OrderRows == 1..NumOrders
PartnerRows == 1..NumRows
Ids == {PartnerId[r] : r \in PartnerRows}
NoRow == 0

(* fails: the pairs turned down by a hard rule that ignores the load;       *)
(* base: the weighted scores that do; load: current_load of each partner.   *)
PayloadType ==
    [fails : SUBSET (OrderRows \X PartnerRows),
     base : [OrderRows \X PartnerRows -> Int],
     load : [Ids -> Int]]

ASSUME PipelineAssumption ==
    /\ NumOrders \in Nat /\ NumRows \in Nat
    /\ PartnerId \in [PartnerRows -> Nat]
    /\ \A q, r \in PartnerRows : q < r => PartnerId[q] <= PartnerId[r]
    /\ Payloads \subseteq PayloadType
    /\ CapacityOn \in BOOLEAN /\ MaxActive \in Int
    /\ FairWeight \in Nat /\ One \in Nat \ {0} /\ Grain \in Nat \ {0}

VARIABLES
    payload,
    order, row,     \* the two loops
    loads,          \* local_partner_loads
    best,           \* best_partner_id, as a row, or NoRow
    best_score,
    eligible,       \* eligible[o]: the rows with hard_passed in the trace of o
    score,          \* score[o][r]: the weighted score before it is rounded
    choice          \* choice[o]: the row allocated to o, or NoRow

vars == <<payload, order, row, loads, best, best_score, eligible, score, choice>>

AtLeast(n, x) == IF x > n THEN x ELSE n

(* Mutant: a negative load is taken as it comes. *)
InitialLoadRaw(i) == payload.load[i]
(* resolve_partner_loads *)
InitialLoad(i) == AtLeast(0, payload.load[i])

Init ==
    /\ payload \in Payloads
    /\ order = 1 /\ row = 1
    /\ loads = [i \in Ids |-> InitialLoad(i)]
    /\ best = NoRow /\ best_score = -One
    /\ eligible = [o \in OrderRows |-> {}]
    /\ score = [o \in OrderRows |-> [r \in PartnerRows |-> 0]]
    /\ choice = [o \in OrderRows |-> NoRow]

Capacity == AtLeast(1, MaxActive)

(* Mutant: the rule admits a partner that is at its capacity. *)
BelowCapacityOrAt(i) == loads[i] <= Capacity
BelowCapacity(i) == loads[i] < Capacity

Passes(o, r) ==
    /\ <<o, r>> \notin payload.fails
    /\ CapacityOn => BelowCapacity(PartnerId[r])

(* 1 - load / (the highest load), and 1 when nobody has any. *)
Highest(l) == CHOOSE m \in {l[i] : i \in Ids} : \A i \in Ids : l[i] <= m
FairnessScore(l, i) ==
    IF Highest(l) = 0 THEN One ELSE (One * (Highest(l) - l[i])) \div Highest(l)

WeightedAt(l, o, r) == payload.base[<<o, r>>] + FairWeight * FairnessScore(l, PartnerId[r])
(* Mutant: the loads the evaluation started from. *)
WeightedAtStart(o, r) == WeightedAt([i \in Ids |-> InitialLoad(i)], o, r)
Weighted(o, r) == WeightedAt(loads, o, r)

Evaluating == order <= NumOrders /\ row <= NumRows

(* A hard rule fails for this pair. *)
Filter ==
    /\ Evaluating /\ ~Passes(order, row)
    /\ row' = row + 1
    /\ UNCHANGED <<payload, order, loads, best, best_score, eligible, score, choice>>

(* The pair is scored.  The branch for ties that follows in the code asks   *)
(* for a partner id below that of the best so far, which no later row has.  *)
ScoreRow ==
    /\ Evaluating /\ Passes(order, row)
    /\ eligible' = [eligible EXCEPT ![order] = @ \cup {row}]
    /\ score' = [score EXCEPT ![order][row] = Weighted(order, row)]
    /\ IF Weighted(order, row) > best_score
       THEN best' = row /\ best_score' = Weighted(order, row)
       ELSE UNCHANGED <<best, best_score>>
    /\ row' = row + 1
    /\ UNCHANGED <<payload, order, loads, choice>>

NextOrder ==
    /\ order <= NumOrders /\ row > NumRows
    /\ order' = order + 1 /\ row' = 1
    /\ best' = NoRow /\ best_score' = -One
    /\ UNCHANGED <<payload, eligible, score>>

(* Mutant: the load of the chosen partner is not counted. *)
AllocateUncounted ==
    /\ best # NoRow
    /\ NextOrder
    /\ choice' = [choice EXCEPT ![order] = best]
    /\ UNCHANGED loads

Allocate ==
    /\ best # NoRow
    /\ NextOrder
    /\ choice' = [choice EXCEPT ![order] = best]
    /\ loads' = [loads EXCEPT ![PartnerId[best]] = @ + 1]

(* NO_PARTNER_PASSED_HARD_RULES *)
LeaveUnallocated ==
    /\ best = NoRow
    /\ NextOrder
    /\ UNCHANGED <<choice, loads>>

Next == Filter \/ ScoreRow \/ Allocate \/ LeaveUnallocated

Spec == Init /\ [][Next]_vars

-----------------------------------------------------------------------------
Closed(o) == o < order

(* Mutant: seven places are kept. *)
RoundedToSeven(s) == (s + 5 * Grain) \div (10 * Grain)
(* round(score, 8) *)
Rounded(s) == (s + Grain \div 2) \div Grain

(* _rank_eligible_trace_candidates: by rounded score, then by partner id;   *)
(* sorted() keeps rows that agree in both in their order.                   *)
RankedBefore(o, q, r) ==
    \/ Rounded(score[o][q]) > Rounded(score[o][r])
    \/ Rounded(score[o][q]) = Rounded(score[o][r]) /\ q < r

TypeOK ==
    /\ payload \in Payloads
    /\ order \in 1..(NumOrders + 1)
    /\ row \in 1..(NumRows + 1)
    /\ loads \in [Ids -> Nat]
    /\ best \in PartnerRows \cup {NoRow}
    /\ eligible \in [OrderRows -> SUBSET PartnerRows]
    /\ choice \in [OrderRows -> PartnerRows \cup {NoRow}]

(* The loads an order is evaluated under: those of the payload and one more *)
(* for each earlier order the partner got.                                  *)
OrdersOf(i, o) == {q \in OrderRows : q < o /\ choice[q] # NoRow /\ PartnerId[choice[q]] = i}
LoadsBefore(o) == [i \in Ids |-> InitialLoad(i) + Cardinality(OrdersOf(i, o))]

(* With the capacity rule on, the payload as a whole never takes a partner  *)
(* above its capacity, or above where it was when it came in over it.       *)
CapacityRespected ==
    CapacityOn => \A i \in Ids :
        InitialLoad(i) + Cardinality(OrdersOf(i, order)) <= AtLeast(Capacity, InitialLoad(i))

(* Nobody becomes eligible in the course of a payload: a partner in the     *)
(* ranking of an order was below its capacity when the payload came in.     *)
(* The handler gives a partner at most one order of a request, not always   *)
(* one the pipeline chose it for: this keeps that within capacity as well.  *)
EligibleFromTheStart ==
    CapacityOn => \A o \in OrderRows : \A r \in eligible[o] :
        InitialLoad(PartnerId[r]) < Capacity

(* An order goes to the eligible partner that is best under the loads the   *)
(* earlier orders have left, the first of them if there are several.        *)
BestUnderCurrentLoads ==
    \A o \in OrderRows : Closed(o) /\ choice[o] # NoRow =>
        /\ choice[o] \in eligible[o]
        /\ \A r \in eligible[o] :
              LET mine == WeightedAt(LoadsBefore(o), o, choice[o])
                  other == WeightedAt(LoadsBefore(o), o, r)
              IN  mine > other \/ (mine = other /\ choice[o] <= r)

(* Whoever the handler tries before the partner the pipeline chose is a near *)
(* tie of it: less than one grain of the rounding below it, and earlier in   *)
(* the order of the rows.  There, and nowhere else, an order changes hands   *)
(* though nobody has reserved the choice; equal scores change nothing.       *)
OnlyNearTiesGoFirst ==
    \A o \in OrderRows : Closed(o) /\ choice[o] # NoRow =>
        \A r \in eligible[o] : RankedBefore(o, r, choice[o]) =>
            /\ r < choice[o]
            /\ score[o][choice[o]] - score[o][r] \in 1..(Grain - 1)

(* Inductive; the properties about capacity follow. *)
LoadInv ==
    /\ TypeOK
    /\ best # NoRow => best \in eligible[order] /\ order <= NumOrders
    /\ \A o \in OrderRows : o >= order => choice[o] = NoRow
    /\ \A i \in Ids : loads[i] = InitialLoad(i) + Cardinality(OrdersOf(i, order))
    /\ CapacityOn /\ best # NoRow => BelowCapacity(PartnerId[best])
    /\ CapacityRespected
    /\ EligibleFromTheStart

(* The eligible rows of an order carry the scores they had under its loads; *)
(* the best so far is the first with the highest; a choice was the best.    *)
ScoresRecorded ==
    \A o \in OrderRows : \A r \in eligible[o] :
        o <= order /\ score[o][r] = WeightedAt(LoadsBefore(o), o, r)
BestSoFar ==
    order <= NumOrders =>
        /\ best # NoRow => best_score = score[order][best]
        /\ \A r \in eligible[order] :
              /\ r < row
              /\ score[order][r] < best_score \/ (score[order][r] = best_score /\ best <= r)
ChosenByScore ==
    \A o \in OrderRows : Closed(o) /\ choice[o] # NoRow =>
        /\ choice[o] \in eligible[o]
        /\ \A r \in eligible[o] :
              \/ score[o][choice[o]] > score[o][r]
              \/ score[o][choice[o]] = score[o][r] /\ choice[o] <= r

(* Inductive; the properties about the choice follow. *)
ScoreInv ==
    /\ LoadInv
    /\ score \in [OrderRows -> [PartnerRows -> Int]] /\ best_score \in Int
    /\ ScoresRecorded
    /\ BestSoFar
    /\ ChosenByScore
=============================================================================
