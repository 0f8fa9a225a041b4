------------------------------ MODULE RuleConfig ------------------------------
(***************************************************************************)
(* The rule configuration: conflict detection and weight resolution        *)
(* (rules/conflict.py), loading (config/loader.py), building the rules     *)
(* (rules/registry.py) and raising the fairness weight when the loads are  *)
(* unequal (fairness/gini.py).                                             *)
(*                                                                         *)
(* A configuration is a record: hard and scoring are sequences of entries  *)
(* [name, enabled, params, deps]; weights and compat are functions on the  *)
(* keys they have; threshold and factor are those of the fairness section. *)
(* name is None in an entry without a usable name; one that is not a       *)
(* mapping at all counts as a disabled entry without a name, which is how  *)
(* the detector and the builder treat it.                                  *)
(*                                                                         *)
(* Weights, sums and the threshold are multiples of 1/One, and so is what  *)
(* round(x, 8) returns; factor is in tenths.                               *)
(***************************************************************************)
EXTENDS Payloads, Functions

CONSTANT Tolerance      \* WEIGHT_TOLERANCE

(* Weights are rounded to eight places and the tolerance is 0.001, so that  *)
(* the rounding of all five scoring rules is well within it.                *)
ASSUME RuleConfigAssumption ==
    /\ Tolerance \in Nat
    /\ Cardinality(ScoringRules) <= 2 * Tolerance + 1

(* What a configuration is made of.  A parameter the rules calculate with   *)
(* is a number.                                                             *)
NumericParams == {"max_distance_km", "max_active_orders", "min_rating", "max_rating",
                  "min_condition", "scale_km", "baseline_minutes"}
IsParam(key, value) ==
    /\ key \in NumericParams => value \in Int
    /\ key = "traffic_multipliers" => \A level \in DOMAIN value : value[level] \in Int
IsEntry(e) ==
    /\ e = [name |-> e.name, enabled |-> e.enabled, params |-> e.params, deps |-> e.deps]
    /\ e.enabled \in BOOLEAN
    /\ \A key \in DOMAIN e.params : IsParam(key, e.params[key])
IsList(entries) ==
    /\ entries \in Seq({entries[k] : k \in DOMAIN entries})
    /\ \A k \in DOMAIN entries : IsEntry(entries[k])
IsWeights(w) ==
    /\ w = [n \in DOMAIN w |-> w[n]]
    /\ IsFiniteSet(DOMAIN w) /\ \A n \in DOMAIN w : w[n] \in Int
IsConfig(c) ==
    /\ c = [hard |-> c.hard, scoring |-> c.scoring, weights |-> c.weights,
            compat |-> c.compat, threshold |-> c.threshold, factor |-> c.factor]
    /\ IsList(c.hard) /\ IsList(c.scoring) /\ IsWeights(c.weights)
    /\ c.threshold \in Int /\ c.factor \in Int

Total(f) == SumFunction(f)
RoundedQuotient(a, b) == (2 * a + b) \div (2 * b)

EnabledEntries(entries) == {entries[k] : k \in {j \in DOMAIN entries : entries[j].enabled}}
EnabledNames(c) ==
    {e.name : e \in EnabledEntries(c.hard) \cup EnabledEntries(c.scoring)} \ {None}

(* The bound of min_rating or max_rating the detector compares: of several  *)
(* entries of that name, the last.                                          *)
Bound(c, name, default) ==
    LET at == {k \in DOMAIN c.hard : c.hard[k].enabled /\ c.hard[k].name = name}
    IN  IF at = {} THEN None
        ELSE Param(c.hard[CHOOSE k \in at : \A j \in at : j <= k], name, default)

Contradiction(c) ==
    LET lowest == Bound(c, "min_rating", 0)
        highest == Bound(c, "max_rating", 5)
    IN  lowest # None /\ highest # None /\ lowest > highest

ScoringAt(c) == {k \in DOMAIN c.scoring : c.scoring[k].enabled /\ c.scoring[k].name # None}
ScoringNames(c) == {c.scoring[k].name : k \in ScoringAt(c)}
FilteredWeights(c) == [n \in ScoringNames(c) |-> Get(c.weights, n, 0)]

(* Mutant: no tolerance. *)
OffOneAtAll(sum) == sum # One
OffOne(sum) == sum - One > Tolerance \/ One - sum > Tolerance

(* weights_after_resolution.  The equal share is one of the entries, the    *)
(* names counted more than once if they are listed more than once.          *)
ResolvedWeights(c) ==
    LET filtered == FilteredWeights(c)
        sum == Total(filtered)
        equal == RoundedQuotient(One, Cardinality(ScoringAt(c)))
    IN  IF ~OffOne(sum) THEN filtered
        ELSE [n \in ScoringNames(c) |->
                IF sum <= 0 THEN equal ELSE RoundedQuotient(One * filtered[n], sum)]

Misconfigured(e, enabledNames) ==
    \/ e.name = None
    \/ e.name \notin Registered
    \/ \E dep \in e.deps : dep \notin Registered \/ dep \notin enabledNames

Blocking(c) ==
    \/ Contradiction(c)
    \/ \E e \in EnabledEntries(c.hard) \cup EnabledEntries(c.scoring) :
            Misconfigured(e, EnabledNames(c))

(* ConfigLoader.load, of a configuration that is not blocked. *)
Loaded(c) == IF ScoringNames(c) = {} THEN c ELSE [c EXCEPT !.weights = ResolvedWeights(c)]

(* build_rule_set raises for a disabled entry as well. *)
Builds(c) ==
    /\ \A k \in DOMAIN c.hard : c.hard[k].name \in HardRules
    /\ \A k \in DOMAIN c.scoring : c.scoring[k].name \in ScoringRules

-----------------------------------------------------------------------------
(* GiniCalculator.compute, as a fraction: the counts in ascending order,    *)
(* each weighted with its rank.  loads is a function on the partners.       *)
(* Mutant: ranks from 0. *)
RankFromZero(loads, i) ==
    Cardinality({j \in DOMAIN loads :
                    loads[j] < loads[i] \/ (loads[j] = loads[i] /\ j < i)})
Rank(loads, i) ==
    Cardinality({j \in DOMAIN loads :
                    loads[j] < loads[i] \/ (loads[j] = loads[i] /\ j <= i)})
GiniNumerator(loads) ==
    2 * Total([i \in DOMAIN loads |-> Rank(loads, i) * loads[i]])
      - (Cardinality(DOMAIN loads) + 1) * Total(loads)
GiniDenominator(loads) == Cardinality(DOMAIN loads) * Total(loads)

AboveThreshold(loads, threshold) ==
    IF Total(loads) = 0 THEN 0 > threshold
    ELSE One * GiniNumerator(loads) > threshold * GiniDenominator(loads)

(* FairnessEnforcer.adjust_weights *)
RaisedWeights(c) ==
    [n \in DOMAIN c.weights |-> c.weights[n] * (IF n = "fairness_score" THEN c.factor ELSE 10)]
Escalates(c, loads) ==
    /\ AboveThreshold(loads, c.threshold)
    /\ "fairness_score" \in DOMAIN c.weights
    /\ Total(RaisedWeights(c)) > 0
(* Mutant: the raised weights are not brought back to a sum of one. *)
AdjustedRaw(c, loads) ==
    IF Escalates(c, loads) THEN [n \in DOMAIN c.weights |-> RaisedWeights(c)[n] \div 10]
    ELSE c.weights
AdjustedWeights(c, loads) ==
    IF Escalates(c, loads)
    THEN [n \in DOMAIN c.weights |->
            RoundedQuotient(One * RaisedWeights(c)[n], Total(RaisedWeights(c)))]
    ELSE c.weights
=============================================================================
