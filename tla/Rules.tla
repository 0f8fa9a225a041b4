-------------------------------- MODULE Rules --------------------------------
(***************************************************************************)
(* The rules of rules/hard and rules/scoring, as operators on an entry of  *)
(* the configuration, an order and a partner.  A partner is a record of    *)
(* what the rules read of a DeliveryPartner, with current_load replaced by *)
(* the load the evaluation has counted; an order likewise.                 *)
(*                                                                         *)
(* One is 1.0.  A distance is a number of length units between positions   *)
(* on a line; ratings are whole stars; minutes and conditions are whole    *)
(* numbers in the code as well.  A quotient is rounded down to a multiple  *)
(* of 1/One.                                                               *)
(***************************************************************************)
EXTENDS Integers, FiniteSets, Sequences

CONSTANTS
    One,
    None        \* the Python value

ASSUME RulesAssumption == One \in Nat \ {0} /\ None \notin Int

HardRules == {"availability", "max_distance", "min_rating", "max_rating",
              "load_capacity", "vehicle_condition", "vehicle_type", "weather_safety"}
ScoringRules == {"proximity_score", "rating_score", "fairness_score",
                 "on_time_rate", "traffic_adjusted_proximity"}

(* rule_registry.names() after import_all_rules(), and the kind of each. *)
Registered == HardRules \cup ScoringRules

(* dict.get(key, default); params are a function on their keys. *)
Get(dict, key, default) == IF key \in DOMAIN dict THEN dict[key] ELSE default
Param(entry, key, default) == Get(entry.params, key, default)

Above(a, b) == IF a > b THEN a ELSE b
Below(a, b) == IF a < b THEN a ELSE b
Unit(x) == Above(0, Below(x, One))

(* haversine_km: no more is used of it than that it is a distance. *)
Distance(order, partner) ==
    IF order.pos > partner.pos THEN order.pos - partner.pos ELSE partner.pos - order.pos

-----------------------------------------------------------------------------
(* Hard rules.                                                             *)

Available(partner) == partner.active /\ partner.available

Near(e, order, partner) == Distance(order, partner) <= Param(e, "max_distance_km", 5)

HasRoom(e, partner) ==
    Above(0, partner.load) < Above(1, Param(e, "max_active_orders", 3))

Rated(e, partner) == partner.rating >= Param(e, "min_rating", 0)
NotOverrated(e, partner) == partner.rating <= Param(e, "max_rating", 5)

InCondition(e, partner) == partner.condition >= Param(e, "min_condition", 1)

(* compat is vehicle_compatibility, which build_rule_set hands over from    *)
(* the top level of the configuration; without it only the vehicle asked.   *)
Allowed(compat, vehicle) == Get(compat, vehicle, {vehicle})
RightVehicle(compat, order, partner) ==
    partner.types \cap Allowed(compat, order.vehicle) # {}

(* Fails open: without a raw vehicle type nobody is kept off the road. *)
SafeInWeather(e, order, partner) ==
    \/ partner.raw = None
    \/ order.weather \notin Param(e, "severe_conditions", {"Stormy", "Sandstorms"})
    \/ partner.raw \notin Param(e, "restricted_vehicles", {"MOTORCYCLE", "SCOOTER"})

Passes(e, compat, order, partner) ==
    CASE e.name = "availability"      -> Available(partner)
      [] e.name = "max_distance"      -> Near(e, order, partner)
      [] e.name = "load_capacity"     -> HasRoom(e, partner)
      [] e.name = "min_rating"        -> Rated(e, partner)
      [] e.name = "max_rating"        -> NotOverrated(e, partner)
      [] e.name = "vehicle_condition" -> InCondition(e, partner)
      [] e.name = "vehicle_type"      -> RightVehicle(compat, order, partner)
      [] e.name = "weather_safety"    -> SafeInWeather(e, order, partner)

-----------------------------------------------------------------------------
(* Scoring rules.                                                          *)

Highest(loads, load) ==
    CHOOSE m \in {Above(0, loads[i]) : i \in DOMAIN loads} \cup {Above(0, load)} :
        /\ \A i \in DOMAIN loads : loads[i] <= m
        /\ load <= m

(* Mutant: against the average load. *)
FairnessByMean(partner, loads) ==
    LET max == Highest(loads, partner.load)
    IN  IF max = 0 THEN One
        ELSE Above(0, One - (One * partner.load) \div (Cardinality(DOMAIN loads) * max))

Fairness(partner, loads) ==
    LET max == Highest(loads, partner.load)
    IN  IF max = 0 THEN One ELSE One - (One * Above(0, partner.load)) \div max

(* scale_km of 0 is a ZeroDivisionError: see Raises. *)
Proximity(e, order, partner) ==
    LET scale == Param(e, "scale_km", 10)
    IN  IF scale < 0 THEN 0 ELSE One - (One * Below(Distance(order, partner), scale)) \div scale

Raises(e) == e.name = "proximity_score" /\ Param(e, "scale_km", 10) = 0

RatingScore(partner) == Unit((One * partner.rating) \div 5)

OnTime(e, partner) ==
    Unit((One * Param(e, "baseline_minutes", 30)) \div Above(1, partner.avg_time))

(* Multipliers are tenths. *)
DefaultTraffic == [Low |-> 10, Medium |-> 13, High |-> 16, Jam |-> 22]
InTraffic(e, order, partner) ==
    LET reach == Param(e, "max_distance_km", 10)
        tenths == Get(Param(e, "traffic_multipliers", DefaultTraffic), order.traffic, 10)
    IN  IF reach <= 0 THEN 0
        ELSE Unit(One - (One * tenths * Distance(order, partner)) \div (10 * reach))

Score(e, order, partner, loads) ==
    CASE e.name = "proximity_score" -> Proximity(e, order, partner)
      [] e.name = "rating_score"    -> RatingScore(partner)
      [] e.name = "fairness_score"  -> Fairness(partner, loads)
      [] e.name = "on_time_rate"    -> OnTime(e, partner)
      [] e.name = "traffic_adjusted_proximity" -> InTraffic(e, order, partner)
=============================================================================
