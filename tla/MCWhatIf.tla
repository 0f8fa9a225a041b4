------------------------------ MODULE MCWhatIf ------------------------------
(***************************************************************************)
(* Instances of WhatIf: every list of hard rules below with every list of  *)
(* scoring rules, one or two orders, two or three partners, and the        *)
(* mutations one at a time and in a few combinations.                      *)
(***************************************************************************)
EXTENDS WhatIf

Entry(n, on, p) == [name |-> n, enabled |-> on, params |-> p, deps |-> {}]
Plain(n) == Entry(n, TRUE, <<>>)

Min(r) == Entry("min_rating", TRUE, [min_rating |-> r])
Max0(r, on) == Entry("max_rating", on, [max_rating |-> r])

HardLists ==
    { <<Plain("availability"), Plain("vehicle_condition"), Entry("max_distance", TRUE, [max_distance_km |-> 4])>>,
      <<Min(2), Max0(4, TRUE), Entry("load_capacity", TRUE, [max_active_orders |-> 2])>>,
      <<Min(4), Max0(3, FALSE)>>,
      <<Min(4), Max0(3, TRUE)>>,
      <<Min(4), Min(2), Max0(3, TRUE)>>,
      <<Plain("vehicle_type"), Plain("weather_safety")>> }

(* Not all of these can be built or are accepted. *)
Broken ==
    { <<Entry(None, FALSE, <<>>)>>, <<Entry(None, TRUE, <<>>)>>, <<Plain("surge")>>,
      <<Plain("rating_score")>>,
      <<[Min(2) EXCEPT !.deps = {"max_rating"}], Max0(4, FALSE)>> }

Scale(km) == Entry("proximity_score", TRUE, [scale_km |-> km])
Scoring(list, w) == [list |-> list, weights |-> w]
ScoringLists ==
    { Scoring(<<Scale(10), Plain("fairness_score")>>, [proximity_score |-> 30, fairness_score |-> 30]),
      Scoring(<<Plain("rating_score"), Scale(10), Plain("fairness_score")>>,
              [rating_score |-> 8, proximity_score |-> 8, fairness_score |-> 40]),
      Scoring(<<Scale(10), Entry("on_time_rate", FALSE, <<>>)>>,
              [proximity_score |-> 60, on_time_rate |-> 60]),
      Scoring(<<Plain("fairness_score"), Plain("fairness_score")>>, [fairness_score |-> 0]),
      Scoring(<<Plain("traffic_adjusted_proximity"), Plain("rating_score")>>, <<>>) }
NoScoring == Scoring(<<>>, [fairness_score |-> 60])
Dividing == Scoring(<<Scale(0)>>, [proximity_score |-> 60])

Config(hard, scoring, threshold) ==
    [hard |-> hard, scoring |-> scoring.list, weights |-> scoring.weights,
     compat |-> [car |-> {"car"}, bike |-> {"bike", "scooter"}],
     threshold |-> threshold, factor |-> 15]

Usual == Scoring(<<Scale(10), Plain("fairness_score")>>, [proximity_score |-> 30, fairness_score |-> 30])
MCConfigs ==
    {Config(h, s, t) : h \in HardLists, s \in ScoringLists, t \in {15, 60}}
        \cup {Config(h, Usual, 15) : h \in Broken}
        \cup {Config(<<Plain("availability")>>, s, 0) : s \in {NoScoring, Dividing}}

-----------------------------------------------------------------------------
Order(i, pos, vehicle) ==
    [id |-> i, pos |-> pos, restaurant_location |-> None, vehicle |-> vehicle,
     required |-> None, required_raw |-> None, weather |-> "Sunny", traffic |-> "Low"]
Late == [Order(2, None, None) EXCEPT
            !.restaurant_location = 4, !.required_raw = "motorcycle",
            !.weather = "Stormy", !.traffic = "Jam"]

Partner(i, pos, rating, load) ==
    [id |-> i, pos |-> pos, current_location |-> None, available |-> TRUE, active |-> TRUE,
     rating |-> rating, types |-> {"bike"}, vehicle_type |-> None, raw |-> None,
     load |-> load, condition |-> 1, avg_time |-> 30]
Rider(i, pos) ==
    [Partner(i, None, 4, 0) EXCEPT
        !.current_location = pos, !.types = {}, !.vehicle_type = "motorcycle",
        !.condition = 0, !.avg_time = 20]

Payload(o, p) == [orders |-> o, partners |-> p]
MCInputs ==
    { Payload(<<Order(1, 2, "bike"), Late>>, <<[Partner(1, 0, 4, 0) EXCEPT !.avg_time = 60], Partner(2, 4, 3, 2)>>),
      Payload(<<Order(1, 2, "bike"), Order(2, 2, "bike")>>,
              <<Partner(1, 2, 3, 0), Partner(2, 4, 4, 0), Partner(3, 8, 4, 0)>>),
      Payload(<<Order(1, 2, "bike"), Late>>, <<Partner(1, 2, 4, 1), Rider(2, 4), Partner(3, 12, 2, 1)>>),
      Payload(<<Order(1, 2, "bike"), Order(1, 6, "bike")>>, <<Partner(1, 3, 4, 0), Partner(2, 6, 3, 1)>>),
      Payload(<<Order(1, 2, "bike")>>, <<Partner(1, 2, 3, 0), Partner(1, 8, 4, 3)>>),
      Payload(<<Order(1, 2, "bike")>>, <<>>),
      Payload(<<Order(1, 2, "truck")>>, <<Partner(1, 2, 3, 0)>>),
      Payload(<<Order(1, 2, "bike")>>, <<[Partner(1, 2, 3, 0) EXCEPT !.types = {"truck"}]>>) }

-----------------------------------------------------------------------------
Rule(type, rule, key, value) == [type |-> type, rule |-> rule, key |-> key, value |-> value]
Pooling(add, modify, remove) ==
    [type |-> "partner_pool", add |-> add, modify |-> modify, remove |-> remove]

On(rule) == Rule("rule_toggle", rule, None, TRUE)
Off(rule) == Rule("rule_toggle", rule, None, FALSE)
Weight(rule, w) == Rule("rule_weight", rule, None, w)

MCSpecs ==
    { <<>>,
      <<On("on_time_rate")>>, <<On("max_rating")>>, <<Off("fairness_score")>>,
      <<On("on_time_rate"), Weight("on_time_rate", 60)>>,
      <<Weight("rating_score", 0)>>, <<Weight("rating_score", 30)>>, <<Weight("proximity_score", 9)>>,
      <<Weight("proximity_score", -90)>>, <<Weight("rating_score", 180)>>,
      <<Weight("proximity_score", 300), Weight("fairness_score", -240)>>,
      <<Weight("proximity_score", -59), Weight("fairness_score", 119)>>,
      <<Rule("rule_parameter", "min_rating", "min_rating", 5)>>,
      <<Rule("rule_parameter", "proximity_score", "scale_km", 3)>>,
      <<Pooling(<<>>, <<Partner(2, 4, 3, 0)>>, {})>>,
      <<Pooling(<<>>, <<Partner(1, 0, 4, 0)>>, {})>>, <<Pooling(<<>>, <<Partner(2, 4, 4, 0)>>, {})>>,
      <<Pooling(<<>>, <<>>, {1})>>, <<Pooling(<<>>, <<>>, {2})>>, <<Pooling(<<>>, <<>>, {3})>>,
      <<Pooling(<<Partner(1, 2, 5, 0)>>, <<>>, {2})>>,
      <<Pooling(<<[Partner(4, 2, 5, 0) EXCEPT !.types = {"truck"}]>>, <<>>, {})>>,
      <<On("surge")>> }
=============================================================================
