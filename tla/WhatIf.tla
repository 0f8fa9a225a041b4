-------------------------------- MODULE WhatIf --------------------------------
(***************************************************************************)
(* From a request to its stored decision (POST /allocations as far as the  *)
(* decision depends on it) and from a stored decision to what it would     *)
(* have been (POST /simulations, simulation/counterfactual.py).  The       *)
(* decision is taken with the loaded configuration, the weights escalated  *)
(* for the loads, and the reservations; the simulation starts again from   *)
(* the stored snapshot and configuration, applies mutations one after the  *)
(* other to copies of them, and evaluates with weights resolved anew.      *)
(*                                                                         *)
(* Orders and partner rows are sequences in the order sorted() leaves them *)
(* in; ids are numbers.                                                    *)
(***************************************************************************)
EXTENDS RuleConfig

CONSTANTS
    Configs,    \* contents of rules.yaml
    Inputs,     \* payloads of POST /allocations: [orders, partners], JSON
    Specs       \* lists of mutations sent to POST /simulations

IsListOf(rows, Is(_)) ==
    /\ rows \in Seq({rows[k] : k \in DOMAIN rows})
    /\ \A k \in DOMAIN rows : Is(rows[k])
IsMutation(m) ==
    \/ m.type = "rule_parameter" /\ IsParam(m.key, m.value)
    \/ m.type = "rule_weight" /\ m.value \in Int
    \/ m.type = "rule_toggle" /\ m.value \in BOOLEAN
    \/ /\ m.type = "partner_pool"
       /\ IsListOf(m.add, IsPartnerPayload) /\ IsListOf(m.modify, IsPartnerPayload)

InOrder(rows) == \A j, k \in DOMAIN rows : j <= k => rows[j].id <= rows[k].id

ASSUME WhatIfAssumption ==
    /\ \A c \in Configs : IsConfig(c)
    /\ \A p \in Inputs :
          /\ IsListOf(p.orders, IsOrderJson)
          /\ IsListOf(p.partners, IsPartnerJson) /\ InOrder(p.partners)
    /\ \A s \in Specs : IsListOf(s, IsMutation)

VARIABLES
    yaml, payload,
    stage,      \* "new", then "refused" (4xx) or "failed" (500) or "stored";
                \* then "mutating" and "answered", over and over
    stored,     \* what the request has stored, or None
    spec, step, \* the mutations, and the next of them to apply
    config, snapshot,       \* mutated_config, mutated_snapshot
    reply       \* the simulation's answer, or None for a 400

vars == <<yaml, payload, stage, stored, spec, step, config, snapshot, reply>>

-----------------------------------------------------------------------------
(* DeterministicAllocationPipeline.evaluate with the rules of Rules.  See   *)
(* Pipeline for the loop in single steps; here it is a function.            *)

IdsOf(rows) == {rows[k].id : k \in DOMAIN rows}
LastRow(rows, i) == rows[CHOOSE k \in DOMAIN rows :
                            rows[k].id = i /\ \A j \in DOMAIN rows : rows[j].id = i => j <= k]

(* resolve_partner_loads *)
StartLoads(rows, observed) ==
    [i \in IdsOf(rows) |-> Above(Above(0, LastRow(rows, i).load), Get(observed, i, 0))]

Effective(rows, k, loads) == [rows[k] EXCEPT !.load = loads[rows[k].id]]

EligibleRows(c, order, rows, loads) ==
    {k \in DOMAIN rows : \A e \in EnabledEntries(c.hard) :
                            Passes(e, c.compat, order, Effective(rows, k, loads))}

WeightedScore(c, weights, order, partner, loads) ==
    Total([k \in ScoringAt(c) |-> Get(weights, c.scoring[k].name, 0)
                                    * Score(c.scoring[k], order, partner, loads)])

(* Mutant: the search begins with 0. *)
FirstBestAboveZero(score) ==
    LET best == {k \in DOMAIN score :
                    /\ score[k] > 0
                    /\ \A j \in DOMAIN score : score[j] < score[k] \/ (score[j] = score[k] /\ k <= j)}
    IN  IF best = {} THEN None ELSE CHOOSE k \in best : TRUE

(* The best of the eligible rows, the first of several; None if there is no *)
(* score above the -1.0 the search begins with.                             *)
FirstBest(score) ==
    LET best == {k \in DOMAIN score :
                    /\ score[k] > -One * One
                    /\ \A j \in DOMAIN score : score[j] < score[k] \/ (score[j] = score[k] /\ k <= j)}
    IN  IF best = {} THEN None ELSE CHOOSE k \in best : TRUE

BestRow(c, weights, order, rows, loads, passing) ==
    FirstBest([k \in passing |->
                  WeightedScore(c, weights, order, Effective(rows, k, loads), loads)])

(* One order: sofar says who was chosen and who was eligible for each order *)
(* before, the loads by now, and whether a score raised an exception.        *)
Allocated(sofar, rows, passing, raised, best) ==
    LET who == IF best = None THEN None ELSE rows[best].id
    IN  [loads |-> IF who = None THEN sofar.loads ELSE [sofar.loads EXCEPT ![who] = @ + 1],
         chosen |-> Append(sofar.chosen, who),
         eligible |-> Append(sofar.eligible, {rows[k].id : k \in passing}),
         failed |-> raised]
ScoreRaises(c, sofar, passing) ==
    sofar.failed \/ (passing # {} /\ \E e \in EnabledEntries(c.scoring) : Raises(e))
Ranked(c, weights, order, rows, sofar, passing) ==
    Allocated(sofar, rows, passing, ScoreRaises(c, sofar, passing),
              IF ScoreRaises(c, sofar, passing) THEN None
              ELSE BestRow(c, weights, order, rows, sofar.loads, passing))

Evaluate(c, weights, orders, rows, observed) ==
    LET start == [loads |-> StartLoads(rows, observed), chosen |-> <<>>, eligible |-> <<>>,
                  failed |-> FALSE]
        after[o \in 0..Len(orders)] ==
            IF o = 0 THEN start
            ELSE Ranked(c, weights, orders[o], rows, after[o - 1],
                        EligibleRows(c, orders[o], rows, after[o - 1].loads))
    IN  after[Len(orders)]

-----------------------------------------------------------------------------
Init ==
    /\ yaml \in Configs /\ payload \in Inputs
    /\ stage = "new"
    /\ stored = None
    /\ spec = <<>> /\ step = 1
    /\ config = None /\ snapshot = None
    /\ reply = None

Orders == [k \in DOMAIN payload.orders |-> NormalizedOrder(payload.orders[k])]
Partners == [k \in DOMAIN payload.partners |-> NormalizedPartner(payload.partners[k])]

Acceptable ==
    /\ AllAccepted(Orders) /\ AllAccepted(Partners)
    /\ ~Blocking(yaml)

ReservedOutcomes(run) ==
    {s \in [DOMAIN run.chosen -> IdsOf(Partners) \cup {None}] :
        /\ \A o \in DOMAIN s : IF run.chosen[o] = None THEN s[o] = None
                               ELSE s[o] \in run.eligible[o] \cup {None}
        /\ \A o, q \in DOMAIN s : o # q /\ s[o] # None => s[o] # s[q]}

BaseLoads == StartLoads(Partners, <<>>)
Decision ==
    Evaluate(Loaded(yaml), AdjustedWeights(Loaded(yaml), BaseLoads), Orders, Partners, BaseLoads)

(* 422 for the payload, 400 for the configuration. *)
Refuse ==
    /\ stage = "new" /\ ~Acceptable
    /\ stage' = "refused"
    /\ UNCHANGED <<yaml, payload, stored, spec, step, config, snapshot, reply>>

(* 400 without partners, after the configuration has been accepted; 500 for *)
(* rules that cannot be built or raise.  The transaction is rolled back.    *)
Fail ==
    /\ stage = "new" /\ Acceptable
    /\ Builds(yaml) /\ Partners # <<>> => Decision.failed
    /\ stage' = "failed"
    /\ UNCHANGED <<yaml, payload, stored, spec, step, config, snapshot, reply>>

(* selected: the partners after the reservation loop, which takes for each  *)
(* order the first in its ranking that nobody holds, if any (AllocateRequest).*)
Decide ==
    /\ stage = "new" /\ Acceptable
    /\ Builds(yaml) /\ Partners # <<>>
    /\ \E run \in {Decision} : \E selected \in ReservedOutcomes(run) :
          /\ ~run.failed
          /\ stored' = [config |-> Loaded(yaml),
                        orders |-> Restored(Orders), partners |-> Restored(Partners),
                        loads |-> BaseLoads, escalated |-> Escalates(Loaded(yaml), BaseLoads),
                        chosen |-> run.chosen, selected |-> selected]
    /\ stage' = "stored"
    /\ UNCHANGED <<yaml, payload, spec, step, config, snapshot, reply>>

-----------------------------------------------------------------------------
(* POST /simulations.                                                      *)

Simulate(s) ==
    /\ stage \in {"stored", "answered"}
    /\ spec' = s /\ step' = 1
    /\ config' = stored.config /\ snapshot' = stored.partners
    /\ reply' = None
    /\ stage' = "mutating"
    /\ UNCHANGED <<yaml, payload, stored>>

Applying(type) == stage = "mutating" /\ step <= Len(spec) /\ spec[step].type = type
Mutation == spec[step]

(* _find_rule_entry: the first entry of that name, hard rules first. *)
Named(entries, name) == {k \in DOMAIN entries : entries[k].name = name}
RuleKnown(c, name) == Named(c.hard, name) \cup Named(c.scoring, name) # {}
First(at) == CHOOSE k \in at : \A j \in at : k <= j
Found(c, name) ==
    IF Named(c.hard, name) # {} THEN c.hard[First(Named(c.hard, name))]
    ELSE c.scoring[First(Named(c.scoring, name))]
Edited(c, name, entry) ==
    IF Named(c.hard, name) # {}
    THEN [c EXCEPT !.hard[First(Named(c.hard, name))] = entry]
    ELSE [c EXCEPT !.scoring[First(Named(c.scoring, name))] = entry]

(* GET /demo/mutation-options: the weights shown as current, those of the    *)
(* enabled scoring rules of rules.yaml as it is loaded.  It also lists the   *)
(* rules and the parameters they are given.                                  *)
OfferedWeights(c) == [n \in ScoringNames(c) |-> Get(Loaded(c).weights, n, 0)]

Put(dict, key, value) == [k \in DOMAIN dict \cup {key} |-> IF k = key THEN value ELSE dict[k]]

ChangeParameter ==
    /\ Applying("rule_parameter") /\ RuleKnown(config, Mutation.rule)
    /\ config' = Edited(config, Mutation.rule,
                        [Found(config, Mutation.rule) EXCEPT !.params = Put(@, Mutation.key, Mutation.value)])
    /\ step' = step + 1
    /\ UNCHANGED <<yaml, payload, stage, stored, spec, snapshot, reply>>

ChangeWeight ==
    /\ Applying("rule_weight") /\ RuleKnown(config, Mutation.rule)
    /\ config' = [config EXCEPT !.weights = Put(@, Mutation.rule, Mutation.value)]
    /\ step' = step + 1
    /\ UNCHANGED <<yaml, payload, stage, stored, spec, snapshot, reply>>

Toggle ==
    /\ Applying("rule_toggle") /\ RuleKnown(config, Mutation.rule)
    /\ config' = Edited(config, Mutation.rule,
                        [Found(config, Mutation.rule) EXCEPT !.enabled = Mutation.value])
    /\ step' = step + 1
    /\ UNCHANGED <<yaml, payload, stage, stored, spec, snapshot, reply>>

UnknownRule ==
    /\ stage = "mutating" /\ step <= Len(spec)
    /\ Mutation.type # "partner_pool" /\ ~RuleKnown(config, Mutation.rule)
    /\ stage' = "answered"
    /\ UNCHANGED <<yaml, payload, stored, spec, step, config, snapshot, reply>>

Ascending(ids) ==
    [k \in 1..Cardinality(ids) |-> CHOOSE i \in ids : Cardinality({j \in ids : j <= i}) = k]

(* Removed, then modified, then added: the later wins.  Rows that share an  *)
(* id become one, the last of them.                                         *)
Pool(rows, m) ==
    LET ids == (IdsOf(rows) \ m.remove) \cup IdsOf(m.modify) \cup IdsOf(m.add)
        row(i) == IF i \in IdsOf(m.add) THEN RebuiltPartner(LastRow(m.add, i))
                  ELSE IF i \in IdsOf(m.modify) THEN RebuiltPartner(LastRow(m.modify, i))
                  ELSE LastRow(rows, i)
        sorted == Ascending(ids)
    IN  [k \in DOMAIN sorted |-> row(sorted[k])]

ChangePool ==
    /\ Applying("partner_pool")
    /\ snapshot' = Pool(snapshot, Mutation)
    /\ step' = step + 1
    /\ UNCHANGED <<yaml, payload, stage, stored, spec, config, reply>>

(* initial_partner_loads_for_replay: the loads the decision started from,   *)
(* by partner id; whoever was not there has none.                           *)
(* Mutant: the loads of the rows, which a rebuilt row has lost. *)
ReplayLoadsOfRows(rows) == [i \in IdsOf(rows) |-> LastRow(rows, i).load]
ReplayLoads(rows) == [i \in IdsOf(rows) |-> Get(stored.loads, i, 0)]

(* Mutant: the rows as they were stored. *)
SimulatedAsStored(c, rows) == Evaluate(c, ResolvedWeights(c), stored.orders, stored.partners, ReplayLoads(rows))
Simulated(c, rows) == Evaluate(c, ResolvedWeights(c), stored.orders, rows, ReplayLoads(rows))

(* Mutant: compared with what the pipeline chose. *)
ChangedFromChoice(before, after) ==
    {stored.orders[k].id : k \in {j \in DOMAIN stored.orders : stored.chosen[j] # after[j]}}

(* _diff_traces goes by order id: of several rows the last. *)
Changed(before, after) ==
    {i \in IdsOf(stored.orders) :
        LET at == {k \in DOMAIN stored.orders : stored.orders[k].id = i}
            last == CHOOSE k \in at : \A j \in at : j <= k
        IN  before[last] # after[last]}

Mutated == stage = "mutating" /\ step > Len(spec)
(* Mutant: conflicts are looked for in what was stored. *)
EvaluableAsStored == Restorable(snapshot) /\ ~Blocking(stored.config) /\ ~Simulated(config, snapshot).failed
Evaluable == Restorable(snapshot) /\ ~Blocking(config) /\ ~Simulated(config, snapshot).failed

Answer ==
    /\ Mutated /\ Evaluable
    /\ LET chosen == Simulated(config, snapshot).chosen
       IN  reply' = [allocations |-> chosen, changed |-> Changed(stored.selected, chosen)]
    /\ stage' = "answered"
    /\ UNCHANGED <<yaml, payload, stored, spec, step, config, snapshot>>

(* 400: a blocking conflict, a vehicle type there is not, a rule that raises. *)
Reject ==
    /\ Mutated /\ ~Evaluable
    /\ stage' = "answered"
    /\ UNCHANGED <<yaml, payload, stored, spec, step, config, snapshot, reply>>

Next ==
    \/ Refuse \/ Fail \/ Decide
    \/ \E s \in Specs : Simulate(s)
    \/ ChangeParameter \/ ChangeWeight \/ Toggle \/ ChangePool \/ UnknownRule
    \/ Answer \/ Reject

Spec == Init /\ [][Next]_vars

-----------------------------------------------------------------------------
(* Properties.                                                             *)

TypeOK ==
    /\ stage \in {"new", "refused", "failed", "stored", "mutating", "answered"}
    /\ (stored = None) = (stage \in {"new", "refused", "failed"})
    /\ step \in 1..Len(spec) + 1
    /\ reply # None =>
          /\ stage = "answered" /\ step = Len(spec) + 1
          /\ DOMAIN reply.allocations = DOMAIN stored.orders
          /\ \A o \in DOMAIN stored.orders :
                reply.allocations[o] \in IdsOf(snapshot) \cup {None}
          /\ reply.changed \subseteq IdsOf(stored.orders)

Answered == stage = "answered" /\ reply # None
ListedOnce(entries) ==
    \A j, k \in DOMAIN entries : j # k => entries[j].name # entries[k].name
UniqueRows(rows) == \A j, k \in DOMAIN rows : j # k => rows[j].id # rows[k].id
AsStored == Simulated(stored.config, stored.partners).chosen

(* A simulation without mutations finds again what the pipeline chose, so    *)
(* that the orders it reports as changed are those the reservations gave to  *)
(* another partner: the simulator evaluates without reservations and         *)
(* compares with the trace the handler rewrote.  Only if the weights were    *)
(* not escalated, which the simulator does not do, if the snapshot's         *)
(* rounding moved nobody, and if no two orders and no two scoring rules      *)
(* share a name.                                                             *)
EmptySpecReportsReservations ==
    Answered /\ spec = <<>> /\ ~stored.escalated
        /\ stored.orders = Orders /\ stored.partners = Partners
        /\ UniqueRows(stored.orders) /\ ListedOnce(stored.config.scoring) =>
      /\ reply.allocations = stored.chosen
      /\ reply.changed = {stored.orders[o].id :
                            o \in {k \in DOMAIN stored.orders : stored.selected[k] # stored.chosen[k]}}

(* A configuration that was loaded once is loaded again unchanged: what the  *)
(* detector resolves is within its own tolerance.  The simulator relies on   *)
(* it when it resolves the stored weights anew, replay when it does not.     *)
(* Not if a scoring rule is listed twice: equal shares are counted for each  *)
(* entry, and then sum to less than one.                                     *)
ReloadKeepsConfig ==
    stored # None /\ ListedOnce(stored.config.scoring) => Loaded(stored.config) = stored.config

(* Whatever is evaluated, for a decision or for a simulation, some rating    *)
(* passes its rating rules: contradictory bounds are caught after the        *)
(* mutations, not only in the file.  Not if a rating rule is listed twice    *)
(* with two bounds: the detector compares the last, the pipeline applies     *)
(* both.                                                                     *)
SomeRatingPasses ==
    Answered \/ stage = "stored" =>
      LET c == IF Answered THEN config ELSE stored.config
          bounds == {e \in EnabledEntries(c.hard) : e.name \in {"min_rating", "max_rating"}}
      IN  (\A d, e \in bounds : d # e => d.name # e.name) =>
          \E stars \in {Param(e, e.name, 0) : e \in bounds} \cup {0} : \A e \in bounds :
              Passes(e, c.compat, None, [rating |-> stars])

(* Three mutations that leave every allocation where it is.  Each does by a  *)
(* route of its own:                                                         *)
(*  - switching a scoring rule on, and nothing else: the weights the loader  *)
(*    stores have no entry for a rule that was off, so that the simulation   *)
(*    gives it none, whatever rules.yaml had for it.  Not when no scoring    *)
(*    rule was on: then the weights are stored as they are;                  *)
(*  - the weight the form shows for a rule, sent back: what is shown is the  *)
(*    weight after the detector's resolution, and resolving it again with    *)
(*    the others leaves it, as long as the file has not changed;             *)
(*  - a partner sent as it is stored, as far as the fields of a mutation can *)
(*    express it: loads come from the manifest and not from the rebuilt row. *)
(*    Condition, average time and raw vehicle type are lost, and each loss   *)
(*    is without effect unless the one rule that reads the field is enabled. *)
EnablesAScore(m) ==
    /\ m.type = "rule_toggle" /\ m.value
    /\ ListedOnce(stored.config.scoring)
    /\ Named(stored.config.hard, m.rule) = {}
    /\ ScoringNames(stored.config) # {}
RepeatsShownWeight(m) ==
    /\ m.type = "rule_weight"
    /\ ListedOnce(yaml.scoring)
    /\ m.rule \in ScoringNames(yaml)
    /\ m.value = OfferedWeights(yaml)[m.rule]
LossUnread(p) ==
    \A e \in EnabledEntries(stored.config.hard) \cup EnabledEntries(stored.config.scoring) :
        /\ e.name = "vehicle_condition" => p.condition = 1
        /\ e.name = "on_time_rate" => p.avg_time = 30
        /\ e.name = "weather_safety" => p.raw = None
RepeatsStoredPartners(m) ==
    /\ m.type = "partner_pool"
    /\ m.add = <<>> /\ m.remove = {} /\ UniqueRows(stored.partners)
    /\ \A j \in DOMAIN m.modify :
          \E k \in DOMAIN stored.partners :
            /\ RebuiltPartner(m.modify[j]) = RebuiltPartner(stored.partners[k])
            /\ LossUnread(stored.partners[k])
InertMutationsAreInert ==
    Answered /\ Len(spec) = 1
        /\ (\/ EnablesAScore(spec[1])
            \/ RepeatsShownWeight(spec[1])
            \/ RepeatsStoredPartners(spec[1])) =>
      reply.allocations = AsStored

(* Taking partners away who were chosen for nothing changes nothing for the  *)
(* others, unless it lowers the highest load the fairness score is scaled   *)
(* by: scores depend on the loads, and on the highest of them, but not on   *)
(* how many partners there are or how much they carry together.  Not if two  *)
(* rows share an id: the pool keeps the last of them, whoever is removed.    *)
KeepsHighestLoad(removed) ==
    \A i \in DOMAIN stored.loads \cap removed :
        \/ stored.loads[i] = 0
        \/ \E j \in DOMAIN stored.loads \ removed : stored.loads[j] >= stored.loads[i]
BystanderRemovalChangesNothing ==
    Answered /\ Len(spec) = 1 /\ spec[1].type = "partner_pool"
        /\ UniqueRows(stored.partners)
        /\ spec[1].add = <<>> /\ spec[1].modify = <<>>
        /\ (\A o \in DOMAIN AsStored : AsStored[o] \notin spec[1].remove)
        /\ ("fairness_score" \in ScoringNames(stored.config) => KeepsHighestLoad(spec[1].remove)) =>
      reply.allocations = AsStored

(* An order somebody passes the hard rules for is allocated, as the reason   *)
(* NO_PARTNER_PASSED_HARD_RULES for the others says, as long as the negative *)
(* weights add up to less than one.  With more, the search, which begins     *)
(* with a score of -1.0, may find nobody above it.                           *)
NegativeWeight(c) ==
    Total([k \in ScoringAt(c) |-> Above(0, -ResolvedWeights(c)[c.scoring[k].name])])
UnallocatedMeansNobodyPassed ==
    Answered /\ NegativeWeight(config) < One =>
      LET run == Simulated(config, snapshot)
      IN  \A o \in DOMAIN run.chosen : run.chosen[o] = None => run.eligible[o] = {}

(* Nobody sent as riding a vehicle the rule restricts, a motorcycle or       *)
(* scooter unless it is told otherwise, in whatever spelling and field, is   *)
(* given an order in a storm while the rule is on, through the coercion of   *)
(* the request, the rule and the reservations.  A raw type takes precedence, *)
(* and one that is unknown lifts the restriction.  In a simulation a rebuilt *)
(* partner has lost the type, and so the restriction.                        *)
RestrictedStayOffTheRoad ==
    stored # None =>
      \A e \in EnabledEntries(stored.config.hard),
         o \in DOMAIN payload.orders, k \in DOMAIN payload.partners :
            LET sent == payload.partners[k]
            IN  /\ e.name = "weather_safety"
                /\ payload.orders[o].weather
                      \in Param(e, "severe_conditions", {"Stormy", "Sandstorms"})
                /\ Upper(Or(sent.raw, sent.vehicle_type)) \in DOMAIN RawToCore
                /\ Upper(Or(sent.raw, sent.vehicle_type))
                      \in Param(e, "restricted_vehicles", {"MOTORCYCLE", "SCOOTER"})
                /\ UniqueRows(payload.partners)
                => stored.selected[o] # sent.id /\ stored.chosen[o] # sent.id

(* The sum over ranks the code computes is the mean difference that defines  *)
(* the index, and the fraction lies in [0, 1), so that the clamp of the code *)
(* never acts and a threshold of one or more switches the escalation off.    *)
GiniIsMeanDifference ==
    stored # None =>
      LET x == stored.loads
      IN  /\ 2 * GiniNumerator(x) =
                Total([i \in DOMAIN x |->
                          Total([j \in DOMAIN x |-> Above(x[i], x[j]) - Below(x[i], x[j])])])
          /\ Total(x) > 0 => GiniNumerator(x) \in 0..GiniDenominator(x) - 1

(* An escalation moves weight towards fairness only: the weights it leaves   *)
(* sum to one up to their rounding, fairness is not worth less than before,  *)
(* and the other rules keep their order.  For a factor of one or more and    *)
(* weights that are not negative.                                            *)
EscalationFavoursFairness ==
    stored # None /\ stored.escalated /\ stored.config.factor >= 10
        /\ ListedOnce(stored.config.scoring)
        /\ ScoringNames(stored.config) # {}
        /\ (\A n \in DOMAIN stored.config.weights : stored.config.weights[n] >= 0) =>
      LET old == stored.config.weights
          new == AdjustedWeights(stored.config, stored.loads)
          others == DOMAIN old \ {"fairness_score"}
      IN  /\ Above(Total(new), One) - Below(Total(new), One) <= Cardinality(DOMAIN new)
          /\ new["fairness_score"] + Tolerance + 1 >= old["fairness_score"]
          /\ \A a, b \in others : old[a] <= old[b] => new[a] <= new[b]
          /\ \A a \in others : new[a] <= old[a] + Tolerance + 1
=============================================================================
