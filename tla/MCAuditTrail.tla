----------------------------- MODULE MCAuditTrail -----------------------------
(***************************************************************************)
(* Instances of AuditTrail with a pipeline of one hard rule, the capacity, *)
(* and two scores, nearness and fairness.  Rounding keeps even numbers.    *)
(***************************************************************************)
EXTENDS AuditTrail
LOCAL INSTANCE TLC

(* Neither runs nor keys are compared but for equality. *)
MCSymmetry == Permutations(Runs) \cup Permutations(Keys)

MCRounded(x) == 2 * ((x + 1) \div 2)

Input(rows, load, pos) == [rows |-> rows, load |-> load, pos |-> pos]
MCInputs ==
    { Input(<<1, 2>>, <<0, 1>>, <<8, 2>>),      \* one partner is best for both
      Input(<<2, 2>>, <<0, 0>>, <<5, 6>>) }     \* an order named twice; rounding makes a tie

MCOneInput == {Input(<<1, 2>>, <<0, 0>>, <<8, 2>>)}

Ruleset(hard, cap, fair) == [hard |-> hard, cap |-> cap, weights |-> [near |-> 2, fair |-> fair]]
MCRules == {Ruleset({"load_capacity"}, 1, 1), Ruleset({}, 9, 2)}
MCOneRule == {Ruleset({"load_capacity"}, 2, 2)}

Uneven(loads) == \E p, q \in DOMAIN loads : loads[p] > loads[q]
MCWeigh(config, loads) ==
    IF Uneven(loads) THEN [config.weights EXCEPT !.fair = 2 * @ + 2] ELSE config.weights
MCEscalation(config, loads) == IF Uneven(loads) THEN "escalated" ELSE None

MCWalk(config, weights, input, loads) ==
    LET partners == DOMAIN input.load
        candidate(p, now) ==
            IF "load_capacity" \in config.hard /\ now[p] >= config.cap
            THEN [partner |-> p, failed |-> "load_capacity", score |-> None]
            ELSE [partner |-> p, failed |-> None,
                  score |-> weights.near * input.pos[p] + weights.fair * (4 - now[p])]
        best(cands) ==
            LET passing == {p \in partners : cands[p].failed = None}
            IN  IF passing = {} THEN None
                ELSE CHOOSE p \in passing : \A q \in passing :
                        cands[q].score < cands[p].score \/ (cands[q].score = cands[p].score /\ p <= q)
        after[k \in 0..Len(input.rows)] ==
            IF k = 0 THEN [rows |-> <<>>, loads |-> loads]
            ELSE LET before == after[k - 1]
                     cands == [p \in partners |-> candidate(p, before.loads)]
                     who == best(cands)
                 IN  [rows |-> Append(before.rows,
                                      [order |-> input.rows[k], candidates |-> cands, chosen |-> who]),
                      loads |-> IF who = None THEN before.loads
                                ELSE [before.loads EXCEPT ![who] = @ + 1]]
    IN  after[Len(input.rows)].rows
=============================================================================
