------------------------------ MODULE AuditTrail ------------------------------
(***************************************************************************)
(* What a decision leaves behind and what is read of it later: sealing     *)
(* (engine/manifest.py), the rows POST /allocations commits, the lookups   *)
(* of persistence/repository.py, and the routes of api/routers/audit.py    *)
(* and presentation.py that verify, replay and summarise.                  *)
(*                                                                         *)
(* The pipeline is the operator Walk, about which nothing is assumed; the  *)
(* reservations turn its choices into others.  A SHA-256 hash is the value *)
(* hashed and an HMAC the pair of key and text: no two collide.  The       *)
(* conflict report goes the way of the fairness event and is left out.     *)
(*                                                                         *)
(* Between commit and reading, rows may be altered in the database, rules  *)
(* may be edited and the service may come back with another signing key.   *)
(***************************************************************************)
EXTENDS Integers, FiniteSets, Sequences

CONSTANTS
    None,
    Runs,               \* requests, named by the manifest_id each will have
    Inputs,             \* [load: partner -> Nat, pos: what rounding may change, ...]
    Rules,              \* loaded rules.yaml: [hard: names of enabled rules, ...]
    Keys,               \* values of SDM_SIGNING_KEY
    Walk(_, _, _, _),   \* config, weights, input, loads -> order traces
    Weigh(_, _),        \* config, loads -> weights after adjust_weights
    Escalation(_, _),   \* and its fairness event, or None
    Rounded(_),         \* round(x, 8)
    MaxClock, MaxChanges

VARIABLES
    rules, key,         \* what the service would read now
    clock,
    pending,            \* of each run, what it will commit, or None
    manifests, snapshots, configs, events, responses,   \* the tables
    changes,            \* of the rules file, the key or a row, so far
    sealed              \* history: of each run committed, what it committed

vars == <<rules, key, clock, pending, manifests, snapshots, configs, events,
          responses, changes, sealed>>
tables == <<manifests, snapshots, configs, events, responses>>

-----------------------------------------------------------------------------
Get(f, x, default) == IF x \in DOMAIN f THEN f[x] ELSE default
Put(f, x, v) == [y \in DOMAIN f \cup {x} |-> IF y = x THEN v ELSE f[y]]
NoRows == [x \in {} |-> None]
RangeOf(s) == {s[k] : k \in DOMAIN s}

RoundedAll(f) == [x \in DOMAIN f |-> Rounded(f[x])]

(* build_input_snapshot; snapshot_to_orders and snapshot_to_partners undo   *)
(* it but for the rounding.                                                 *)
Kept(input) == [input EXCEPT !.pos = RoundedAll(@)]

(* resolve_partner_loads *)
Loads(input, observed) ==
    [p \in DOMAIN input.load |->
        IF input.load[p] < Get(observed, p, 0) THEN Get(observed, p, 0) ELSE input.load[p]]

(* evaluate, as far as its trace goes: an order trace has order, candidates *)
(* and chosen, a candidate has partner, failed (a rule) and score.          *)
Trace(config, weights, input, observed, event) ==
    [orders |-> Walk(config, weights, input, Loads(input, observed)),
     weights |-> RoundedAll(weights), loads |-> Loads(input, observed), event |-> event]

(* What the handler evaluates. *)
Decision(config, input) ==
    LET loads == Loads(input, NoRows)
    IN  Trace(config, Weigh(config, loads), input, loads, Escalation(config, loads))

(* Loads are counts, a trace is a list, and what has been rounded stays.    *)
ASSUME AuditTrailAssumption ==
    /\ MaxClock \in Nat /\ MaxChanges \in Nat
    /\ \A input \in Inputs :
          /\ "load" \in DOMAIN input /\ Kept(Kept(input)) = Kept(input)
          /\ \A p \in DOMAIN input.load : input.load[p] \in Nat
          /\ \A config \in Rules :
                LET rows == Decision(config, input).orders
                    weights == Decision(config, input).weights
                IN  rows \in Seq(RangeOf(rows)) /\ RoundedAll(weights) = weights

-----------------------------------------------------------------------------
(* Reservations.                                                           *)

Eligible(row) == {c \in RangeOf(row.candidates) : c.failed = None}
Better(c, d) == c.score > d.score \/ (c.score = d.score /\ c.partner <= d.partner)

(* The best-ranked partner that is not denied. *)
Taken(row, denied) ==
    LET free == {c \in Eligible(row) : c.partner \notin denied}
    IN  IF row.chosen = None \/ free = {} THEN None
        ELSE (CHOOSE c \in free : \A d \in free : Better(c, d)).partner

(* _apply_partner_reservations: denied[k] are the partners others hold when *)
(* the k-th order's turn comes (AllocateRequest has them step by step).     *)
Reserved(rows, denied) ==
    LET taken[k \in DOMAIN rows] ==
            Taken(rows[k], denied[k] \cup {taken[j] : j \in 1..k - 1})
    IN  [k \in DOMAIN rows |-> [rows[k] EXCEPT !.chosen = taken[k]]]

-----------------------------------------------------------------------------
(* build_aggregate_diagnostics                                             *)

Failures(rows) == {kc \in UNION {{k} \X DOMAIN rows[k].candidates : k \in DOMAIN rows} :
                        rows[kc[1]].candidates[kc[2]].failed # None}
FailedAt(rows, kc) == rows[kc[1]].candidates[kc[2]].failed
Codes(row) == {c.failed : c \in RangeOf(row.candidates)} \ {None}
Unallocated(rows) == {k \in DOMAIN rows : rows[k].chosen = None}

Diagnostics(rows, names) ==
    [allocated |-> Cardinality(DOMAIN rows \ Unallocated(rows)),
     unallocated |-> Cardinality(Unallocated(rows)),
     eliminated |-> [rule \in names \cup {FailedAt(rows, f) : f \in Failures(rows)} |->
                        Cardinality({f \in Failures(rows) : FailedAt(rows, f) = rule})],
     combinations |-> [codes \in {Codes(rows[k]) : k \in Unallocated(rows)} |->
                        Cardinality({k \in Unallocated(rows) : Codes(rows[k]) = codes})]]

(* An order trace names its order and has finitely many candidates, with a  *)
(* score if no rule failed them.                                            *)
IsOrderTrace(row) ==
    /\ {"order", "candidates", "chosen"} \subseteq DOMAIN row
    /\ IsFiniteSet(RangeOf(row.candidates))
    /\ \A c \in Eligible(row) : c.score \in Int /\ c.partner \in Int

ASSUME OrderTraceAssumption ==
    \A input \in Inputs : \A config \in Rules :
        \A k \in DOMAIN Decision(config, input).orders :
            IsOrderTrace(Decision(config, input).orders[k])

-----------------------------------------------------------------------------
(* Sealing and the transaction.                                            *)

Signed(k, trace_hash, input_hash, config_hash, event) ==
    [key |-> k, text |-> <<trace_hash, input_hash, config_hash, event>>]

(* ManifestBuilder.build.  manifest_id and decided_at are not signed. *)
Manifest(run, trace, input) ==
    [id |-> run, decided_at |-> clock, trace |-> trace, trace_hash |-> trace,
     input_hash |-> Kept(input), config_hash |-> rules, event |-> trace.event,
     signature |-> Signed(key, trace, Kept(input), rules, trace.event)]

(* Mutant: the diagnostics the pipeline returned. *)
StagedUnadjusted(run, input, choice, rows) ==
    [manifest |-> Manifest(run, [choice EXCEPT !.orders = rows], input),
     input |-> input, config |-> rules, adds_config |-> rules \notin DOMAIN configs,
     choice |-> choice,
     events |-> [k \in DOMAIN rows |->
                    [order |-> rows[k].order, run |-> run, partner |-> rows[k].chosen]],
     response |-> Diagnostics(choice.orders, rules.hard)]

(* The rows of one request, before the commit.  put_if_absent adds the      *)
(* configuration if it is not there.                                        *)
Staged(run, input, choice, rows) ==
    [manifest |-> Manifest(run, [choice EXCEPT !.orders = rows], input),
     input |-> input, config |-> rules, adds_config |-> rules \notin DOMAIN configs,
     choice |-> choice,
     events |-> [k \in DOMAIN rows |->
                    [order |-> rows[k].order, run |-> run, partner |-> rows[k].chosen]],
     response |-> Diagnostics(rows, rules.hard)]

Init ==
    /\ rules \in Rules /\ key \in Keys
    /\ clock = 0
    /\ pending = [r \in Runs |-> None]
    /\ manifests = NoRows /\ snapshots = NoRows /\ configs = NoRows
    /\ events = <<>> /\ responses = NoRows
    /\ changes = 0
    /\ sealed = NoRows

Decide(r) ==
    /\ pending[r] = None /\ r \notin DOMAIN sealed
    /\ \E input \in Inputs :
         LET choice == Decision(rules, input)
         IN  \E denied \in [DOMAIN choice.orders -> SUBSET DOMAIN input.load] :
               pending' = [pending EXCEPT ![r] =
                             Staged(r, input, choice, Reserved(choice.orders, denied))]
    /\ UNCHANGED <<rules, key, clock, tables, changes, sealed>>

(* Mutant: what the session has added besides the manifest is forgotten. *)
CommitWithoutConfig(r) ==
    /\ pending[r] # None
    /\ LET p == pending[r]
       IN  /\ manifests' = Put(manifests, r, p.manifest)
           /\ snapshots' = Put(snapshots, p.manifest.input_hash, p.manifest.input_hash)
           /\ events' = events \o p.events
           /\ responses' = Put(responses, r, p.response)
           /\ sealed' = Put(sealed, r, p)
    /\ pending' = [pending EXCEPT ![r] = None]
    /\ UNCHANGED <<rules, key, clock, configs, changes>>

(* merge of the snapshot writes over the row that is there.  A second       *)
(* INSERT of one configuration fails: see Fail.                             *)
Commit(r) ==
    /\ pending[r] # None
    /\ pending[r].adds_config => pending[r].config \notin DOMAIN configs
    /\ LET p == pending[r]
       IN  /\ manifests' = Put(manifests, r, p.manifest)
           /\ snapshots' = Put(snapshots, p.manifest.input_hash, p.manifest.input_hash)
           /\ configs' = IF p.adds_config THEN Put(configs, p.config, p.config) ELSE configs
           /\ events' = events \o p.events
           /\ responses' = Put(responses, r, p.response)
           /\ sealed' = Put(sealed, r, p)
    /\ pending' = [pending EXCEPT ![r] = None]
    /\ UNCHANGED <<rules, key, clock, changes>>

Fail(r) ==
    /\ pending[r] # None
    /\ pending' = [pending EXCEPT ![r] = None]
    /\ UNCHANGED <<rules, key, clock, tables, changes, sealed>>

-----------------------------------------------------------------------------
(* What happens to the service and the tables meanwhile.                   *)

Changing == changes < MaxChanges /\ changes' = changes + 1

Tick ==
    /\ clock < MaxClock /\ clock' = clock + 1
    /\ UNCHANGED <<rules, key, pending, tables, changes, sealed>>

EditRules ==
    /\ Changing
    /\ rules' \in Rules \ {rules}
    /\ UNCHANGED <<key, clock, pending, tables, sealed>>

Restart ==
    /\ Changing
    /\ key' \in Keys \ {key}
    /\ pending' = [r \in Runs |-> None]
    /\ UNCHANGED <<rules, clock, tables, sealed>>

(* A choice in the stored trace, alone or with its hash. *)
AlterTrace(r) ==
    /\ Changing
    /\ \E k \in DOMAIN manifests[r].trace.orders :
       \E p \in {c.partner : c \in RangeOf(manifests[r].trace.orders[k].candidates)} \cup {None} :
         LET forged == [manifests[r].trace EXCEPT !.orders[k].chosen = p]
         IN  /\ forged # manifests[r].trace
             /\ \E hash \in {forged, manifests[r].trace_hash} :
                  manifests' = [manifests EXCEPT ![r].trace = forged, ![r].trace_hash = hash]
    /\ UNCHANGED <<rules, key, clock, pending, snapshots, configs, events, responses, sealed>>

AlterEvent(r) ==
    /\ Changing
    /\ manifests[r].event # None
    /\ manifests' = [manifests EXCEPT ![r].event = None]
    /\ UNCHANGED <<rules, key, clock, pending, snapshots, configs, events, responses, sealed>>

AlterSnapshot(h) ==
    /\ Changing
    /\ \E p \in DOMAIN snapshots[h].load : snapshots' = [snapshots EXCEPT ![h].load[p] = @ + 1]
    /\ UNCHANGED <<rules, key, clock, pending, manifests, configs, events, responses, sealed>>

AlterConfig(h) ==
    /\ Changing
    /\ \E c \in Rules \ {configs[h]} : configs' = [configs EXCEPT ![h] = c]
    /\ UNCHANGED <<rules, key, clock, pending, manifests, snapshots, events, responses, sealed>>

-----------------------------------------------------------------------------
(* Readers.                                                                *)

(* initial_partner_loads_for_replay *)
ReplayLoads(trace, input) == [p \in DOMAIN input.load |-> Get(trace.loads, p, 0)]

(* Mutant: with the weights of the stored configuration. *)
ReplayedWithConfig(m) ==
    LET input == snapshots[m.input_hash]
        loads == ReplayLoads(m.trace, input)
    IN  Trace(configs[m.config_hash], Weigh(configs[m.config_hash], NoRows), input, loads, m.event)

(* What verify and replay evaluate again: no reservations. *)
Replayed(m) ==
    LET input == snapshots[m.input_hash]
    IN  Trace(configs[m.config_hash], m.trace.weights, input, ReplayLoads(m.trace, input), m.event)

(* dict by order id: of two orders of one id the last. *)
Decisions(trace) ==
    [o \in {row.order : row \in RangeOf(trace.orders)} |->
        trace.orders[CHOOSE k \in DOMAIN trace.orders :
            /\ trace.orders[k].order = o
            /\ \A j \in DOMAIN trace.orders : trace.orders[j].order = o => j <= k].chosen]

TraceMatch(m) == Replayed(m) = m.trace_hash /\ m.trace = m.trace_hash
InternalHashesValid(m) ==
    m.trace = m.trace_hash /\ Kept(snapshots[m.input_hash]) = m.input_hash
SignatureOf(m) == Signed(key, m.trace_hash, m.input_hash, m.config_hash, m.event)
(* Mutant: the hashes without the signature. *)
HashesAloneValid(m) == InternalHashesValid(m)
SignatureValid(m) == SignatureOf(m) = m.signature /\ InternalHashesValid(m)

(* audit_verify: VERIFIED or TAMPERED. *)
Verified(m) ==
    TraceMatch(m) /\ SignatureValid(m) /\ Decisions(m.trace) = Decisions(Replayed(m))

(* audit_replay: SUCCESS or MISMATCH. *)
ReplaySucceeds(m) ==
    Replayed(m) = m.trace_hash /\ Decisions(m.trace) = Decisions(Replayed(m))

(* find_manifest_id_by_order, through the events: the last. *)
EventsOf(order) == {k \in DOMAIN events : events[k].order = order}
Last(at) == CHOOSE k \in at : \A j \in at : j <= k
LastEvent(order) == events[Last(EventsOf(order))]
(* Mutant: of the manifests, the one decided last. *)
ManifestByDecision(order) ==
    IF EventsOf(order) = {} THEN None
    ELSE events[CHOOSE k \in EventsOf(order) :
                  \A j \in EventsOf(order) :
                      manifests[events[j].run].decided_at <= manifests[events[k].run].decided_at].run
(* Mutant: the first. *)
ManifestOfFirst(order) ==
    IF EventsOf(order) = {} THEN None
    ELSE events[CHOOSE k \in EventsOf(order) : \A j \in EventsOf(order) : k <= j].run
ManifestOf(order) == IF EventsOf(order) = {} THEN None ELSE LastEvent(order).run

(* get_latest: any of those decided last. *)
Latest == {m \in RangeOf(manifests) : \A n \in RangeOf(manifests) : n.decided_at <= m.decided_at}

(* get_rejection_summary: status and partner of the event, the rest of the  *)
(* first order trace of that id.  chosen is what that trace says.           *)
SummaryIn(rows, order) ==
    LET at == {k \in DOMAIN rows : rows[k].order = order}
        row == rows[CHOOSE k \in at : \A j \in at : k <= j]
    IN  IF at = {} THEN None
        ELSE [partner |-> LastEvent(order).partner, chosen |-> row.chosen,
              failures |-> {<<c.failed, c.partner>> : c \in RangeOf(row.candidates) \ Eligible(row)},
              surviving |-> {c.partner : c \in Eligible(row)}]
(* Mutant: the trace of the latest manifest. *)
SummaryOfLatest(order) == SummaryIn((CHOOSE m \in Latest : TRUE).trace.orders, order)
Summary(order) == SummaryIn(manifests[LastEvent(order).run].trace.orders, order)

(* latest_diagnostics, of the manifest get_latest finds. *)
StoredDiagnostics(m) == Diagnostics(m.trace.orders, Get(configs, m.config_hash, [hard |-> {}]).hard)

-----------------------------------------------------------------------------
Next ==
    \/ \E r \in Runs : Decide(r) \/ Commit(r) \/ Fail(r)
    \/ Tick \/ EditRules \/ Restart
    \/ \E r \in DOMAIN manifests : AlterTrace(r) \/ AlterEvent(r)
    \/ \E h \in DOMAIN snapshots : AlterSnapshot(h)
    \/ \E h \in DOMAIN configs : AlterConfig(h)

Spec == Init /\ [][Next]_vars

-----------------------------------------------------------------------------
(* Properties.                                                             *)

(* Every run's rows refer to rows that are there: no reader that finds an    *)
(* event or a manifest answers 404 for want of the others.                   *)
TypeOK ==
    /\ rules \in Rules /\ key \in Keys /\ clock \in 0..MaxClock /\ changes \in 0..MaxChanges
    /\ DOMAIN pending = Runs
    /\ DOMAIN manifests = DOMAIN sealed /\ DOMAIN responses = DOMAIN sealed
    /\ \A r \in DOMAIN manifests :
          /\ r \in Runs /\ pending[r] = None /\ manifests[r].id = r
          /\ manifests[r].input_hash \in DOMAIN snapshots
          /\ manifests[r].config_hash \in DOMAIN configs
    /\ \A k \in DOMAIN events : events[k].run \in DOMAIN manifests

(* The rows of a run are as it committed them. *)
Intact(r) ==
    /\ manifests[r] = sealed[r].manifest
    /\ snapshots[manifests[r].input_hash] = Kept(sealed[r].input)
    /\ configs[manifests[r].config_hash] = sealed[r].config
SameKey(r) == sealed[r].manifest.signature.key = key

(* What the pipeline chooses for the input and the weights of a run as they  *)
(* were kept, rounded, with nobody reserved.                                 *)
Unreserved(r) ==
    LET start == Loads(sealed[r].input, NoRows)
    IN  Walk(sealed[r].config, RoundedAll(Weigh(sealed[r].config, start)), Kept(sealed[r].input), start)

(* Rounding has changed nothing: neither the input nor the weights. *)
OnGrid(r) ==
    LET weights == Weigh(sealed[r].config, Loads(sealed[r].input, NoRows))
    IN  Kept(sealed[r].input) = sealed[r].input /\ RoundedAll(weights) = weights

(* Who sees VERIFIED sees the trace, the fairness event and the input that   *)
(* were sealed, under the key in use: a row altered with its own hash, or    *)
(* without, is found out.  The stored configuration is not hashed again: an  *)
(* altered one passes as long as it leads to the same trace; and the date    *)
(* of a decision is not signed.                                              *)
VerifiedIsUnaltered ==
    \A r \in DOMAIN manifests :
        Verified(manifests[r]) =>
            /\ manifests[r].trace = sealed[r].manifest.trace
            /\ manifests[r].event = sealed[r].manifest.event
            /\ Kept(snapshots[manifests[r].input_hash]) = Kept(sealed[r].input)
            /\ SameKey(r)

(* An authentic run is reported as VERIFIED, and its replay as SUCCESS,      *)
(* exactly when what was committed is what the pipeline chooses, without     *)
(* reservations, from the rounded input and weights; otherwise it is         *)
(* reported as TAMPERED.  Where rounding has changed nothing that is what    *)
(* the request saw before its reservations; where it has, a near tie may     *)
(* have turned without any.                                                  *)
VerifiedUnlessReselected ==
    \A r \in DOMAIN manifests :
        Intact(r) /\ SameKey(r) =>
            LET same == sealed[r].manifest.trace.orders = Unreserved(r)
            IN  /\ Verified(manifests[r]) = same
                /\ ReplaySucceeds(manifests[r]) = same
                /\ OnGrid(r) => Unreserved(r) = sealed[r].choice.orders

(* The signature alone tells an alteration from a reservation: whatever was  *)
(* reselected or rounded, and whichever rules are in force by now, it stays  *)
(* valid until a row or the key changes.                                     *)
SignatureSurvivesReservations ==
    \A r \in DOMAIN manifests : Intact(r) /\ SameKey(r) => SignatureValid(manifests[r])

(* An authentic run is reported as VERIFIED: test_presentation_api.py        *)
(* asserts as much of a run through the route.                               *)
AuthenticIsVerified ==
    \A r \in DOMAIN manifests : Intact(r) /\ SameKey(r) => Verified(manifests[r])

(* A commit makes its run the one its orders lead to, in whatever order the  *)
(* runs were decided, and moves no other order.                              *)
OrdersOf(r) == {row.order : row \in RangeOf(manifests[r].trace.orders)}
AllOrders == {row.order : row \in RangeOf(events)}
CommitIsVisible ==
    [][\A r \in DOMAIN manifests' \ DOMAIN manifests :
          \A o \in AllOrders' :
              ManifestOf(o)' = IF o \in OrdersOf(r)' THEN r ELSE ManifestOf(o)]_vars

(* The latest manifest, which the diagnostics show, is the one its orders    *)
(* lead to, unless a run that was decided no later was committed after it    *)
(* and names the order too: decided_at is taken before the commit.           *)
Overtaken(m, r, o) ==
    /\ manifests[r].decided_at <= m.decided_at
    /\ \E j, k \in EventsOf(o) : j < k /\ events[j].run = m.id /\ events[k].run = r
LatestUnlessOvertaken ==
    \A m \in Latest : \A o \in OrdersOf(m.id) :
        ManifestOf(o) = m.id \/ Overtaken(m, ManifestOf(o), o)

(* A rejection summary joins the last event of an order with an order trace  *)
(* of the same run: status and partner are those of the last row the run     *)
(* has for the order, in which the partner survived the hard rules, and the  *)
(* reasons are those of the first.  For an order named once the two are one  *)
(* and tell the same story.                                                  *)
SummaryAgreesWithTrace ==
    \A o \in AllOrders :
        LET r == LastEvent(o).run
            rows == sealed[r].manifest.trace.orders
            at == {k \in DOMAIN rows : rows[k].order = o}
            s == Summary(o)
        IN  Intact(r) =>
              /\ s # None
              /\ \E first, last \in at :
                    /\ \A k \in at : first <= k /\ k <= last
                    /\ s.chosen = rows[first].chosen /\ s.partner = rows[last].chosen
                    /\ s.surviving = {c.partner : c \in Eligible(rows[first])}
                    /\ s.partner # None => s.partner \in {c.partner : c \in Eligible(rows[last])}

(* The diagnostics recomputed from the tables are those the client got, and  *)
(* count the events of the run.                                              *)
DiagnosticsAgree ==
    \A r \in DOMAIN manifests :
        Intact(r) =>
            /\ StoredDiagnostics(manifests[r]) = responses[r]
            /\ responses[r].allocated =
                  Cardinality({k \in DOMAIN events : events[k].run = r /\ events[k].partner # None})
=============================================================================
