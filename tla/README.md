# TLA+ models of the dynamic resource allocator

The service in `src/allocation-prototype` assigns delivery orders to delivery
partners. `POST /allocations` loads the rule configuration, runs a deterministic
pipeline (hard rules filter, scoring rules rank), reserves the chosen partners in
memory, writes the decision with everything needed to replay it in one database
transaction, gives the reservations back and answers. A retry under the same
`X-Idempotency-Key` is answered from the stored response. Audit routes verify,
replay, explain and simulate what was stored.

This directory holds specifications of that program translated from its code, TLC
runs over small instances, and TLAPS proofs. Paths below are relative to
`src/allocation-prototype/src/allocation/` unless they begin with `tests/`.

## Inventory

| Component | State | Operations | Talks to |
| --- | --- | --- | --- |
| Reservation store, `reservation/store.py` | three dictionaries keyed by partner (`_reservations`, `_expiry_deadlines`, `_locks`) under one lock; two clocks; a module global for the shared instance | `reserve`, `release`, `is_reserved`, `release_all_for_order`, `current_reservations`, `get_reservation_store` | called by the request handler and the active-reservations route from many threads |
| Request handler, `api/routers/allocate.py` | local variables of one thread: where it is, reserved pairs, attempted orders, pending rows | `POST /allocations` | store, session, pipeline, configuration, tracker |
| Persistence, `persistence/*.py` | tables for manifests, input snapshots, configuration versions, idempotency records, allocation events | `save`, `append_events`, `put_if_absent`, `get`, queries of the audit routes; unique keys, one commit per request | handler, audit, replay, simulation |
| Fairness tracker, `fairness/tracker.py` | a deque of (time, partner) in memory | `record_assignment`, `get_load_counts` | written by the handler after the commit; nothing in the service reads it |
| Pipeline and loads, `engine/pipeline.py`, `engine/loads.py` | loads per partner, local to one evaluation | `evaluate`, `resolve_partner_loads` | rules; called by the handler, replay, counterfactuals |
| Rules, `rules/**` | none | `evaluate`, `score` | pipeline |
| Configuration and conflicts, `config/loader.py`, `rules/conflict.py` | none | load, detect conflicts, normalise weights | handler |
| Fairness index, `fairness/gini.py` | none | Gini index, escalation of the fairness weight | handler |
| Manifests and replay, `engine/manifest.py`, `engine/replay.py` | stored manifests | build, hash, sign, verify, replay | handler, audit |
| Audit and presentation, `api/routers/audit.py`, `presentation.py` | none | verify, explain, list rejections, latest manifest | persistence, replay |
| Counterfactual, `simulation/counterfactual.py`, `api/routers/simulate.py` | none | mutate copies of a stored snapshot and configuration and evaluate again | persistence, configuration, pipeline |
| Request schemas, `api/schemas.py` | none | normalise and reject orders and partners | handler |
| Application wiring, `api/app.py` | the tracker and the engine of a process | start-up, static files, the options a simulation form offers | everything |
| Zomato adapter, sample generator, demos, migrations | files | offline | nothing at run time |

What is hard, by component, and what would make it correct:

* **Reservation store.** Entries expire on one clock, are shown with another, and
  stay in the dictionaries until some call looks at them. Correct: a caller cannot
  tell it from a table whose leases end by themselves at the deadline; a release
  frees nothing but the caller's own live reservation; what a reader is shown is
  what the store acts on. The instance is created lazily and without a lock.
  Correct: one store, one holder for each partner.
* **Request handler.** Threads interleave between any two calls; a request may die
  anywhere; the database may fail at any statement; the process may restart between
  the commit and the answer; a reservation may expire while its request still works;
  the client retries. Correct: what a request counts on is really reserved, for its
  order; no partner serves two requests at a time or two orders of one request; every
  reservation is given back on every path; a key commits one decision, and the answer
  a client got is the answer it will get again; a started request is answered.
* **Persistence.** Reads happen long before the writes that depend on them
  (`merge`, `put_if_absent`). Correct: a committed manifest always finds its snapshot
  and its configuration, whichever transaction wrote them.
* **Tracker.** Written after the commit, lost at a restart. Correct: it never counts
  an assignment that was not committed, nor one twice.
* **Pipeline, rules.** Greedy, each order sees the loads the earlier ones left.
  Correct: the loads are respected; the choice is the best of the eligible; the
  order of the payload does not matter; ranking and choice agree.
* **Fairness index, conflicts.** Exact arithmetic at zero and at the boundary; weights
  that do not sum to one, resolved at load and again by each simulation, not by a
  replay. Correct: the index is the mean difference that defines it, an escalation moves
  weight towards fairness only, resolving twice is resolving once, contradictory bounds
  are caught wherever they come from.
* **Schemas, rules.** The raw vehicle type arrives in several fields and spellings and
  decides about safety. Correct: a restriction holds however it was spelled.
* **Manifests, replay, audit.** Replay sees the input but not the reservations that
  shaped the decision; rows are altered; the key changes; "latest" is decided by a time
  taken before the commit. Correct: what is verified is what was sealed, an authentic
  run is told from an altered one, readers that join tables tell one story.
* **Counterfactual.** Starts from rounded inputs and base weights, without
  reservations, with rebuilt rows. Correct: a mutation that changes nothing changes no
  allocation, and what changes is due to the mutation.

`PROJECT.json` lists every such hazard at its line, with the properties that cover
it or the reason none does yet.

## Modules

```
PartnerLease         what the reservation store promises          (abstract)
  ^ implemented by
ReservationStore     class PartnerReservationStore, method by method
  ^ the instance of it that callers share
StoreSingleton       get_reservation_store, the unsynchronised creation

PartnerLease  <-- INSTANCE --  AllocateRequest   POST /allocations, any number
                                                 of threads, tables, restarts

Pipeline             DeterministicAllocationPipeline.evaluate, and the ranking the
                     handler makes of its trace; any result of it is a value of
                     the constant Plan of AllocateRequest

Rules                every hard and scoring rule
  ^ EXTENDS
Payloads             request JSON, domain object, snapshot row, mutation payload
  ^ EXTENDS
RuleConfig           conflict detection, loader, rule set, Gini index, escalation
  ^ EXTENDS
WhatIf               from a request to its stored decision, and POST /simulations

AuditTrail           sealing, the tables, and what the audit routes say of them
                     later; the pipeline is a constant operator
```

`<module>_proofs` hold the theorems; `MC<module>` and its `.cfg` files the instances
for TLC. An operator whose comment starts with "Mutant:" is a deliberately wrong form
of the definition below it; no action uses it, and each is the form of a plausible
slip for which one of the checked properties fails.

### `PartnerLease`

A table `lease[p]` with the time `left[p]`, and the operations `Grant`, `Deny`,
`Release`, `ReleaseAllForOrder`, `Elapse`. It is eager: a lease vanishes when its time
is up. It names no clock and no dictionary.

### `ReservationStore`

`reservations`, `expiry_deadlines`, `locks` are the dictionaries, as functions on
their keys. Every method holds `_store_lock` throughout, so each is one action; the
two outcomes of `reserve` are two actions. `Expired`/`Drop` are
`_evict_expired_locked`. `now` is `time.monotonic()`, `wall` is `time.time()`:
`Tick` moves both, `StepWallClock` moves only the second. `reply` is the value the
last call returned. `reserved_at` is left out: it is stored and never read.
`release_all_for_order` and the listing read the clock once for each entry; here
once for the call, so that an entry that runs out in the middle of the loop is seen
either before or after, as when the whole loop runs a little earlier or later.

`LeaseTable` and `TimeLeft` map the dictionaries to the abstract table: an entry
counts while `now < deadline`, evicted or not.

### `StoreSingleton`

The check (line 88), the creation (89) and the return (90) are three actions, as
threads may be switched between them. Each request fetches the store, reserves, fetches the
store again (as lines 106 and 316/321 of `allocate.py` do) and releases. All want one
partner for orders of their own. Time does not pass: the runs are about the first
milliseconds of a process. `warm`, chosen at the start, says whether a call was made
before the requests came.

### `AllocateRequest`

One copy of the handler's locals for each request:

| Variable | In the code |
| --- | --- |
| `pc` | the statement the thread is at; the phases are those between which other threads are noticed |
| `at`, `cand` | position in the loop over the payload (reserve, release, record) and in the ranked candidates |
| `outcome` | the partner each position got: `successful_reservations`, `request_reserved_partner_ids`, the events |
| `inserts` | which of the pending rows were planned as an INSERT by the SELECT that preceded them |
| `response` | which manifest the answer describes |
| `lease`, `left` | the reservation store, through `INSTANCE PartnerLease` |
| `tracker` | the deque, as a count for each partner |
| `manifests`, `snapshots`, `configs`, `idempotency` | committed rows; the manifest of request `r` is named `r` |
| `term` | bookkeeping: the ticks for which `r` may still count on a reservation, 0 once it has given it back |

The pipeline is a pure function of payload and configuration, so its result is the
constant `Plan`: for each position the order and its eligible partners, best first.
Proofs hold for every `Plan`.

Control flow: `Start` (line 213: stored response or go on), `Reject` (400),
`LoadConfig` (`put_if_absent`), then for each order `SkipCandidate`,
`CandidateGranted`, `CandidateDenied`, `NoCandidateLeft`; `BuildSnapshot` or
`SnapshotFails`; `StageSnapshot`, `StageIdempotency`; `Commit` or `CommitConflicts`;
`DatabaseFails` wherever a statement can raise; after the commit `ReleasePair` for
each pair, `RecordAssignment` for each allocation, `Respond`; after an exception
`AbortOrder` for each attempted order, `Raise`. `Restart` kills all threads, empties
store and tracker and keeps the tables.

What is abstracted:

* The session has autoflush off, so a SELECT sees committed rows only and the writes
  reach the tables together, or not at all, at the commit. The unique keys make the commit
  fail when a row planned as an INSERT has been committed since (`Conflict`).
* A manifest id is a fresh UUID: the manifest never conflicts.
* An exception before line 262 rolls back and reserves nothing: one action,
  `DatabaseFails` in `loading`. Its first SELECT failing is as if the request had not come.
* `BadDates` are payloads whose `created_at` cannot be moved to UTC (a year at the end
  of the range, with an offset): validation lets them through, `build_input_snapshot`
  raises, and the statement is outside the inner `try`.
* `build`, `model_validate` and the status codes have no effect but to raise.

`SerialClients` restricts the environment: requests in flight at the same time share
no key and no order id. It is what a client does that waits for its answer, or for its
connection to break because the server died, before it retries; a load balancer or a client timeout breaks
it. Every property says under which setting it is checked.

### `Pipeline`

The two nested loops of `evaluate`, one action for each turn of the inner loop
(`Filter` when a hard rule fails, `ScoreRow` otherwise) and one for the end of the
outer turn (`Allocate`, `LeaveUnallocated`). `loads` is `local_partner_loads`, `best`
and `best_score` are the code's, `eligible` and `score` are what the trace records
for each pair, `choice` the allocations. Orders and partner rows are numbers in the order
`sorted` leaves them in; two rows may carry one partner id, because no validation
forbids it, and then they share a load. The rules that read the load, `load_capacity` and `fairness_score`,
are computed; every other hard rule is a set of pairs it turns down and every other
score an integer, both part of `payload`, chosen at the start. Scores are exact
integers where the code has floats; the branch for near ties (line 190) is left out because
it never changes anything: it wants a partner id smaller than that of an earlier row.

`Rounded` and `RankedBefore` are `round(weighted, 8)` and the sort of
`_rank_eligible_trace_candidates`, which begins the second half of a request
(`AllocateRequest`). Three facts connect the two modules: the ranking only has
eligible partners, `EligibleFromTheStart` says these were below capacity when the payload
came in, and `PartnerOncePerRequest` gives each at most one order. So the handler
stays within capacity even where it departs from the choice of the pipeline.

### `Rules`, `Payloads`, `RuleConfig`

Operators only, shared by `WhatIf`. `Passes` and `Score` dispatch on the name of a
configuration entry as the registry does; parameters default as in the code, and
`vehicle_compatibility` is handed to the one rule that reads it. Positions are on a
line: of `haversine_km` nothing is used but that it is a distance. Scores are
multiples of `1/One`, rounded down; the instance has `One = 60`.

`Payloads` follows an order and a partner through their forms: `NormalizedOrder` and
`NormalizedPartner` are the validators with the coercions of vehicle types, `Restored`
is the stored snapshot read back (coordinates lose what is finer than `Fine`
positions), `RebuiltPartner` what is left of a partner sent in a mutation.

`RuleConfig` holds a configuration as a record of the lists of entries, the weights
and the fairness section. `Blocking` and `ResolvedWeights` are the detector, `Loaded`
is the loader, `Builds` says when `build_rule_set` does not raise. `GiniNumerator` and
`GiniDenominator` are the index as an exact fraction, summed by rank as the code does.

### `WhatIf`

One request, then any number of simulations of it, one action for each mutation as
`simulate` applies them. `Refuse` (422 or 400), `Fail` (500) and `Decide` are the
outcomes of the request; `Decide` evaluates with the escalated weights and lets the
reservations replace any choice by another eligible partner or by none, a partner at most once
(`AllocateRequest` has the loop that does it). `Evaluate` is the loop of `Pipeline`
as a function of every rule. The stored row keeps what the simulator reads: loaded
configuration, rounded snapshot, initial loads, the trace's choices. `ChangeParameter`,
`ChangeWeight`, `Toggle`, `ChangePool` and `UnknownRule` are the mutations, `Answer`
and `Reject` the ends. Ids are numbers, so `sorted` is `<`. `OfferedWeights` are the
weights of `GET /demo/mutation-options`.

### `AuditTrail`

Runs overlap: `Decide` reads rules, key and clock and builds all rows (`Staged`),
`Commit` writes them later or `Fail` drops them. `Commit` is enabled only if a
configuration planned as an INSERT is still absent, as its unique key demands. Between
commit and reading, `AlterTrace`, `AlterEvent`, `AlterSnapshot` and `AlterConfig`
change a row of the database, `EditRules` the file, `Restart` the signing key; at most
`MaxChanges` of them. The readers are operators: `Verified` and `ReplaySucceeds` are
the routes' answers, `ManifestOf`, `Latest`, `Summary` and `StoredDiagnostics` the
lookups. `sealed` is history: what a run committed, with the pipeline's choice before
the reservations.

Hashes are the values hashed and a signature is the pair of key and text, so nothing
collides and nothing is forged. The pipeline (`Walk`), the escalation (`Weigh`,
`Escalation`) and the rounding are constants about which the proofs assume only
`AuditTrailAssumption` (rounding twice is rounding once, a trace states its weights rounded,
loads are counts, a trace is a list) and `OrderTraceAssumption` (candidates that passed have a score). `MCAuditTrail`
gives a small pipeline with one hard rule and two scores.

## Runs

| Run | Instance | Checks |
| --- | --- | --- |
| `store_implements_lease` | 2 partners, 2 orders, ttl 2, clock to 4, wall clock stepped to 0 and to 7 | `TypeOK`, `TruthfulReply`, `CallsImplementLease`, `ImplementsLease`, `ReportedExpiryIsReal` |
| `first_call` | 3 requests, with and without a store from an earlier call | `WarmExclusion`, `LiveStoreIsClean` |
| `first_call_race` | the same requests | finds `PartnerHeldOnce` violated |
| `serial_clients` | 3 requests, 2 partners, 3 orders, 1 restart, `SerialClients` | `TypeOK`, `CountedOnIsLeased`, `Exclusion`, `KeyCommittedOnce`, `AnswerIsDurable` |
| `racing_clients` | first attempt, its retry in flight with it, and a request with no partners, 1 restart | `PartnerOncePerRequest`, `EveryLeaseHasOwner`, `ReplayInputsCommitted`, `TrackerCountsEvents` |
| `request_progress` | 2 requests, one of which dies outside the `try`, 1 restart, fairness | `RequestFinishes`, `LeasesEnd` |
| `key_race` | first attempt and retry in flight together | finds `KeyCommittedOnce` violated |
| `order_race` | first attempt, retry and a third request | finds `Exclusion` violated |
| `pipeline_loads` | 2 orders, 3 rows of 2 partners, scores 0 or 3, loads -1, 1 or 2, capacity 2, at most one pair turned down; all 4032 payloads; a weighted score is 0, 3, 6 or 9 and is rounded to a multiple of 4, so that 6 and 9 become equal | `TypeOK`, `CapacityRespected`, `EligibleFromTheStart`, `BestUnderCurrentLoads`, `OnlyNearTiesGoFirst` |
| `what_if` | 67 configurations, 8 payloads of up to 2 orders and 3 partners, 23 lists of mutations, reservations free to decide | `TypeOK`, `EmptySpecReportsReservations`, `ReloadKeepsConfig`, `SomeRatingPasses`, `InertMutationsAreInert`, `BystanderRemovalChangesNothing`, `UnallocatedMeansNobodyPassed`, `RestrictedStayOffTheRoad`, `GiniIsMeanDifference`, `EscalationFavoursFairness` |
| `audit_trail` | 2 runs, 2 inputs, 2 configurations, 2 keys, clock to 1, up to 2 changes; symmetric in runs and keys | `TypeOK`, `VerifiedIsUnaltered`, `VerifiedUnlessReselected`, `LatestUnlessOvertaken`, `SummaryAgreesWithTrace`, `DiagnosticsAgree`, `CommitIsVisible` |
| `lone_request_tampered` | 1 run, 2 orders with the same best partner, nothing altered | finds `AuthenticIsVerified` violated |

Why the bounds are enough. A ttl of 2 lets a reservation be in its first tick, in its
last, and over; with the clock to 4, a reservation can be granted, run out, be granted again
and run out again, the second time unnoticed by any call. Two orders that
both want `p1` best make a request skip its own partner, take the second best and
be left without any; the other request ranks the two partners the other way round,
so the two meet on both. Two attempts share key, input and configuration, and the
third request shares only the configuration, so each of the three INSERT conflicts occurs
alone and with the others. In the pipeline, a capacity of 2 and loads up to 2 make a partner
full before the payload, filled by the first order, or left with room; with scores of 0 or 3 and a fairness
score of 0, 3 or 6 the loads decide some choices, the base scores others, and ties occur,
exact ones and such as only the rounding makes. One restart is enough for every state in which a request
can be cut off, followed by a retry on the surviving tables. In `AllocateRequest`
`MaxOrders` and `MaxRestarts` are the bounds, time is not bounded: the lease table
has finitely many states.

In `what_if`, `One = 60` makes halves, thirds, fifths and sixths exact; one
configuration has weights that resolve to shares which do not sum to 60, one has
weights that sum to zero, one names a scoring rule twice. Every rule is in some list,
on, off or broken; the inputs hold an escalation and none, an order named
twice, two rows of one partner, positions the snapshot rounds, a rider in a
storm whose vehicle is only in `vehicle_type`, partners whose condition and average time a
mutation cannot express, no partners, and vehicles that do not exist. Every kind of mutation occurs alone;
those that only matter together (a rule switched on and given a weight, two weights of which
one is negative, by a little less than one or by more) occur as a pair. Partners are removed who have the highest
load, who have a load as high as another's, and who have none. In `audit_trail` two runs are what it takes to commit in another order than decided,
to race for one configuration row and to share a snapshot; two changes let an
alteration follow another, or a change of the key or the rules. An input has one partner best for both orders, so
that reservations act within one request, and the other an order named twice and
positions whose rounding makes a tie, which turns a choice.

`CHECK_DEADLOCK FALSE` is set where the system may stop: the store when the clock
has reached its bound, requests when all are answered and nothing is leased or left to restart, a refused or failed request of `WhatIf`,
and `AuditTrail` when every run has committed and clock and changes are used up.

### Fairness

`FairSpec` assumes weak fairness of `Step(r)` for each request, as the thread pool
runs a started handler to its end and no call in it waits for another thread (the
store's lock is held for a few dictionary operations and never across a call), and
of `Elapse`, as `time.monotonic()` never stops. `Start` and `Restart` have no
fairness: nobody has to send a request. A failing database is an alternative within
`Step`, so a request also finishes when every statement fails.

### What the runs show wrong

* `first_call_race`: two of the first requests of a process find `_store_instance`
  None, each gets a store of its own (line 90 reads the global again, but after the
  other's assignment only one of the two), both are told that the partner is
  theirs. `WarmExclusion` says that the race is over after the first call: an
  application that calls `get_reservation_store()` once at start-up is safe.
  `LiveStoreIsClean` says that the race leaves no reservation behind in the store that stays.
* `key_race`: the idempotency record is looked up at the start and written by
  `merge` at the end. Two attempts in flight together both find nothing and either one
  of them fails with an `IntegrityError`, or, if the second reaches its `merge` after
  the first has committed, the second turns its write into an UPDATE: two manifests and two sets of
  events for one key, and the first client holds an answer that the key no longer gives.
* `order_race`: the abort path calls `release_all_for_order` with order ids, which
  the other attempt in flight shares: it frees a partner it did not reserve, and
  a third request is granted the partner the first attempt still counts on.

* `lone_request_tampered`: verification and replay evaluate the stored input without
  reservations and compare the whole trace. One request whose two orders have the same
  best partner is enough: the second order is reselected, the trace the handler seals
  differs from what any later evaluation gives, and the untouched manifest is reported
  as TAMPERED, its replay as MISMATCH. `VerifiedUnlessReselected` says that this, and a
  near tie that the rounding of the snapshot turns, are the only ways it happens, the theorem `SignatureIsRobust` that the signature alone would
  tell the difference.

Six more limits of the code show in how a property had to be stated:

* `OnlyNearTiesGoFirst`: the pipeline chooses by exact scores, the handler ranks
  by the rounded ones of the trace. Of two partners whose scores agree in eight places
  it tries the one with the smaller id first, and reports
  `partner_reselected_after_reservation` though nothing was reserved. The property says
  that nobody else is tried before the choice.
* `LatestUnlessOvertaken`: the latest manifest goes by the time of the decision, a lookup
  by order by that of the commit. Of two overlapping runs that name one order the one may
  be the latest and the other the one the order leads to.
* `UnallocatedMeansNobodyPassed`: the search for the best begins with -1.0. Negative
  weights that add up to one or more can put every candidate at or below it, and the order
  is then reported as one for which nobody passed the hard rules.
* `EmptySpecReportsReservations`: a simulation without mutations reports as changed
  the orders the reservations gave to another partner, and, after an escalation, others
  too: it evaluates with the base weights.
* `ReloadKeepsConfig`: a scoring rule listed twice gets weights that sum to less than
  one, and the next resolution moves them.
* `BystanderRemovalChangesNothing`: with two rows of one id the pipeline evaluates both, a
  simulation with any change of the pool only the last. If the first was the better,
  removing somebody else moves its order.

With serial clients, neither `KeyCommittedOnce` nor `Exclusion` fails (`serial_clients`), so the first
remedy for these two is to serialise the attempts under one key.

Two requests may also count on one partner because the first took longer than its
thirty seconds. That is intended (`tests/test_reservation.py`,
`test_reserve_allows_after_ttl_expiry`), and `term` is defined accordingly: after the ttl a
request no longer counts on its reservation, though it will still commit the assignment.

## Theorems

All for every value of the constants, under the named assumptions of the modules
(a positive ttl, null values distinct from the values they stand in for, types of the
request constants).

* `PartnerLease_proofs`: under `LeaseAssumption`, a lease has time left exactly as long as
  it is a lease (`LeasesHaveTime`) and passes to another order only through free
  (`LeasesPassThroughFree`). The inductive invariant is `TypeOK /\ LeaseIffTimeLeft`.
  The module has no run of its own: it is explored as the abstraction of the store and
  as the store of the request handler.
* `ReservationStore_proofs`: `StoreTypes`, `StoreImplementsLease`,
  `CallsAreLeaseCalls`, `RepliesAreTruthful`, `ReportedExpiry`. `TypeOK` is inductive as it stands
  because it says that the two dictionaries have the same keys and that no deadline
  is further away than the ttl. The refinement rests on one lemma: removing from both
  dictionaries a set that contains only entries which have run out, and some live ones, is
  `Lease!Clear` of the live ones; so each method is the lease operation of its name whatever it evicts.
  `RepliesAreTruthful` needs no more than `TypeOK` before the call. `ReportedExpiry` is an
  action property: the difference between the expiry shown and the one acted on (`Drift`)
  of an entry changes only in a step of the wall clock, and is 0 for a new entry.
* `StoreSingleton_proofs`: `LateRequestsExclude` from `WarmInv` (when there was an early call
  the instance is its store, everybody uses it, who was granted is its holder) and `NothingLeftBehind`
  from `CleanInv`. The point of the second is that a store whose creator has not yet
  run line 89 is fresh, so the instance never goes back to a store that was used.
* `AllocateRequest_proofs`: `RequestTypes`; `PartnersOnce`, with no restriction on
  clients; `ReservationsHonoured` and `PartnersExclusive` with serial clients. The
  inductive invariant is `LeaseInv`. `CountedOnIsLeased` is not inductive alone:
  an abort releases by order, so one needs `FlightsApart` (nobody else in flight
  has that order) and `StillToGiveBack` (whoever counts on a reservation is in flight,
  and its release loop has not passed that position); and the release of one position
  must not free another of the same request, which is `PartnerOncePerRequest`.
  `Exclusion` then follows: two requests that count on one partner have its lease for
  the order of each, hence share an order, hence are the same request.
  The same module has five theorems about the tables, the owners of leases and the tracker.
  `ManifestsReplayable` from `TablesInv`: a snapshot or configuration that a transaction does not
  insert was committed already, and rows are never deleted. `OneDecisionPerKey` and
  `AnswersLast`, with serial clients, from `KeyInv`: a request in flight before
  its commit has a key that stands for nothing, and is alone with it. `LeasesAreOwned`
  from `OwnerInv`: a position the reserving loop has not reached has no partner, so an
  abort or a crash finds everything there is to give back. `TrackerHonest` from
  `TrackerInv`: what the tracker counts and what requests in flight have yet to record
  (`Unrecorded`) add up to the committed assignments, exactly so until a restart; the
  proof moves one event at a time from one count to the other. The last two and the first
  hold for racing clients too.
  `LeasesFreedBetween` composes the handler with the store: every step is an operation of
  `PartnerLease` with a partner and an order of the service, or its restart
  (`StepsOfTheStore`), so `NoHandover` holds of the store in use.
* `Pipeline_proofs`: `CapacityHolds`, `EligibleAtStart`, `PipelineTypes`, from
  `LoadInv`: the load of a partner is the payload's plus the number of earlier orders it
  got. The proof counts, by adding one order at a time to the set of a partner's orders;
  it needs nothing about the scores, so it holds for any of them.
  In the same module, `ChoiceIsBest` and `RankingAgrees`, from `ScoreInv`: every
  eligible row carries the score it had under the loads of its order (`ScoresRecorded`),
  the best so far beats the rows behind it and ties only with later ones (`BestSoFar`),
  and a closed order was given to such a row (`ChosenByScore`). The loads an order
  was evaluated under stay what they were, because a choice changes only at its order.
  That the highest load exists (`FiniteMaximum`) is shown without induction: among the
  sets without a maximum there would be a smallest one. `RankingAgrees` adds
  that rounding is monotone and that two scores with one rounded value differ by less than a grain
  (`EqualRoundedAreNear`).

* `AuditTrail_proofs`: `AuditTypes`, `VerifiedMeansUnaltered`, `SignatureIsRobust`,
  `VerifiesUnlessReselected`, `DiagnosticsStay`, `CommitsAreVisible`, `LatestIsFound`,
  `SummariesAreTrue`. The inductive invariant `AInv` says of
  every run committed, and of every run about to commit, that its rows were sealed
  together (`Sealing`): the manifest's hashes and signature are of its own trace, the
  input kept and the configuration, the events are its order traces in turn, the
  response counts them. Of the tables it says that each row committed finds those it
  refers to and that the events of a run are one stretch of the list; nothing is said
  of altered rows but that they are there. `VerifiedMeansUnaltered` then needs only
  that equal signatures have equal texts; `VerifiesUnlessReselected` that the initial
  loads read back from the trace resolve to themselves and that rounded weights and
  input stay, so that verification evaluates what the sealed input leads to (`ReplayedIsUnreserved`); `CommitsAreVisible` that the new events are the last of the list.
  `LatestIsFound` and `SummariesAreTrue` need a second invariant, `TracesWell`: an alteration leaves
  the orders of a trace, and in what was sealed whoever has an order passed its rules.
  For the latter the recursion over taken partners is shown to be defined (`TakenDefined`) and the best
  candidate to exist (`BestExists`), both by a smallest counterexample, and
  `OrderTraceAssumption` says that candidates which passed have scores. `SummariesAreTrue` supposes that
  the null value is not itself a summary.

* `RuleConfig_proofs`: lemmas only, about what `RuleConfig` and `Rules` compute for any
  configuration and any loads. A sum over a finite set is a fold of the library, a
  recursion over the set; that it has the value of its recursion, and that sums agree,
  add up and are bounded as expected, is shown by induction over the subsets of a finite set
  (`SubsetInduction`, stated with sets in place of predicates, because a library theorem with
  a predicate for a parameter cannot be instantiated here). On that rest `ResolvedSumIsOne` (resolved
  weights miss one by no more than the tolerance, the rounding of each weight
  counted), `RanksAreGaps` (adding the partner of highest rank to both forms of the Gini
  index changes them by as much), `EscalationFacts` and
  `ScoreIsUnit` (every rule scores between zero and one).
* `WhatIf_proofs`: every property of the `what_if` run, from one inductive invariant,
  `WInv`, which is a theorem of its own (`DecisionInvariant`). It says that
  what is stored is the decision of the request under the loaded configuration
  (`StoredWell`), that configuration and snapshot remain a configuration and a list of rows
  whatever was done to them, and after the first mutation are that
  mutation of what was stored (`MutatedWell`), and that an answer is the simulation of the
  two (`AnsweredWell`).
  * `DecisionTypes`, `SomebodyIsChosen`, `RestrictedAreNotChosen`,
    `RatingsAreNotContradictory` need to know what an evaluation returns. `Evaluate` is a
    recursive function over the orders; `EvaluateRuns` shows, by induction over a set of
    positions, that it is a run (`IsRun`), and the rest follows position by position.
    `SomebodyIsChosen` needs that a weighted sum of scores, each at most one, falls below
    zero by no more than the negative weights add up to (`WeightedIsEnough`), less than the -1.0 the
    search begins with, and that the first best row then exists.
  * `EmptySimulationIsIdle`, `InertMutationsAreIdle` and `BystandersAreIdle` compare two
    evaluations: two runs agree if each step of one is the step of the other (`SameSteps`).
    For a rule switched on the step is the same because a rule without a
    weight adds nothing to a sum; for a weight sent back because the resolution leaves
    resolved weights alone; for partners sent back because loads come from the manifest and
    what else the rebuilt row has lost no rule reads (`ReadAlike`);
    for partners removed because the highest load is still there (`SameScale`): it belongs to somebody who stays,
    or all loads are 0, and it remains so while orders are given to those who stay. Without the
    fairness score nobody's score depends on the others at all.
  * `ReloadingIsIdle`, `GiniIsGini` and `EscalationIsFair` follow from the lemmas of
    `RuleConfig_proofs` and `StoredWell`.

  `DecisionTypes` supposes that the null value is not itself a decision. The assumptions
  on the constants are those of the modules, which TLC evaluates in every run: numbers are numbers,
  lists are lists (`IsConfig`, `IsOrderJson`, `IsPartnerJson`, `IsMutation`); partner
  rows come in the order of their ids (`InOrder`), as `evaluate` sorts them, the snapshot
  keeps them (`serialize_partners`) and the simulator sorts them again; and the rounding of as many
  weights as there are scoring rules is within the tolerance (`RuleConfigAssumption`: half a
  hundred-millionth for each of five, against a thousandth). The instance has
  `Tolerance = 2` for this reason: with `One = 60` one unit would not hold five roundings.

  The proofs changed three properties. `BystanderRemovalChangesNothing` is false for a
  snapshot in which two rows share an id (TLC then found it as well): the pool keeps the last of them,
  whoever is removed, so that a simulation evaluates one row less. It is now stated for
  rows with ids of their own. `RestrictedStayOffTheRoad` had the default parameters
  of the weather rule, and `SomeRatingPasses` a range of ratings, built in; both now hold for any
  parameters.

Only model-checked: the liveness properties `RequestFinishes` and `LeasesEnd`, out of
the prover's reach, as `ENABLED` and fairness are. Every other property of a passing run
is a theorem. The four runs that expect a violation are no theorems' business: two of their
properties are false of the code, the other two hold with serial clients, and are proved for them.

## Not modelled

The prune of the tracker's window (`get_load_counts` has no caller in the service). The
growth of `_locks`, which never loses a key and whose locks are never taken. The check
of the schema at start, the average score, version and database probe of the
presentation routes, the static files and sample payloads of `api/app.py`: no state and
no decision depends on them. The wording of reports and rationales. The data set
adapter, the sample generator, the demos and the migrations: offline scripts that share
no state with the service. Floating point beyond its rounding to eight places: scores and weights are exact.

## Plan

In order of importance.

1. `PartnerLease`, `ReservationStore` and its refinement proof. **Done.**
2. `AllocateRequest`: reservations, transaction, retries, restarts. **Done**, with its
   proofs.
3. `StoreSingleton`. **Done.**
4. `Pipeline`: the greedy evaluation with loads over abstract rules, the ranking of
   the handler against the choice of the pipeline. **Done.**
5. `Rules`, `Payloads`, `RuleConfig`: all rules, the forms of a payload, detection,
   resolution, Gini index and escalation. **Done.**
6. `WhatIf`: the decision as a function of configuration and payload, and the simulator. **Done.**
7. `AuditTrail`: build, verify and replay of a decision the reservations adjusted,
   alterations, lookups with concurrent writers. **Done**, with its proofs.
8. An instance of `AllocateRequest` whose `Plan` is computed by the rules.
9. The proofs about the tables, the leases' owners and the tracker, about the pipeline's
   choice, and about configurations, decisions and simulations (`RuleConfig_proofs`, `WhatIf_proofs`). **Done.**
10. A proof that the handler uses the store only through lease operations
   (`LeasesFreedBetween`). **Done.**
