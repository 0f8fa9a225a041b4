-------------------------- MODULE AuditTrail_proofs --------------------------
(***************************************************************************)
(* Theorems about AuditTrail, for every pipeline, weights, rounding and    *)
(* number of runs, rules, keys and changes.                                *)
(*                                                                         *)
(* All rest on one invariant, AInv: what is pending or was committed has   *)
(* the form in which Staged made it, an altered manifest still has its     *)
(* signature and the hashes of its input and configuration, and the events *)
(* of a run lie together in the table, as they were committed.             *)
(***************************************************************************)
EXTENDS AuditTrail, TLAPS, FiniteSetTheorems, WellFoundedInduction

(* A manifest has no other fields than these. *)
IsManifest(m) ==
    m = [id |-> m.id, decided_at |-> m.decided_at, trace |-> m.trace,
         trace_hash |-> m.trace_hash, input_hash |-> m.input_hash,
         config_hash |-> m.config_hash, event |-> m.event, signature |-> m.signature]

Sealing(r, p) ==
    /\ p.config \in Rules /\ p.input \in Inputs
    /\ p.choice = Decision(p.config, p.input)
    /\ LET m == p.manifest
           rows == m.trace.orders
       IN  /\ IsManifest(m)
           /\ m.id = r
           /\ DOMAIN rows = DOMAIN p.choice.orders
           /\ m.trace = [p.choice EXCEPT !.orders = rows]
           /\ m.trace_hash = m.trace
           /\ m.input_hash = Kept(p.input)
           /\ m.config_hash = p.config
           /\ m.event = p.choice.event
           /\ m.signature = Signed(m.signature.key, m.trace, Kept(p.input), p.config, m.event)
           /\ p.events = [k \in DOMAIN rows |->
                            [order |-> rows[k].order, run |-> r, partner |-> rows[k].chosen]]
           /\ p.response = Diagnostics(rows, p.config.hard)

(* What no alteration of a manifest touches. *)
SameSeal(m, n) ==
    /\ m.id = n.id /\ m.signature = n.signature
    /\ m.input_hash = n.input_hash /\ m.config_hash = n.config_hash

IsList(s) == s \in Seq(RangeOf(s))

(* The events of a run, from some place on, and nowhere else. *)
Block(table, r, rows) ==
    \E off \in Nat :
        /\ off + Len(rows) <= Len(table)
        /\ \A j \in 1..Len(rows) : table[off + j] = rows[j]
        /\ \A k \in DOMAIN table : table[k].run = r <=> k \in off + 1..off + Len(rows)

PendingWell ==
    \A r \in Runs : pending[r] # None =>
        /\ r \notin DOMAIN sealed
        /\ Sealing(r, pending[r])
        /\ pending[r].adds_config \/ pending[r].config \in DOMAIN configs

RowsWell ==
    \A r \in DOMAIN sealed :
        /\ Sealing(r, sealed[r])
        /\ IsManifest(manifests[r])
        /\ SameSeal(manifests[r], sealed[r].manifest)
        /\ responses[r] = sealed[r].response

EventsWell ==
    /\ IsList(events)
    /\ \A r \in DOMAIN sealed : Block(events, r, sealed[r].events)

AInv == TypeOK /\ PendingWell /\ RowsWell /\ EventsWell

-----------------------------------------------------------------------------
(* Lists of whatever can be put together. *)
LEMMA ListConcat ==
    ASSUME NEW s, NEW t, IsList(s), IsList(t)
    PROVE  /\ IsList(s \o t)
           /\ DOMAIN s = 1..Len(s) /\ DOMAIN t = 1..Len(t)
           /\ Len(s) \in Nat /\ Len(t) \in Nat
           /\ DOMAIN (s \o t) = 1..Len(s) + Len(t)
           /\ Len(s \o t) = Len(s) + Len(t)
           /\ \A k \in 1..Len(s) : (s \o t)[k] = s[k]
           /\ \A j \in 1..Len(t) : (s \o t)[Len(s) + j] = t[j]
<1> DEFINE A == RangeOf(s) \cup RangeOf(t)
<1>1. s \in Seq(A) /\ t \in Seq(A)
  BY DEF IsList
<1>2. /\ s \o t \in Seq(A)
      /\ DOMAIN s = 1..Len(s) /\ DOMAIN t = 1..Len(t)
      /\ Len(s) \in Nat /\ Len(t) \in Nat
      /\ DOMAIN (s \o t) = 1..Len(s) + Len(t)
      /\ Len(s \o t) = Len(s) + Len(t)
      /\ \A k \in 1..Len(s) : (s \o t)[k] = s[k]
      /\ \A j \in 1..Len(t) : (s \o t)[Len(s) + j] = t[j]
  BY <1>1
<1>3. s \o t \in Seq(RangeOf(s \o t))
  <2>1. \A k \in 1..Len(s \o t) : (s \o t)[k] \in RangeOf(s \o t)
    BY <1>2 DEF RangeOf
  <2> QED
    BY <1>2, <2>1
<1> QED
  BY <1>2, <1>3 DEF IsList

LEMMA ListFromFunction ==
    ASSUME NEW n \in Nat, NEW f, DOMAIN f = 1..n, f = [k \in 1..n |-> f[k]]
    PROVE  IsList(f) /\ Len(f) = n
<1>1. \A k \in 1..n : f[k] \in RangeOf(f)
  BY DEF RangeOf
<1>2. f \in [1..n -> RangeOf(f)]
  BY <1>1
<1> QED
  BY <1>2 DEF IsList

(* There is a last one among finitely many places. *)
LEMMA LastExists ==
    ASSUME NEW n \in Nat, NEW S \in SUBSET (1..n), S # {}
    PROVE  Last(S) \in S /\ \A j \in S : j <= Last(S)
<1> DEFINE T == {n - k : k \in S}
<1>1. T \in SUBSET Nat /\ T # {}
  <2>1. \A k \in S : n - k \in Nat
    OBVIOUS
  <2> QED
    BY <2>1
<1>2. PICK x \in T : \A y \in T : ~(<<y, x>> \in OpToRel(<, Nat))
  BY <1>1, NatLessThanWellFounded, WFMin, Zenon
<1>3. \A y \in T : ~(y < x)
  BY <1>1, <1>2 DEF OpToRel
<1>4. PICK k \in S : x = n - k
  OBVIOUS
<1>5. \A j \in S : j <= k
  <2> SUFFICES ASSUME NEW j \in S
               PROVE  j <= k
    OBVIOUS
  <2>1. n - j \in T /\ j \in Int /\ k \in Int
    OBVIOUS
  <2>2. ~(n - j < n - k)
    BY <2>1, <1>3, <1>4
  <2> QED
    BY <2>1, <2>2
<1> QED
  BY <1>4, <1>5 DEF Last

LEMMA FirstExists ==
    ASSUME NEW n \in Nat, NEW S \in SUBSET (1..n), S # {}
    PROVE  \E i \in S : /\ i = (CHOOSE k \in S : \A x \in S : k <= x)
                        /\ \A k \in S : i <= k
<1>1. S \in SUBSET Nat
  OBVIOUS
<1>2. PICK i \in S : \A y \in S : ~(<<y, i>> \in OpToRel(<, Nat))
  BY <1>1, NatLessThanWellFounded, WFMin, Zenon
<1>3. \A k \in S : i <= k
  <2>1. \A y \in S : ~(y < i)
    BY <1>1, <1>2 DEF OpToRel
  <2> QED
    BY <1>1, <2>1
<1>4. \A i2 \in S : (\A k \in S : i2 <= k) => i2 = i
  BY <1>1, <1>3
<1> QED
  BY <1>3, <1>4

-----------------------------------------------------------------------------
LEMMA DecisionFields ==
    ASSUME NEW config, NEW input
    PROVE  Decision(config, input) =
              [orders |-> Decision(config, input).orders, weights |-> Decision(config, input).weights,
               loads |-> Decision(config, input).loads, event |-> Decision(config, input).event]
  BY DEF Decision, Trace

(* Reservations leave as many rows as they were given. *)
LEMMA ReservedDomain ==
    ASSUME NEW rows, NEW denied
    PROVE  DOMAIN Reserved(rows, denied) = DOMAIN rows
  BY DEF Reserved

(* What Decide puts together is well sealed. *)
LEMMA StagedIsSealing ==
    ASSUME rules \in Rules, NEW r \in Runs, NEW input \in Inputs, NEW denied
    PROVE  LET choice == Decision(rules, input)
               p == Staged(r, input, choice, Reserved(choice.orders, denied))
           IN  /\ Sealing(r, p)
               /\ p.adds_config \/ p.config \in DOMAIN configs
<1> DEFINE choice == Decision(rules, input)
           rows == Reserved(choice.orders, denied)
           p == Staged(r, input, choice, rows)
<1>1. choice = [orders |-> choice.orders, weights |-> choice.weights,
                loads |-> choice.loads, event |-> choice.event]
  BY DecisionFields
<1>2. DOMAIN rows = DOMAIN choice.orders
  BY ReservedDomain
<1> HIDE DEF choice, rows
<1>3. /\ [choice EXCEPT !.orders = rows].orders = rows
      /\ [choice EXCEPT !.orders = rows].event = choice.event
  BY <1>1
<1>4. p.adds_config \/ p.config \in DOMAIN configs
  BY DEF Staged
<1>5. /\ p.config = rules /\ p.input = input /\ p.choice = choice
      /\ p.manifest = Manifest(r, [choice EXCEPT !.orders = rows], input)
      /\ p.events = [k \in DOMAIN rows |->
                        [order |-> rows[k].order, run |-> r, partner |-> rows[k].chosen]]
      /\ p.response = Diagnostics(rows, rules.hard)
  BY DEF Staged
<1>6. LET m == p.manifest
      IN  /\ IsManifest(m) /\ m.id = r
          /\ m.trace = [choice EXCEPT !.orders = rows]
          /\ m.trace_hash = m.trace
          /\ m.input_hash = Kept(input) /\ m.config_hash = rules
          /\ m.event = choice.event
          /\ m.signature.key = key
          /\ m.signature = Signed(key, m.trace, Kept(input), rules, m.event)
  BY <1>3, <1>5 DEF Manifest, IsManifest, Signed
<1>7. p.choice = Decision(rules, input)
  BY <1>5 DEF choice
<1> HIDE DEF p
<1>8. Sealing(r, p)
  BY <1>2, <1>3, <1>5, <1>6, <1>7 DEF Sealing
<1> QED
  BY <1>4, <1>8 DEF choice, rows, p

(* The events of a run are a list, as long as its trace, and name the run. *)
LEMMA SealedEvents ==
    ASSUME NEW r, NEW p, Sealing(r, p)
    PROVE  LET rows == p.manifest.trace.orders
           IN  /\ IsList(p.events)
               /\ Len(p.events) \in Nat
               /\ DOMAIN p.events = 1..Len(p.events)
               /\ DOMAIN rows = 1..Len(p.events)
               /\ \A k \in 1..Len(p.events) :
                      p.events[k] = [order |-> rows[k].order, run |-> r, partner |-> rows[k].chosen]
<1> DEFINE rows == p.manifest.trace.orders
<1>1. IsList(p.choice.orders)
  BY AuditTrailAssumption DEF Sealing, IsList
<1>2. PICK n \in Nat : DOMAIN p.choice.orders = 1..n
  BY <1>1 DEF IsList
<1>3. DOMAIN rows = 1..n
  BY <1>2 DEF Sealing
<1>4. p.events = [k \in DOMAIN rows |->
                    [order |-> rows[k].order, run |-> r, partner |-> rows[k].chosen]]
  BY DEF Sealing
<1> HIDE DEF rows
<1>5. p.events = [k \in 1..n |-> p.events[k]] /\ DOMAIN p.events = 1..n
  BY <1>3, <1>4
<1>6. IsList(p.events) /\ Len(p.events) = n
  BY <1>5, ListFromFunction
<1>7. \A k \in 1..n :
          p.events[k] = [order |-> rows[k].order, run |-> r, partner |-> rows[k].chosen]
  BY <1>3, <1>4
<1> QED
  BY <1>3, <1>5, <1>6, <1>7 DEF rows

-----------------------------------------------------------------------------
(* The invariant: one lemma for each action. *)

LEMMA InitAInv == Init => AInv
<1> SUFFICES ASSUME Init PROVE AInv
  OBVIOUS
<1>1. DOMAIN manifests = {} /\ DOMAIN responses = {} /\ DOMAIN sealed = {}
  BY DEF Init, NoRows
<1>2. TypeOK
  BY <1>1, AuditTrailAssumption DEF Init, TypeOK
<1>3. IsList(events)
  BY DEF Init, IsList
<1> QED
  BY <1>1, <1>2, <1>3 DEF Init, AInv, PendingWell, RowsWell, EventsWell

LEMMA DecideAInv ==
    ASSUME AInv, NEW r \in Runs, Decide(r)
    PROVE  AInv'
<1>1. PICK input \in Inputs :
        LET choice == Decision(rules, input)
        IN  \E denied \in [DOMAIN choice.orders -> SUBSET DOMAIN input.load] :
              pending' = [pending EXCEPT ![r] =
                            Staged(r, input, choice, Reserved(choice.orders, denied))]
  BY DEF Decide
<1>2. PICK denied :
        pending' = [pending EXCEPT ![r] =
                      Staged(r, input, Decision(rules, input),
                             Reserved(Decision(rules, input).orders, denied))]
  BY <1>1
<1> DEFINE p == Staged(r, input, Decision(rules, input),
                       Reserved(Decision(rules, input).orders, denied))
<1>3. Sealing(r, p) /\ (p.adds_config \/ p.config \in DOMAIN configs)
  BY StagedIsSealing DEF AInv, TypeOK
<1> HIDE DEF p
<1>4. pending' = [pending EXCEPT ![r] = p]
  BY <1>2 DEF p
<1>5. UNCHANGED <<rules, key, clock, manifests, snapshots, configs, events, responses, changes, sealed>>
  BY DEF Decide, tables
<1>6. r \notin DOMAIN sealed
  BY DEF Decide
<1>7. TypeOK'
  BY <1>4, <1>5, <1>6 DEF AInv, TypeOK
<1>8. PendingWell'
  BY <1>3, <1>4, <1>5, <1>6 DEF AInv, PendingWell, TypeOK
<1>9. RowsWell' /\ EventsWell'
  BY <1>5 DEF AInv, RowsWell, EventsWell
<1> QED
  BY <1>7, <1>8, <1>9 DEF AInv

(* Actions that leave the tables and forget some of what is pending, or     *)
(* nothing.                                                                 *)
LEMMA OutsideAInv ==
    ASSUME AInv, UNCHANGED <<tables, sealed>>,
           rules' \in Rules, key' \in Keys, clock' \in 0..MaxClock, changes' \in 0..MaxChanges,
           DOMAIN pending' = Runs,
           \A r \in Runs : pending'[r] = pending[r] \/ pending'[r] = None
    PROVE  AInv'
<1>1. UNCHANGED <<manifests, snapshots, configs, events, responses, sealed>>
  BY DEF tables
<1>2. TypeOK'
  BY <1>1 DEF AInv, TypeOK
<1>3. PendingWell'
  BY <1>1 DEF AInv, PendingWell
<1> QED
  BY <1>1, <1>2, <1>3 DEF AInv, RowsWell, EventsWell

(* Alterations of a manifest. *)
LEMMA AlteredAInv ==
    ASSUME AInv, NEW r \in DOMAIN manifests, NEW m,
           manifests' = [manifests EXCEPT ![r] = m],
           IsManifest(m), SameSeal(m, manifests[r]),
           changes' \in 0..MaxChanges,
           UNCHANGED <<rules, key, clock, pending, snapshots, configs, events, responses, sealed>>
    PROVE  AInv'
<1>1. TypeOK'
  BY DEF AInv, TypeOK, SameSeal
<1>2. RowsWell'
  BY DEF AInv, TypeOK, RowsWell, SameSeal
<1> QED
  BY <1>1, <1>2 DEF AInv, PendingWell, EventsWell

(* Alterations of what the manifests refer to. *)
LEMMA ReferredAInv ==
    ASSUME AInv, DOMAIN snapshots' = DOMAIN snapshots, DOMAIN configs' = DOMAIN configs,
           changes' \in 0..MaxChanges,
           UNCHANGED <<rules, key, clock, pending, manifests, events, responses, sealed>>
    PROVE  AInv'
<1>1. TypeOK'
  BY DEF AInv, TypeOK
<1> QED
  BY <1>1 DEF AInv, PendingWell, RowsWell, EventsWell

LEMMA ChangingBound ==
    ASSUME AInv, Changing
    PROVE  changes' \in 0..MaxChanges
  BY AuditTrailAssumption DEF AInv, TypeOK, Changing

(* The events of one more run follow those there are. *)
LEMMA BlockAppended ==
    ASSUME NEW table, NEW new, NEW r, IsList(table), IsList(new),
           \A k \in DOMAIN table : table[k].run # r,
           \A j \in DOMAIN new : new[j].run = r
    PROVE  Block(table \o new, r, new)
<1> DEFINE both == table \o new
<1>1. /\ DOMAIN table = 1..Len(table) /\ DOMAIN new = 1..Len(new)
      /\ Len(table) \in Nat /\ Len(new) \in Nat
      /\ DOMAIN both = 1..Len(table) + Len(new)
      /\ Len(both) = Len(table) + Len(new)
      /\ \A k \in 1..Len(table) : both[k] = table[k]
      /\ \A j \in 1..Len(new) : both[Len(table) + j] = new[j]
  BY ListConcat
<1> HIDE DEF both
<1>2. ASSUME NEW k \in DOMAIN both
      PROVE  both[k].run = r <=> k \in Len(table) + 1..Len(table) + Len(new)
  <2>1. CASE k <= Len(table)
    BY <1>1, <2>1
  <2>2. CASE k > Len(table)
    <3>1. k - Len(table) \in 1..Len(new) /\ k = Len(table) + (k - Len(table))
      BY <1>1, <2>2
    <3>2. both[k] = new[k - Len(table)]
      BY <1>1, <3>1
    <3> QED
      BY <1>1, <2>2, <3>1, <3>2
  <2> QED
    BY <1>1, <2>1, <2>2
<1> QED
  BY <1>1, <1>2 DEF Block, both

LEMMA BlockKept ==
    ASSUME NEW table, NEW new, NEW q, NEW rows, IsList(table), IsList(new),
           Len(rows) \in Nat, Block(table, q, rows),
           \A j \in DOMAIN new : new[j].run # q
    PROVE  Block(table \o new, q, rows)
<1> DEFINE both == table \o new
<1>1. /\ DOMAIN table = 1..Len(table) /\ DOMAIN new = 1..Len(new)
      /\ Len(table) \in Nat /\ Len(new) \in Nat
      /\ DOMAIN both = 1..Len(table) + Len(new)
      /\ Len(both) = Len(table) + Len(new)
      /\ \A k \in 1..Len(table) : both[k] = table[k]
      /\ \A j \in 1..Len(new) : both[Len(table) + j] = new[j]
  BY ListConcat
<1> HIDE DEF both
<1>2. PICK off \in Nat :
        /\ off + Len(rows) <= Len(table)
        /\ \A j \in 1..Len(rows) : table[off + j] = rows[j]
        /\ \A k \in DOMAIN table : table[k].run = q <=> k \in off + 1..off + Len(rows)
  BY DEF Block
<1>3. \A j \in 1..Len(rows) : both[off + j] = rows[j]
  <2> SUFFICES ASSUME NEW j \in 1..Len(rows) PROVE both[off + j] = rows[j]
    OBVIOUS
  <2>1. off + j \in 1..Len(table)
    BY <1>1, <1>2
  <2> QED
    BY <1>1, <1>2, <2>1
<1>4. ASSUME NEW k \in DOMAIN both
      PROVE  both[k].run = q <=> k \in off + 1..off + Len(rows)
  <2>1. CASE k <= Len(table)
    BY <1>1, <1>2, <2>1
  <2>2. CASE k > Len(table)
    <3>1. k - Len(table) \in 1..Len(new) /\ k = Len(table) + (k - Len(table))
      BY <1>1, <2>2
    <3>2. both[k] = new[k - Len(table)]
      BY <1>1, <3>1
    <3> QED
      BY <1>1, <1>2, <2>2, <3>1, <3>2
  <2> QED
    BY <1>1, <2>1, <2>2
<1>5. off + Len(rows) <= Len(both)
  BY <1>1, <1>2
<1>6. Block(both, q, rows)
  BY <1>3, <1>4, <1>5 DEF Block
<1> QED
  BY <1>6 DEF both

(* What a commit adds, in terms of what was pending. *)
LEMMA CommitEffect ==
    ASSUME AInv, NEW r \in Runs, Commit(r)
    PROVE  LET p == pending[r]
           IN  /\ r \notin DOMAIN sealed /\ r \notin DOMAIN manifests
               /\ Sealing(r, p)
               /\ IsList(p.events) /\ IsList(events)
               /\ \A j \in DOMAIN p.events : p.events[j].run = r
               /\ \A k \in DOMAIN events : events[k].run # r
               /\ manifests' = Put(manifests, r, p.manifest)
               /\ events' = events \o p.events
               /\ sealed' = Put(sealed, r, p)
               /\ responses' = Put(responses, r, p.response)
               /\ DOMAIN configs \subseteq DOMAIN configs'
               /\ p.config \in DOMAIN configs'
               /\ DOMAIN snapshots' = DOMAIN snapshots \cup {p.manifest.input_hash}
               /\ pending' = [pending EXCEPT ![r] = None]
               /\ UNCHANGED <<rules, key, clock, changes>>
<1> DEFINE p == pending[r]
<1>1. /\ r \notin DOMAIN sealed /\ r \notin DOMAIN manifests
      /\ Sealing(r, p)
      /\ p.adds_config \/ p.config \in DOMAIN configs
  BY DEF AInv, PendingWell, TypeOK, Commit
<1>2. /\ manifests' = Put(manifests, r, p.manifest)
      /\ snapshots' = Put(snapshots, p.manifest.input_hash, p.manifest.input_hash)
      /\ configs' = IF p.adds_config THEN Put(configs, p.config, p.config) ELSE configs
      /\ events' = events \o p.events
      /\ sealed' = Put(sealed, r, p)
      /\ responses' = Put(responses, r, p.response)
      /\ pending' = [pending EXCEPT ![r] = None]
      /\ UNCHANGED <<rules, key, clock, changes>>
  BY DEF Commit
<1> HIDE DEF p
<1>3. /\ DOMAIN configs \subseteq DOMAIN configs'
      /\ p.config \in DOMAIN configs'
  BY <1>1, <1>2 DEF Put
<1>4. DOMAIN snapshots' = DOMAIN snapshots \cup {p.manifest.input_hash}
  BY <1>2 DEF Put
<1>5. IsList(p.events) /\ \A j \in DOMAIN p.events : p.events[j].run = r
  <2>1. IsList(p.events)
    BY <1>1, SealedEvents, Zenon
  <2>2. \A j \in DOMAIN p.events : p.events[j].run = r
    BY <1>1 DEF Sealing
  <2> QED
    BY <2>1, <2>2
<1>6. IsList(events) /\ \A k \in DOMAIN events : events[k].run # r
  BY <1>1 DEF AInv, EventsWell, TypeOK
<1> QED
  BY <1>1, <1>2, <1>3, <1>4, <1>5, <1>6 DEF p

LEMMA CommitAInv ==
    ASSUME AInv, NEW r \in Runs, Commit(r)
    PROVE  AInv'
<1> DEFINE p == pending[r]
<1>1. /\ r \notin DOMAIN sealed /\ r \notin DOMAIN manifests
      /\ Sealing(r, p)
      /\ IsList(p.events) /\ IsList(events)
      /\ \A j \in DOMAIN p.events : p.events[j].run = r
      /\ \A k \in DOMAIN events : events[k].run # r
      /\ manifests' = Put(manifests, r, p.manifest)
      /\ events' = events \o p.events
      /\ sealed' = Put(sealed, r, p)
      /\ responses' = Put(responses, r, p.response)
      /\ DOMAIN configs \subseteq DOMAIN configs'
      /\ p.config \in DOMAIN configs'
      /\ DOMAIN snapshots' = DOMAIN snapshots \cup {p.manifest.input_hash}
      /\ pending' = [pending EXCEPT ![r] = None]
      /\ UNCHANGED <<rules, key, clock, changes>>
  BY CommitEffect
<1> HIDE DEF p
<1>2. /\ DOMAIN manifests' = DOMAIN manifests \cup {r} /\ manifests'[r] = p.manifest
      /\ DOMAIN sealed' = DOMAIN sealed \cup {r} /\ sealed'[r] = p
      /\ DOMAIN responses' = DOMAIN responses \cup {r} /\ responses'[r] = p.response
      /\ \A q \in DOMAIN manifests : q # r /\ manifests'[q] = manifests[q]
      /\ \A q \in DOMAIN sealed : q # r /\ sealed'[q] = sealed[q]
      /\ \A q \in DOMAIN responses : q # r => responses'[q] = responses[q]
  BY <1>1 DEF Put
<1>3. p.manifest.id = r /\ p.manifest.config_hash = p.config /\ IsManifest(p.manifest)
  BY <1>1 DEF Sealing
<1>4. \A k \in DOMAIN events' : events'[k].run \in DOMAIN manifests'
  <2>1. /\ DOMAIN events = 1..Len(events) /\ DOMAIN p.events = 1..Len(p.events)
        /\ Len(events) \in Nat /\ Len(p.events) \in Nat
        /\ DOMAIN events' = 1..Len(events) + Len(p.events)
        /\ \A k \in 1..Len(events) : events'[k] = events[k]
        /\ \A j \in 1..Len(p.events) : events'[Len(events) + j] = p.events[j]
    BY <1>1, ListConcat
  <2> SUFFICES ASSUME NEW k \in DOMAIN events' PROVE events'[k].run \in DOMAIN manifests'
    OBVIOUS
  <2>2. CASE k <= Len(events)
    BY <1>2, <2>1, <2>2 DEF AInv, TypeOK
  <2>3. CASE k > Len(events)
    <3>1. k - Len(events) \in 1..Len(p.events) /\ k = Len(events) + (k - Len(events))
      BY <2>1, <2>3
    <3>2. events'[k] = p.events[k - Len(events)]
      BY <2>1, <3>1
    <3> QED
      BY <1>1, <1>2, <2>1, <3>1, <3>2
  <2> QED
    BY <2>1, <2>2, <2>3
<1>5. TypeOK'
  <2>1. rules' \in Rules /\ key' \in Keys /\ clock' \in 0..MaxClock /\ changes' \in 0..MaxChanges
    BY <1>1 DEF AInv, TypeOK
  <2>2. DOMAIN pending' = Runs /\ DOMAIN manifests' = DOMAIN sealed' /\ DOMAIN responses' = DOMAIN sealed'
    BY <1>1, <1>2 DEF AInv, TypeOK
  <2>3. ASSUME NEW q \in DOMAIN manifests'
        PROVE  /\ q \in Runs /\ pending'[q] = None /\ manifests'[q].id = q
               /\ manifests'[q].input_hash \in DOMAIN snapshots'
               /\ manifests'[q].config_hash \in DOMAIN configs'
    <3>1. CASE q = r
      BY <1>1, <1>2, <1>3, <3>1 DEF AInv, TypeOK
    <3>2. CASE q # r
      BY <1>1, <1>2, <3>2 DEF AInv, TypeOK
    <3> QED
      BY <3>1, <3>2
  <2> QED
    BY <1>4, <2>1, <2>2, <2>3 DEF TypeOK
<1>6. PendingWell'
  <2> SUFFICES ASSUME NEW q \in Runs, pending'[q] # None
               PROVE  /\ q \notin DOMAIN sealed'
                      /\ Sealing(q, pending'[q])
                      /\ pending'[q].adds_config \/ pending'[q].config \in DOMAIN configs'
    BY DEF PendingWell
  <2>1. q # r /\ pending'[q] = pending[q]
    BY <1>1 DEF AInv, TypeOK
  <2> QED
    BY <1>1, <1>2, <2>1 DEF AInv, PendingWell
<1>7. RowsWell'
  <2> SUFFICES ASSUME NEW q \in DOMAIN sealed'
               PROVE  /\ Sealing(q, sealed'[q])
                      /\ IsManifest(manifests'[q])
                      /\ SameSeal(manifests'[q], sealed'[q].manifest)
                      /\ responses'[q] = sealed'[q].response
    BY DEF RowsWell
  <2>1. CASE q = r
    <3>1. responses'[r] = p.response /\ p.response = sealed'[r].response
      BY <1>2
    <3> QED
      BY <1>1, <1>2, <1>3, <2>1, <3>1 DEF SameSeal
  <2>2. CASE q # r
    BY <1>2, <2>2 DEF AInv, TypeOK, RowsWell
  <2> QED
    BY <2>1, <2>2
<1>8. EventsWell'
  <2>1. IsList(events')
    BY <1>1, ListConcat
  <2>2. ASSUME NEW q \in DOMAIN sealed' PROVE Block(events', q, sealed'[q].events)
    <3>1. CASE q = r
      BY <1>1, <1>2, <3>1, BlockAppended
    <3>2. CASE q # r
      <4>1. q \in DOMAIN sealed /\ sealed'[q] = sealed[q]
        BY <1>2, <3>2
      <4>2. Len(sealed[q].events) \in Nat
        BY <4>1, SealedEvents DEF AInv, RowsWell
      <4>3. Block(events, q, sealed[q].events)
        BY <4>1 DEF AInv, EventsWell
      <4>4. \A j \in DOMAIN p.events : p.events[j].run # q
        BY <1>1, <3>2
      <4> HIDE DEF Block, IsList
      <4>5. Block(events \o p.events, q, sealed[q].events)
        BY <1>1, <4>2, <4>3, <4>4, BlockKept
      <4> QED
        BY <1>1, <4>1, <4>5
    <3> QED
      BY <3>1, <3>2
  <2> QED
    BY <2>1, <2>2 DEF EventsWell
<1> QED
  BY <1>5, <1>6, <1>7, <1>8 DEF AInv

LEMMA NextAInv == AInv /\ [Next]_vars => AInv'
<1> SUFFICES ASSUME AInv, [Next]_vars PROVE AInv'
  OBVIOUS
<1> USE DEF tables
<1>0. TypeOK
  BY DEF AInv
<1>1. ASSUME NEW r \in Runs, Decide(r) PROVE AInv'
  BY <1>1, DecideAInv
<1>2. ASSUME NEW r \in Runs, Commit(r) PROVE AInv'
  BY <1>2, CommitAInv
<1>3. ASSUME NEW r \in Runs, Fail(r) PROVE AInv'
  BY <1>0, <1>3, OutsideAInv DEF Fail, TypeOK
<1>4. CASE Tick
  <2>1. clock' \in 0..MaxClock
    BY <1>0, <1>4, AuditTrailAssumption DEF Tick, TypeOK
  <2> QED
    BY <1>0, <1>4, <2>1, OutsideAInv DEF Tick, TypeOK
<1>5. CASE EditRules
  <2>1. changes' \in 0..MaxChanges
    BY <1>5, ChangingBound DEF EditRules
  <2> QED
    BY <1>0, <1>5, <2>1, OutsideAInv DEF EditRules, TypeOK
<1>6. CASE Restart
  <2>1. changes' \in 0..MaxChanges
    BY <1>6, ChangingBound DEF Restart
  <2>2. DOMAIN pending' = Runs /\ \A r \in Runs : pending'[r] = None
    BY <1>6 DEF Restart
  <2> QED
    BY <1>0, <1>6, <2>1, <2>2, OutsideAInv DEF Restart, TypeOK
<1>7. ASSUME NEW r \in DOMAIN manifests, AlterTrace(r) PROVE AInv'
  <2>1. changes' \in 0..MaxChanges
    BY <1>7, ChangingBound DEF AlterTrace
  <2>2. PICK forged, hash :
          manifests' = [manifests EXCEPT ![r].trace = forged, ![r].trace_hash = hash]
    BY <1>7 DEF AlterTrace
  <2> DEFINE n == [manifests[r] EXCEPT !.trace = forged]
             m == [n EXCEPT !.trace_hash = hash]
  <2>3. manifests' = [manifests EXCEPT ![r] = m]
    BY <2>2
  <2>4. IsManifest(manifests[r])
    BY <1>0 DEF AInv, RowsWell, TypeOK
  <2>5. IsManifest(m) /\ SameSeal(m, manifests[r])
    <3>1. IsManifest(n) /\ SameSeal(n, manifests[r])
      BY <2>4 DEF IsManifest, SameSeal
    <3> HIDE DEF n
    <3>2. IsManifest(m) /\ SameSeal(m, n)
      BY <3>1 DEF IsManifest, SameSeal
    <3> QED
      BY <3>1, <3>2 DEF SameSeal
  <2>6. UNCHANGED <<rules, key, clock, pending, snapshots, configs, events, responses, sealed>>
    BY <1>7 DEF AlterTrace
  <2> HIDE DEF m
  <2> QED
    BY <2>1, <2>3, <2>5, <2>6, AlteredAInv
<1>8. ASSUME NEW r \in DOMAIN manifests, AlterEvent(r) PROVE AInv'
  <2>1. changes' \in 0..MaxChanges
    BY <1>8, ChangingBound DEF AlterEvent
  <2> DEFINE m == [manifests[r] EXCEPT !.event = None]
  <2>2. manifests' = [manifests EXCEPT ![r] = m]
    BY <1>8 DEF AlterEvent
  <2>3. IsManifest(manifests[r])
    BY <1>0 DEF AInv, RowsWell, TypeOK
  <2>4. IsManifest(m) /\ SameSeal(m, manifests[r])
    BY <2>3 DEF IsManifest, SameSeal
  <2>5. UNCHANGED <<rules, key, clock, pending, snapshots, configs, events, responses, sealed>>
    BY <1>8 DEF AlterEvent
  <2> HIDE DEF m
  <2> QED
    BY <2>1, <2>2, <2>4, <2>5, AlteredAInv
<1>9. ASSUME NEW h \in DOMAIN snapshots, AlterSnapshot(h) PROVE AInv'
  <2>1. changes' \in 0..MaxChanges
    BY <1>9, ChangingBound DEF AlterSnapshot
  <2>2. DOMAIN snapshots' = DOMAIN snapshots
    BY <1>9 DEF AlterSnapshot
  <2>3. UNCHANGED <<rules, key, clock, pending, manifests, configs, events, responses, sealed>>
    BY <1>9 DEF AlterSnapshot
  <2> QED
    BY <2>1, <2>2, <2>3, ReferredAInv
<1>10. ASSUME NEW h \in DOMAIN configs, AlterConfig(h) PROVE AInv'
  <2>1. changes' \in 0..MaxChanges
    BY <1>10, ChangingBound DEF AlterConfig
  <2>2. DOMAIN configs' = DOMAIN configs
    BY <1>10 DEF AlterConfig
  <2>3. UNCHANGED <<rules, key, clock, pending, manifests, snapshots, events, responses, sealed>>
    BY <1>10 DEF AlterConfig
  <2> QED
    BY <2>1, <2>2, <2>3, ReferredAInv
<1>11. CASE UNCHANGED vars
  BY <1>0, <1>11, OutsideAInv DEF vars, TypeOK
<1> QED
  BY <1>1, <1>2, <1>3, <1>4, <1>5, <1>6, <1>7, <1>8, <1>9, <1>10, <1>11 DEF Next

THEOREM AuditInvariant == Spec => []AInv
<1> QED
  BY InitAInv, NextAInv, PTL DEF Spec

(* Whatever is committed, altered or lost in a restart, an event, manifest,  *)
(* snapshot and configuration that refer to each other are all there, so     *)
(* that a reader that finds one of them finds the others: the routes of      *)
(* audit.py and presentation.py answer 404 only for an order or run there    *)
(* is not.                                                                   *)
THEOREM AuditTypes == Spec => []TypeOK
<1>1. AInv => TypeOK
  BY DEF AInv
<1> QED
  BY <1>1, AuditInvariant, PTL

-----------------------------------------------------------------------------
(* Verification.                                                           *)

(* A valid signature pins what it was computed over: the signature of a     *)
(* manifest never changes, and equal texts are of equal parts.              *)
LEMMA SignaturePins ==
    ASSUME AInv, NEW r \in DOMAIN manifests, SignatureOf(manifests[r]) = manifests[r].signature
    PROVE  /\ manifests[r].trace_hash = sealed[r].manifest.trace
           /\ manifests[r].event = sealed[r].manifest.event
           /\ manifests[r].input_hash = Kept(sealed[r].input)
           /\ SameKey(r)
<1> DEFINE m == manifests[r]
           n == sealed[r].manifest
<1>1. Sealing(r, sealed[r]) /\ m.signature = n.signature
  BY DEF AInv, TypeOK, RowsWell, SameSeal
<1>2. n.signature = Signed(n.signature.key, n.trace, Kept(sealed[r].input), sealed[r].config, n.event)
  BY <1>1 DEF Sealing
<1>3. Signed(key, m.trace_hash, m.input_hash, m.config_hash, m.event)
        = Signed(n.signature.key, n.trace, Kept(sealed[r].input), sealed[r].config, n.event)
  BY <1>1, <1>2 DEF SignatureOf
<1> HIDE DEF m, n
<1>4. /\ key = n.signature.key /\ m.trace_hash = n.trace
      /\ m.input_hash = Kept(sealed[r].input) /\ m.event = n.event
  BY <1>3 DEF Signed
<1> QED
  BY <1>4 DEF m, n, SameKey

(* What is reported as VERIFIED is what was sealed, for every pipeline and   *)
(* any number of alterations: no forged trace, event, input or key passes.   *)
(* Hashes and signatures are taken not to collide.                           *)
THEOREM VerifiedMeansUnaltered == Spec => []VerifiedIsUnaltered
<1>1. AInv => VerifiedIsUnaltered
  <2> SUFFICES ASSUME AInv, NEW r \in DOMAIN manifests, Verified(manifests[r])
               PROVE  /\ manifests[r].trace = sealed[r].manifest.trace
                      /\ manifests[r].event = sealed[r].manifest.event
                      /\ Kept(snapshots[manifests[r].input_hash]) = Kept(sealed[r].input)
                      /\ SameKey(r)
    BY DEF VerifiedIsUnaltered
  <2>1. /\ SignatureOf(manifests[r]) = manifests[r].signature
        /\ manifests[r].trace = manifests[r].trace_hash
        /\ Kept(snapshots[manifests[r].input_hash]) = manifests[r].input_hash
    BY DEF Verified, SignatureValid, InternalHashesValid
  <2> QED
    BY <2>1, SignaturePins
<1> QED
  BY <1>1, AuditInvariant, PTL

LEMMA IntactIsSigned ==
    ASSUME AInv, NEW r \in DOMAIN manifests, Intact(r), SameKey(r)
    PROVE  SignatureValid(manifests[r])
<1> DEFINE n == sealed[r].manifest
<1>1. manifests[r] = n /\ snapshots[n.input_hash] = Kept(sealed[r].input)
  BY DEF Intact
<1>2. Sealing(r, sealed[r])
  BY DEF AInv, TypeOK, RowsWell
<1>3. /\ n.trace_hash = n.trace /\ n.input_hash = Kept(sealed[r].input)
      /\ n.config_hash = sealed[r].config
      /\ n.signature = Signed(n.signature.key, n.trace, Kept(sealed[r].input), sealed[r].config, n.event)
      /\ sealed[r].input \in Inputs
  BY <1>2 DEF Sealing
<1>4. key = n.signature.key
  BY DEF SameKey
<1> HIDE DEF n
<1>5. Kept(snapshots[n.input_hash]) = n.input_hash
  BY <1>1, <1>3, AuditTrailAssumption
<1>6. SignatureOf(n) = n.signature
  BY <1>3, <1>4 DEF SignatureOf
<1> QED
  BY <1>1, <1>3, <1>5, <1>6 DEF SignatureValid, InternalHashesValid

(* The signature of an authentic manifest is valid whatever the reservations *)
(* and the rounding did to it, as long as rounding twice is rounding once.   *)
THEOREM SignatureIsRobust == Spec => []SignatureSurvivesReservations
<1>1. AInv => SignatureSurvivesReservations
  BY IntactIsSigned DEF SignatureSurvivesReservations
<1> QED
  BY <1>1, AuditInvariant, PTL

-----------------------------------------------------------------------------
(* Replay.                                                                 *)

(* The loads of a payload, taken as observed loads, are what they are, and   *)
(* the rounding of the snapshot leaves them alone.                          *)
LEMMA LoadsFixed ==
    ASSUME NEW input \in Inputs
    PROVE  LET start == Loads(input, NoRows)
           IN  /\ Loads(input, start) = start /\ Loads(Kept(input), start) = start
               /\ \A trace : trace.loads = start => ReplayLoads(trace, Kept(input)) = start
<1> DEFINE start == Loads(input, NoRows)
<1>1. \A p \in DOMAIN input.load : input.load[p] \in Nat
  BY AuditTrailAssumption
<1>2. start = [p \in DOMAIN input.load |-> input.load[p]]
  BY <1>1 DEF Loads, Get, NoRows
<1>3. Kept(input).load = input.load
  <2>1. "load" \in DOMAIN input
    BY AuditTrailAssumption
  <2> QED
    BY <2>1 DEF Kept
<1> HIDE DEF start
<1>4. Loads(input, start) = start /\ Loads(Kept(input), start) = start
  BY <1>1, <1>2, <1>3 DEF Loads, Get
<1>5. ASSUME NEW trace, trace.loads = start
      PROVE  ReplayLoads(trace, Kept(input)) = start
  BY <1>2, <1>3, <1>5 DEF ReplayLoads, Get
<1> QED
  BY <1>4, <1>5 DEF start

(* What a run sealed, and what an evaluation of its stored rows gives: they  *)
(* differ in the order traces alone.                                        *)
LEMMA ReplayedIsUnreserved ==
    ASSUME AInv, NEW r \in DOMAIN manifests, Intact(r)
    PROVE  \E weights, loads, event :
             /\ Replayed(manifests[r]) =
                  [orders |-> Unreserved(r), weights |-> weights, loads |-> loads, event |-> event]
             /\ manifests[r].trace =
                  [orders |-> manifests[r].trace.orders,
                   weights |-> weights, loads |-> loads, event |-> event]
             /\ OnGrid(r) => Unreserved(r) = sealed[r].choice.orders
<1> DEFINE p == sealed[r]
           c == p.choice
           n == p.manifest
           start == Loads(p.input, NoRows)
           weights == Weigh(p.config, start)
           kept == Kept(p.input)
           event == Escalation(p.config, start)
<1>1. /\ manifests[r] = n /\ snapshots[n.input_hash] = kept
      /\ configs[n.config_hash] = p.config
  BY DEF Intact
<1>2. Unreserved(r) = Walk(p.config, RoundedAll(weights), kept, start)
  BY DEF Unreserved
<1>3. Sealing(r, p)
  BY DEF AInv, TypeOK, RowsWell
<1>4. /\ p.input \in Inputs /\ p.config \in Rules /\ c = Decision(p.config, p.input)
      /\ n.trace = [c EXCEPT !.orders = n.trace.orders]
      /\ n.event = c.event
  BY <1>3 DEF Sealing
<1>5. Loads(p.input, start) = start /\ Loads(kept, start) = start
  BY <1>4, LoadsFixed
<1>6. c = [orders |-> Walk(p.config, weights, p.input, start),
           weights |-> RoundedAll(weights), loads |-> start, event |-> event]
  BY <1>4, <1>5 DEF Decision, Trace
<1>7. RoundedAll(RoundedAll(weights)) = RoundedAll(weights)
  <2>1. RoundedAll(Decision(p.config, p.input).weights) = Decision(p.config, p.input).weights
    BY <1>4, AuditTrailAssumption
  <2>2. c.weights = RoundedAll(weights)
    <3> HIDE DEF c, p, start, weights, event
    <3> QED
      BY <1>6
  <2> HIDE DEF c, p, weights
  <2> QED
    BY <1>4, <2>1, <2>2
<1>8. OnGrid(r) => kept = p.input /\ RoundedAll(weights) = weights
  BY DEF OnGrid
<1>9. \A trace : trace.loads = start => ReplayLoads(trace, kept) = start
  BY <1>4, LoadsFixed
<1> HIDE DEF p, start, weights, c, n, kept, event
<1>10. /\ n.trace = [orders |-> n.trace.orders,
                     weights |-> RoundedAll(weights), loads |-> start, event |-> event]
       /\ n.event = event
  BY <1>4, <1>6
<1>11. n.trace.weights = RoundedAll(weights) /\ n.trace.loads = start
  BY <1>10
<1>12. Replayed(n) = Trace(p.config, RoundedAll(weights), kept, start, event)
  BY <1>1, <1>9, <1>10, <1>11 DEF Replayed
<1>13. Replayed(n) = [orders |-> Unreserved(r), weights |-> RoundedAll(weights),
                      loads |-> start, event |-> event]
  BY <1>2, <1>5, <1>7, <1>12 DEF Trace
<1>14. OnGrid(r) => Unreserved(r) = c.orders
  BY <1>2, <1>6, <1>8
<1> QED
  BY <1>1, <1>10, <1>13, <1>14 DEF c, p

(* An authentic run verifies and replays if, and only if, it committed what  *)
(* the pipeline chooses from the rounded input and weights: for every        *)
(* pipeline, every rounding and every reservation.                          *)
THEOREM VerifiesUnlessReselected == Spec => []VerifiedUnlessReselected
<1>1. AInv => VerifiedUnlessReselected
  <2> SUFFICES ASSUME AInv, NEW r \in DOMAIN manifests, Intact(r), SameKey(r)
               PROVE  LET same == sealed[r].manifest.trace.orders = Unreserved(r)
                      IN  /\ Verified(manifests[r]) = same
                          /\ ReplaySucceeds(manifests[r]) = same
                          /\ OnGrid(r) => Unreserved(r) = sealed[r].choice.orders
    BY DEF VerifiedUnlessReselected
  <2> DEFINE m == manifests[r]
             again == Unreserved(r)
  <2>1. PICK weights, loads, event :
          /\ Replayed(m) =
               [orders |-> again, weights |-> weights, loads |-> loads, event |-> event]
          /\ m.trace =
               [orders |-> m.trace.orders, weights |-> weights, loads |-> loads, event |-> event]
          /\ OnGrid(r) => again = sealed[r].choice.orders
    BY ReplayedIsUnreserved
  <2>2. SignatureValid(m)
    BY IntactIsSigned
  <2>3. Sealing(r, sealed[r]) /\ m = sealed[r].manifest
    BY DEF AInv, TypeOK, RowsWell, Intact
  <2>4. m.trace_hash = m.trace
    BY <2>3 DEF Sealing
  <2> HIDE DEF m, again
  <2>5. (Replayed(m) = m.trace) <=> (m.trace.orders = again)
    <3>1. Replayed(m) = m.trace => m.trace.orders = again
      <4>1. Replayed(m).orders = again
        BY <2>1
      <4> QED
        BY <4>1
    <3> QED
      BY <2>1, <3>1
  <2>6. Verified(m) = (m.trace.orders = again)
    BY <2>2, <2>4, <2>5 DEF Verified, TraceMatch
  <2>7. ReplaySucceeds(m) = (m.trace.orders = again)
    BY <2>4, <2>5 DEF ReplaySucceeds
  <2> QED
    BY <2>1, <2>3, <2>6, <2>7 DEF m, again
<1> QED
  BY <1>1, AuditInvariant, PTL

-----------------------------------------------------------------------------
(* Diagnostics.                                                            *)

(* Moving places in a table does not change how many there are. *)
LEMMA ShiftedCardinality ==
    ASSUME NEW n \in Nat, NEW off \in Nat, NEW S \in SUBSET (1..n)
    PROVE  Cardinality({off + j : j \in S}) = Cardinality(S)
<1> DEFINE T == {off + j : j \in S}
           f == [j \in S |-> off + j]
<1>1. IsFiniteSet(S)
  <2>1. IsFiniteSet(1..n)
    BY FS_Interval
  <2> QED
    BY <2>1, FS_Subset
<1>2. f \in Bijection(S, T)
  BY DEF Bijection, Injection, Surjection, IsInjective
<1>3. ExistsBijection(S, T)
  BY <1>2 DEF ExistsBijection
<1> QED
  BY <1>1, <1>3, FS_Bijection

LEMMA EventsOfRun ==
    ASSUME AInv, NEW r \in DOMAIN sealed
    PROVE  LET rows == sealed[r].manifest.trace.orders
           IN  Cardinality({k \in DOMAIN events : events[k].run = r /\ events[k].partner # None})
                 = Cardinality(DOMAIN rows \ Unallocated(rows))
<1> DEFINE rows == sealed[r].manifest.trace.orders
           mine == sealed[r].events
           n == Len(mine)
           S == DOMAIN rows \ Unallocated(rows)
<1>1. Sealing(r, sealed[r])
  BY DEF AInv, RowsWell
<1>2. /\ n \in Nat /\ DOMAIN rows = 1..n
      /\ \A k \in 1..n : mine[k] = [order |-> rows[k].order, run |-> r, partner |-> rows[k].chosen]
  BY <1>1, SealedEvents
<1>3. Block(events, r, mine) /\ DOMAIN events = 1..Len(events) /\ Len(events) \in Nat
  BY DEF AInv, EventsWell, IsList
<1> HIDE DEF rows, mine
<1>4. PICK off \in Nat :
        /\ off + n <= Len(events)
        /\ \A j \in 1..n : events[off + j] = mine[j]
        /\ \A k \in DOMAIN events : events[k].run = r <=> k \in off + 1..off + n
  BY <1>3 DEF Block
<1>5. S = {j \in 1..n : rows[j].chosen # None}
  BY <1>2 DEF Unallocated
<1>6. \A j \in 1..n : /\ off + j \in DOMAIN events
                       /\ events[off + j].run = r
                       /\ events[off + j].partner = rows[j].chosen
  <2> SUFFICES ASSUME NEW j \in 1..n
               PROVE  /\ off + j \in DOMAIN events
                      /\ events[off + j].run = r
                      /\ events[off + j].partner = rows[j].chosen
    OBVIOUS
  <2>1. off + j \in DOMAIN events
    BY <1>2, <1>3, <1>4
  <2>2. events[off + j] = [order |-> rows[j].order, run |-> r, partner |-> rows[j].chosen]
    <3>1. events[off + j] = mine[j]
      BY <1>4
    <3> QED
      BY <1>2, <3>1
  <2> QED
    BY <2>1, <2>2
<1>7. \A k \in DOMAIN events : events[k].run = r => k - off \in 1..n /\ k = off + (k - off)
  BY <1>2, <1>3, <1>4
<1> HIDE DEF n
<1>8. {k \in DOMAIN events : events[k].run = r /\ events[k].partner # None} = {off + j : j \in S}
  <2>1. ASSUME NEW k \in DOMAIN events, events[k].run = r, events[k].partner # None
        PROVE  k \in {off + j : j \in S}
    <3>1. k - off \in 1..n /\ k = off + (k - off)
      BY <1>7, <2>1
    <3>2. k - off \in S
      BY <1>5, <1>6, <2>1, <3>1
    <3> QED
      BY <3>1, <3>2
  <2>2. ASSUME NEW j \in S
        PROVE  /\ off + j \in DOMAIN events
               /\ events[off + j].run = r /\ events[off + j].partner # None
    BY <1>5, <1>6
  <2> QED
    BY <2>1, <2>2
<1>9. Cardinality({off + j : j \in S}) = Cardinality(S)
  <2>1. n \in Nat /\ S \in SUBSET (1..n)
    BY <1>2, <1>5
  <2> HIDE DEF S
  <2> QED
    BY <2>1, ShiftedCardinality, Zenon
<1> QED
  BY <1>8, <1>9 DEF rows

(* The diagnostics a client got are those recomputed from the tables, at any *)
(* later time, and the allocations they count are events of the run.         *)
THEOREM DiagnosticsStay == Spec => []DiagnosticsAgree
<1>1. AInv => DiagnosticsAgree
  <2> SUFFICES ASSUME AInv, NEW r \in DOMAIN manifests, Intact(r)
               PROVE  /\ StoredDiagnostics(manifests[r]) = responses[r]
                      /\ responses[r].allocated =
                            Cardinality({k \in DOMAIN events : events[k].run = r /\ events[k].partner # None})
    BY DEF DiagnosticsAgree
  <2> DEFINE rows == sealed[r].manifest.trace.orders
  <2>1. /\ r \in DOMAIN sealed /\ Sealing(r, sealed[r])
        /\ responses[r] = sealed[r].response
        /\ manifests[r].config_hash \in DOMAIN configs
    BY DEF AInv, TypeOK, RowsWell
  <2>2. responses[r] = Diagnostics(rows, sealed[r].config.hard)
    BY <2>1 DEF Sealing
  <2>3. StoredDiagnostics(manifests[r]) = Diagnostics(rows, sealed[r].config.hard)
    BY <2>1 DEF StoredDiagnostics, Get, Intact
  <2>4. Diagnostics(rows, sealed[r].config.hard).allocated = Cardinality(DOMAIN rows \ Unallocated(rows))
    BY DEF Diagnostics
  <2> QED
    BY <2>1, <2>2, <2>3, <2>4, EventsOfRun
<1> QED
  BY <1>1, AuditInvariant, PTL

-----------------------------------------------------------------------------
(* Lookup by order.                                                        *)

LEMMA CommitLookup ==
    ASSUME AInv, NEW r \in Runs, Commit(r), NEW o
    PROVE  ManifestOf(o)' = IF o \in OrdersOf(r)' THEN r ELSE ManifestOf(o)
<1> DEFINE p == pending[r]
           rows == p.manifest.trace.orders
           n == Len(p.events)
           L == Len(events)
           old == EventsOf(o)
           new == {k \in DOMAIN events' : events'[k].order = o}
<1>1. /\ Sealing(r, p) /\ IsList(p.events) /\ IsList(events)
      /\ manifests' = Put(manifests, r, p.manifest)
      /\ events' = events \o p.events
  BY CommitEffect
<1>2. /\ n \in Nat /\ DOMAIN rows = 1..n
      /\ \A k \in 1..n : p.events[k] = [order |-> rows[k].order, run |-> r, partner |-> rows[k].chosen]
  BY <1>1, SealedEvents
<1>3. /\ DOMAIN events = 1..L /\ L \in Nat
      /\ DOMAIN events' = 1..L + n
      /\ \A k \in 1..L : events'[k] = events[k]
      /\ \A j \in 1..n : events'[L + j] = p.events[j]
  BY <1>1, ListConcat
<1>4. manifests'[r] = p.manifest
  BY <1>1 DEF Put
<1> HIDE DEF p
<1>5. OrdersOf(r)' = {rows[j].order : j \in 1..n}
  BY <1>2, <1>4 DEF OrdersOf, RangeOf
<1>6. ManifestOf(o)' = IF new = {} THEN None ELSE events'[Last(new)].run
  BY DEF ManifestOf, LastEvent, EventsOf
<1>7. ManifestOf(o) = IF old = {} THEN None ELSE events[Last(old)].run
  BY DEF ManifestOf, LastEvent
<1> HIDE DEF rows, n, L
<1>8. new \in SUBSET (1..L + n) /\ L + n \in Nat
  BY <1>2, <1>3
<1>9. \A k \in 1..L + n : k > L => k - L \in 1..n /\ k = L + (k - L)
  BY <1>2, <1>3
<1>a. \A j \in 1..n : /\ L + j \in 1..L + n
                     /\ events'[L + j].order = rows[j].order
                     /\ events'[L + j].run = r
  <2> SUFFICES ASSUME NEW j \in 1..n
               PROVE  /\ L + j \in 1..L + n
                      /\ events'[L + j].order = rows[j].order
                      /\ events'[L + j].run = r
    OBVIOUS
  <2>1. L + j \in 1..L + n
    BY <1>2, <1>3
  <2>2. events'[L + j] = p.events[j]
    BY <1>3
  <2>3. p.events[j] = [order |-> rows[j].order, run |-> r, partner |-> rows[j].chosen]
    BY <1>2
  <2>4. events'[L + j] = [order |-> rows[j].order, run |-> r, partner |-> rows[j].chosen]
    BY <2>2, <2>3
  <2> QED
    BY <2>1, <2>4
<1>10. CASE o \in OrdersOf(r)'
  <2>1. PICK j \in 1..n : rows[j].order = o
    BY <1>5, <1>10
  <2>2. L + j \in new
    BY <1>3, <1>a, <2>1
  <2>3. Last(new) \in new /\ L + j <= Last(new)
    BY <1>8, <2>2, LastExists
  <2>4. Last(new) > L
    BY <1>3, <1>8, <2>3
  <2>5. Last(new) - L \in 1..n /\ Last(new) = L + (Last(new) - L)
    BY <1>8, <1>9, <2>3, <2>4
  <2>6. events'[Last(new)].run = r
    BY <1>a, <2>5
  <2> QED
    BY <1>6, <1>10, <2>2, <2>6
<1>11. CASE o \notin OrdersOf(r)'
  <2>1. ASSUME NEW k \in new PROVE k \in old
    <3>1. k \in 1..L + n /\ events'[k].order = o
      BY <1>8
    <3>2. CASE k > L
      <4>1. k - L \in 1..n /\ k = L + (k - L)
        BY <1>9, <3>1, <3>2
      <4>2. rows[k - L].order = o
        BY <1>a, <3>1, <4>1
      <4> QED
        BY <1>5, <1>11, <4>1, <4>2
    <3>3. CASE k <= L
      <4>1. k \in 1..L
        BY <1>2, <1>3, <3>1, <3>3
      <4> QED
        BY <1>3, <3>1, <4>1 DEF EventsOf
    <3> QED
      BY <1>2, <1>3, <3>1, <3>2, <3>3
  <2>2. ASSUME NEW k \in old PROVE k \in new
    <3>1. k \in 1..L /\ events[k].order = o
      BY <1>3 DEF EventsOf
    <3>2. k \in 1..L + n
      BY <1>2, <1>3, <3>1
    <3> QED
      BY <1>3, <3>1, <3>2
  <2>3. new = old
    BY <2>1, <2>2
  <2>4. CASE old = {}
    BY <1>6, <1>7, <1>11, <2>3, <2>4
  <2>5. CASE old # {}
    <3>1. old \in SUBSET (1..L)
      BY <1>3 DEF EventsOf
    <3>2. Last(old) \in 1..L
      BY <1>3, <2>5, <3>1, LastExists
    <3>3. events'[Last(old)] = events[Last(old)]
      BY <1>3, <3>2
    <3> HIDE DEF old, new
    <3> QED
      BY <1>6, <1>7, <1>11, <2>3, <2>5, <3>3
  <2> QED
    BY <2>4, <2>5
<1> QED
  BY <1>10, <1>11

(* A commit makes its run the one its orders lead to, and moves no other     *)
(* order, for any number of overlapping runs.                                *)
THEOREM CommitsAreVisible == Spec => CommitIsVisible
<1> DEFINE A == \A r \in DOMAIN manifests' \ DOMAIN manifests :
                  \A o \in AllOrders' :
                      ManifestOf(o)' = IF o \in OrdersOf(r)' THEN r ELSE ManifestOf(o)
<1>1. AInv /\ [Next]_vars => [A]_vars
  <2> SUFFICES ASSUME AInv, Next PROVE A
    OBVIOUS
  <2>1. ASSUME NEW q \in Runs, Commit(q) PROVE A
    <3>1. DOMAIN manifests' = DOMAIN manifests \cup {q}
      BY <2>1 DEF Commit, Put
    <3>2. \A o : ManifestOf(o)' = IF o \in OrdersOf(q)' THEN q ELSE ManifestOf(o)
      BY <2>1, CommitLookup
    <3> QED
      BY <3>1, <3>2
  <2>2. CASE DOMAIN manifests' = DOMAIN manifests
    BY <2>2
  <2>3. (\E q \in Runs : Commit(q)) \/ DOMAIN manifests' = DOMAIN manifests
    BY DEF Next, Decide, Fail, Tick, EditRules, Restart, AlterTrace, AlterEvent,
           AlterSnapshot, AlterConfig, tables
  <2> QED
    BY <2>1, <2>2, <2>3
<1> QED
  BY <1>1, AuditInvariant, PTL DEF Spec, CommitIsVisible

-----------------------------------------------------------------------------
(* Who is taken has passed the rules. *)

(* Among finitely many scored candidates there is a best one: otherwise     *)
(* there is a smallest set of them without, and taking one away leaves it.  *)
LEMMA BestExists ==
    ASSUME NEW S, IsFiniteSet(S), S # {},
           \A c \in S : c.score \in Int /\ c.partner \in Int
    PROVE  \E c \in S : \A d \in S : Better(c, d)
<1> DEFINE HasBest(T) == \E c \in T : \A d \in T : Better(c, d)
           Bad == {T \in SUBSET S : T # {} /\ ~HasBest(T)}
<1>1. SUFFICES ASSUME ~HasBest(S) PROVE FALSE
  OBVIOUS
<1>2. /\ \A c \in S : Better(c, c)
      /\ \A c, d \in S : Better(c, d) \/ Better(d, c)
      /\ \A b, c, d \in S : Better(b, c) /\ Better(c, d) => Better(b, d)
  BY DEF Better
<1>3. PICK T \in Bad : \A U \in Bad : ~(<<U, T>> \in StrictSubsetOrdering(S))
  <2>1. Bad # {} /\ Bad \subseteq SUBSET S
    BY <1>1
  <2>2. IsWellFoundedOn(StrictSubsetOrdering(S), SUBSET S)
    BY FS_StrictSubsetOrderingWellFounded, FS_FiniteSubsetsOfFinite
  <2> HIDE DEF Bad
  <2> QED
    BY <2>1, <2>2, WFMin
<1>4. T \in SUBSET S /\ T # {} /\ ~HasBest(T)
  BY <1>3
<1>5. PICK x \in T : TRUE
  BY <1>4
<1> DEFINE U == T \ {x}
<1>6. <<U, T>> \in StrictSubsetOrdering(S)
  BY <1>4, <1>5 DEF StrictSubsetOrdering
<1>7. U = {} \/ HasBest(U)
  BY <1>3, <1>4, <1>6
<1>8. CASE U = {}
  BY <1>2, <1>4, <1>5, <1>8
<1>9. CASE HasBest(U)
  <2>1. PICK m \in U : \A y \in U : Better(m, y)
    BY <1>9
  <2>2. CASE Better(m, x)
    BY <1>4, <2>1, <2>2
  <2>3. CASE Better(x, m)
    <3>1. \A y \in T : Better(x, y)
      BY <1>2, <1>4, <1>5, <2>1, <2>3
    <3> QED
      BY <1>4, <1>5, <3>1
  <2> QED
    BY <1>2, <1>4, <1>5, <2>1, <2>2, <2>3
<1> QED
  BY <1>7, <1>8, <1>9

LEMMA TakenIsEligible ==
    ASSUME NEW row, NEW denied, IsOrderTrace(row), Taken(row, denied) # None
    PROVE  \E c \in Eligible(row) : c.partner = Taken(row, denied)
<1> DEFINE free == {c \in Eligible(row) : c.partner \notin denied}
           best == CHOOSE c \in free : \A d \in free : Better(c, d)
<1>1. free # {} /\ Taken(row, denied) = best.partner
  BY DEF Taken
<1>2. free \subseteq RangeOf(row.candidates) /\ \A c \in free : c.score \in Int /\ c.partner \in Int
  BY DEF Eligible, IsOrderTrace
<1>3. IsFiniteSet(free)
  BY <1>2, FS_Subset DEF IsOrderTrace
<1>4. \E c \in free : \A d \in free : Better(c, d)
  <2> HIDE DEF free
  <2> QED
    BY <1>1, <1>2, <1>3, BestExists
<1>5. best \in free
  BY <1>4
<1> QED
  BY <1>1, <1>5

(* Who is taken for one order after the other is well defined. *)
IsTaken(t, rows, denied) ==
    t = [k \in DOMAIN rows |-> Taken(rows[k], denied[k] \cup {t[j] : j \in 1..k - 1})]

LEMMA TakenDefined ==
    ASSUME NEW n \in Nat, NEW rows, NEW denied, DOMAIN rows = 1..n
    PROVE  \E t : IsTaken(t, rows, denied)
<1> DEFINE Upto(m, t) ==
             t = [k \in 1..m |-> Taken(rows[k], denied[k] \cup {t[j] : j \in 1..k - 1})]
           Bad == {m \in Nat : ~\E t : Upto(m, t)}
<1>1. SUFFICES ASSUME Bad # {} PROVE FALSE
  <2>1. CASE Bad = {}
    <3>1. PICK t : Upto(n, t)
      BY <2>1
    <3>2. IsTaken(t, rows, denied)
      BY <3>1 DEF IsTaken
    <3> QED
      BY <3>2
  <2> HIDE DEF Bad
  <2> QED
    BY <2>1
<1>2. PICK m \in Bad : \A l \in Bad : ~(<<l, m>> \in OpToRel(<, Nat))
  <2>1. Bad \subseteq Nat
    OBVIOUS
  <2> HIDE DEF Bad
  <2> QED
    BY <1>1, <2>1, NatLessThanWellFounded, WFMin, Zenon
<1>3. m \in Nat /\ \A l \in Nat : l < m => \E t : Upto(l, t)
  BY <1>2 DEF OpToRel
<1>4. CASE m = 0
  <2>1. Upto(0, [k \in 1..0 |-> None])
    OBVIOUS
  <2> QED
    BY <1>2, <1>4, <2>1
<1>5. CASE m # 0
  <2>1. m - 1 \in Nat /\ m - 1 < m
    BY <1>3, <1>5
  <2>2. PICK t : Upto(m - 1, t)
    BY <1>3, <2>1
  <2> DEFINE last == Taken(rows[m], denied[m] \cup {t[j] : j \in 1..m - 1})
             u == [k \in 1..m |-> IF k = m THEN last ELSE t[k]]
  <2>3. \A k \in 1..m : {u[j] : j \in 1..k - 1} = {t[j] : j \in 1..k - 1}
    <3> SUFFICES ASSUME NEW k \in 1..m PROVE \A j \in 1..k - 1 : u[j] = t[j]
      OBVIOUS
    <3> HIDE DEF last
    <3> QED
      BY <1>3
  <2>4. \A k \in 1..m : u[k] = Taken(rows[k], denied[k] \cup {t[j] : j \in 1..k - 1})
    <3> SUFFICES ASSUME NEW k \in 1..m
                 PROVE  u[k] = Taken(rows[k], denied[k] \cup {t[j] : j \in 1..k - 1})
      OBVIOUS
    <3>1. CASE k = m
      BY <3>1
    <3>2. CASE k # m
      <4>1. k \in 1..m - 1
        BY <1>3, <3>2
      <4>2. t[k] = Taken(rows[k], denied[k] \cup {t[j] : j \in 1..k - 1})
        BY <2>2, <4>1
      <4> HIDE DEF last
      <4> QED
        BY <3>2, <4>2
    <3> QED
      BY <3>1, <3>2
  <2>5. \A k \in 1..m : u[k] = Taken(rows[k], denied[k] \cup {u[j] : j \in 1..k - 1})
    BY <2>3, <2>4
  <2>6. u = [k \in 1..m |-> u[k]]
    OBVIOUS
  <2> HIDE DEF u
  <2>7. Upto(m, u)
    BY <2>5, <2>6
  <2> QED
    BY <1>2, <2>7
<1> QED
  BY <1>4, <1>5

(* The rows the reservations leave: the order and the candidates of the     *)
(* pipeline's, and for a partner one of these.                              *)
RowWell(row) ==
    /\ "order" \in DOMAIN row
    /\ row.chosen # None => \E c \in Eligible(row) : c.partner = row.chosen

LEMMA ReservedRows ==
    ASSUME NEW n \in Nat, NEW rows, NEW denied, DOMAIN rows = 1..n,
           \A k \in 1..n : IsOrderTrace(rows[k]),
           NEW k \in 1..n
    PROVE  RowWell(Reserved(rows, denied)[k])
<1> DEFINE taken == CHOOSE t : IsTaken(t, rows, denied)
<1>1. IsTaken(taken, rows, denied)
  BY TakenDefined
<1>2. Reserved(rows, denied) = [i \in DOMAIN rows |-> [rows[i] EXCEPT !.chosen = taken[i]]]
  BY DEF Reserved, IsTaken
<1>3. \E d : taken[k] = Taken(rows[k], d)
  BY <1>1 DEF IsTaken
<1> HIDE DEF taken
<1> DEFINE row == [rows[k] EXCEPT !.chosen = taken[k]]
<1>4. Reserved(rows, denied)[k] = row
  BY <1>2
<1>5. {"order", "candidates", "chosen"} \subseteq DOMAIN rows[k]
  BY DEF IsOrderTrace
<1>6. row.chosen = taken[k] /\ row.candidates = rows[k].candidates /\ "order" \in DOMAIN row
  BY <1>5
<1>7. Eligible(row) = Eligible(rows[k])
  BY <1>6 DEF Eligible
<1>8. taken[k] # None => \E c \in Eligible(rows[k]) : c.partner = taken[k]
  BY <1>3, TakenIsEligible
<1> HIDE DEF row
<1> QED
  BY <1>4, <1>6, <1>7, <1>8 DEF RowWell

-----------------------------------------------------------------------------
(* What alterations leave of the order traces, and when runs were decided. *)

SameOrders(rows, others) ==
    /\ DOMAIN rows = DOMAIN others
    /\ \A k \in DOMAIN others : "order" \in DOMAIN rows[k] /\ rows[k].order = others[k].order

(* m, as it is now, of a run that committed n. *)
TraceKept(m, n) ==
    /\ m.decided_at \in Int
    /\ "orders" \in DOMAIN m.trace
    /\ SameOrders(m.trace.orders, n.trace.orders)
    /\ \A k \in DOMAIN n.trace.orders : RowWell(n.trace.orders[k])

TracesWell ==
    /\ \A r \in Runs : pending[r] # None => TraceKept(pending[r].manifest, pending[r].manifest)
    /\ \A r \in DOMAIN sealed : TraceKept(manifests[r], sealed[r].manifest)

LEMMA DecideTraces ==
    ASSUME AInv, TracesWell, NEW r \in Runs, Decide(r)
    PROVE  TracesWell'
<1>1. PICK input \in Inputs :
        LET choice == Decision(rules, input)
        IN  \E denied \in [DOMAIN choice.orders -> SUBSET DOMAIN input.load] :
               pending' = [pending EXCEPT ![r] =
                             Staged(r, input, choice, Reserved(choice.orders, denied))]
  BY DEF Decide
<1> DEFINE choice == Decision(rules, input)
<1>2. PICK denied : pending' = [pending EXCEPT ![r] =
                                  Staged(r, input, choice, Reserved(choice.orders, denied))]
  BY <1>1
<1> DEFINE rows == Reserved(choice.orders, denied)
           m == Staged(r, input, choice, rows).manifest
<1>3. rules \in Rules /\ clock \in Int /\ DOMAIN pending = Runs
  BY AuditTrailAssumption DEF AInv, TypeOK
<1>4. PICK n \in Nat : DOMAIN choice.orders = 1..n
  <2>1. choice.orders \in Seq(RangeOf(choice.orders))
    BY <1>3, AuditTrailAssumption
  <2> HIDE DEF choice
  <2> QED
    BY <2>1
<1>5. \A k \in 1..n : IsOrderTrace(choice.orders[k])
  BY <1>3, <1>4, OrderTraceAssumption
<1>6. DOMAIN rows = 1..n
  BY <1>4, ReservedDomain
<1>7. choice = [orders |-> choice.orders, weights |-> choice.weights,
                loads |-> choice.loads, event |-> choice.event]
  BY DecisionFields
<1> HIDE DEF choice
<1>8. \A k \in 1..n : RowWell(rows[k])
  BY <1>4, <1>5, ReservedRows
<1> HIDE DEF rows
<1>9. m.decided_at = clock /\ m.trace = [choice EXCEPT !.orders = rows]
  BY DEF Staged, Manifest
<1>10. "orders" \in DOMAIN m.trace /\ m.trace.orders = rows
  BY <1>7, <1>9
<1> HIDE DEF m
<1>11. TraceKept(m, m)
  BY <1>3, <1>6, <1>8, <1>9, <1>10 DEF TraceKept, SameOrders, RowWell
<1>12. /\ pending'[r].manifest = m
       /\ \A q \in Runs : q # r => pending'[q] = pending[q]
       /\ manifests' = manifests /\ sealed' = sealed
  BY <1>2, <1>3 DEF Decide, tables, m, rows
<1> QED
  BY <1>11, <1>12 DEF TracesWell

LEMMA CommitTraces ==
    ASSUME AInv, TracesWell, NEW r \in Runs, Commit(r)
    PROVE  TracesWell'
<1> DEFINE p == pending[r]
<1>1. /\ manifests' = Put(manifests, r, p.manifest) /\ sealed' = Put(sealed, r, p)
      /\ pending' = [pending EXCEPT ![r] = None] /\ p # None
  BY DEF Commit
<1>2. DOMAIN manifests = DOMAIN sealed /\ DOMAIN pending = Runs
  BY DEF AInv, TypeOK
<1>3. TraceKept(p.manifest, p.manifest)
  BY <1>1 DEF TracesWell
<1> HIDE DEF p
<1>4. \A q \in Runs : pending'[q] # None => pending'[q] = pending[q]
  BY <1>1, <1>2
<1>5. ASSUME NEW q \in DOMAIN sealed'
      PROVE  TraceKept(manifests'[q], sealed'[q].manifest)
  <2>1. CASE q = r
    BY <1>1, <1>3, <2>1 DEF Put
  <2>2. CASE q # r
    <3>1. q \in DOMAIN sealed /\ sealed'[q] = sealed[q] /\ manifests'[q] = manifests[q]
      BY <1>1, <1>2, <2>2 DEF Put
    <3> QED
      BY <3>1 DEF TracesWell
  <2> QED
    BY <2>1, <2>2
<1> QED
  BY <1>4, <1>5 DEF TracesWell

(* An alteration of a manifest leaves its date and the orders of its trace. *)
LEMMA AlterTraces ==
    ASSUME AInv, TracesWell, NEW r \in DOMAIN manifests, AlterTrace(r) \/ AlterEvent(r)
    PROVE  TracesWell'
<1> DEFINE n == sealed[r].manifest
           m == manifests[r]
<1>1. DOMAIN manifests = DOMAIN sealed /\ pending' = pending /\ sealed' = sealed
  BY DEF AInv, TypeOK, AlterTrace, AlterEvent
<1>2. TraceKept(m, n) /\ IsManifest(m)
  BY <1>1 DEF TracesWell, AInv, RowsWell
<1>3. \A q \in DOMAIN manifests : q # r => manifests'[q] = manifests[q]
  BY DEF AlterTrace, AlterEvent
<1>4. TraceKept(manifests'[r], n)
  <2>1. CASE AlterEvent(r)
    <3>1. manifests'[r] = [m EXCEPT !.event = None]
      BY <2>1 DEF AlterEvent
    <3> HIDE DEF m, n
    <3>2. manifests'[r].decided_at = m.decided_at /\ manifests'[r].trace = m.trace
      BY <1>2, <3>1 DEF IsManifest
    <3> QED
      BY <1>2, <3>2 DEF TraceKept
  <2>2. CASE AlterTrace(r)
    <3>1. PICK k \in DOMAIN manifests[r].trace.orders :
             \E who \in {c.partner : c \in RangeOf(manifests[r].trace.orders[k].candidates)}
                           \cup {None} :
               LET forged == [manifests[r].trace EXCEPT !.orders[k].chosen = who]
               IN  /\ forged # manifests[r].trace
                   /\ \E hash \in {forged, manifests[r].trace_hash} :
                        manifests' = [manifests EXCEPT ![r].trace = forged, ![r].trace_hash = hash]
      BY <2>2, Zenon DEF AlterTrace
    <3> DEFINE Forged(who) == [manifests[r].trace EXCEPT !.orders[k].chosen = who]
    <3>2. PICK who, hash :
             manifests' = [manifests EXCEPT ![r].trace = Forged(who), ![r].trace_hash = hash]
      BY <3>1
    <3>3. PICK forged :
             /\ forged = [m.trace EXCEPT !.orders[k].chosen = who]
             /\ manifests' = [manifests EXCEPT ![r].trace = forged, ![r].trace_hash = hash]
      BY <3>2
    <3> DEFINE row == [m.trace.orders[k] EXCEPT !.chosen = who]
    <3>4. forged = [m.trace EXCEPT !.orders = [m.trace.orders EXCEPT ![k] = row]]
      BY <3>3
    <3>5. manifests'[r] = [[m EXCEPT !.trace = forged] EXCEPT !.trace_hash = hash]
      BY <3>3
    <3>6. k \in DOMAIN m.trace.orders
      OBVIOUS
    <3> HIDE DEF m, n
    <3>7. SameOrders(m.trace.orders, n.trace.orders) /\ "orders" \in DOMAIN m.trace
      BY <1>2 DEF TraceKept
    <3>8. "orders" \in DOMAIN forged /\ forged.orders = [m.trace.orders EXCEPT ![k] = row]
      BY <3>4, <3>7
    <3>9. manifests'[r].decided_at = m.decided_at /\ manifests'[r].trace = forged
      BY <1>2, <3>5 DEF IsManifest
    <3>10. "order" \in DOMAIN row /\ row.order = m.trace.orders[k].order
      BY <3>6, <3>7 DEF SameOrders
    <3> HIDE DEF row
    <3>11. SameOrders(forged.orders, n.trace.orders)
      BY <3>6, <3>7, <3>8, <3>10 DEF SameOrders
    <3> QED
      BY <1>2, <3>8, <3>9, <3>11 DEF TraceKept
  <2> QED
    BY <2>1, <2>2
<1> HIDE DEF m
<1> QED
  BY <1>1, <1>3, <1>4 DEF TracesWell

LEMMA TracesStep == AInv /\ TracesWell /\ [Next]_vars => TracesWell'
<1> SUFFICES ASSUME AInv, TracesWell, [Next]_vars PROVE TracesWell'
  OBVIOUS
<1>1. ASSUME NEW r \in Runs, Decide(r) PROVE TracesWell'
  BY <1>1, DecideTraces
<1>2. ASSUME NEW r \in Runs, Commit(r) PROVE TracesWell'
  BY <1>2, CommitTraces
<1>3. ASSUME NEW r \in DOMAIN manifests, AlterTrace(r) \/ AlterEvent(r) PROVE TracesWell'
  BY <1>3, AlterTraces
<1>4. ASSUME UNCHANGED <<manifests, sealed>>,
             \A r \in Runs : pending'[r] = pending[r] \/ pending'[r] = None
      PROVE  TracesWell'
  BY <1>4 DEF TracesWell
<1>5. ASSUME NEW r \in Runs, Fail(r) PROVE TracesWell'
  <2>1. DOMAIN pending = Runs
    BY DEF AInv, TypeOK
  <2> QED
    BY <1>4, <1>5, <2>1 DEF Fail, tables
<1>6. CASE Restart
  BY <1>4, <1>6 DEF Restart, tables
<1>7. CASE \/ Tick \/ EditRules \/ UNCHANGED vars
           \/ \E h \in DOMAIN snapshots : AlterSnapshot(h)
           \/ \E h \in DOMAIN configs : AlterConfig(h)
  BY <1>4, <1>7 DEF Tick, EditRules, AlterSnapshot, AlterConfig, vars, tables
<1> QED
  BY <1>1, <1>2, <1>3, <1>5, <1>6, <1>7 DEF Next

LEMMA TracesHold == Spec => [](AInv /\ TracesWell)
<1>1. Init => TracesWell
  BY DEF Init, TracesWell, NoRows
<1> QED
  BY <1>1, InitAInv, NextAInv, TracesStep, PTL DEF Spec

(* The events of a run, in the order of its trace. *)
LEMMA EventOfRow ==
    ASSUME AInv, TracesWell, NEW r \in DOMAIN sealed
    PROVE  LET rows == sealed[r].manifest.trace.orders
           IN  /\ \A j \in DOMAIN rows : \E k \in DOMAIN events :
                      events[k].run = r /\ events[k].order = rows[j].order
               /\ \A k \in DOMAIN events : events[k].run = r =>
                      \E j \in DOMAIN rows :
                          events[k].order = rows[j].order /\ events[k].partner = rows[j].chosen
<1> DEFINE new == sealed[r].events
           rows == sealed[r].manifest.trace.orders
           n == Len(new)
<1>1. Sealing(r, sealed[r]) /\ Block(events, r, new) /\ IsList(events)
  BY DEF AInv, RowsWell, EventsWell
<1>2. /\ n \in Nat /\ DOMAIN rows = 1..n
      /\ \A j \in 1..n : new[j] = [order |-> rows[j].order, run |-> r, partner |-> rows[j].chosen]
  BY <1>1, SealedEvents
<1>3. DOMAIN events = 1..Len(events) /\ Len(events) \in Nat
  BY <1>1 DEF IsList
<1>4. PICK off \in Nat :
        /\ off + n <= Len(events)
        /\ \A j \in 1..n : events[off + j] = new[j]
        /\ \A k \in DOMAIN events : events[k].run = r <=> k \in off + 1..off + n
  BY <1>1 DEF Block
<1> HIDE DEF new, rows, n
<1>5. \A j \in 1..n : /\ off + j \in DOMAIN events /\ events[off + j].run = r
                     /\ events[off + j].order = rows[j].order
                     /\ events[off + j].partner = rows[j].chosen
  <2> SUFFICES ASSUME NEW j \in 1..n
               PROVE  /\ off + j \in DOMAIN events /\ events[off + j].run = r
                      /\ events[off + j].order = rows[j].order
                      /\ events[off + j].partner = rows[j].chosen
    OBVIOUS
  <2>1. events[off + j] = [order |-> rows[j].order, run |-> r, partner |-> rows[j].chosen]
    BY <1>2, <1>4
  <2>2. off + j \in DOMAIN events
    BY <1>2, <1>3, <1>4
  <2> QED
    BY <2>1, <2>2
<1>6. \A k \in off + 1..off + n : k - off \in 1..n /\ k = off + (k - off)
  BY <1>2, <1>4
<1>7. ASSUME NEW k \in DOMAIN events, events[k].run = r
      PROVE  \E j \in 1..n : events[k].order = rows[j].order /\ events[k].partner = rows[j].chosen
  <2>1. k \in off + 1..off + n
    BY <1>4, <1>7
  <2>2. k - off \in 1..n /\ k = off + (k - off)
    BY <1>6, <2>1
  <2> QED
    BY <1>5, <2>2
<1> QED
  BY <1>2, <1>5, <1>7 DEF rows

(* The last event of an order is that of the last of the order's rows in the *)
(* run it belongs to.                                                       *)
LEMMA LastRowOfRun ==
    ASSUME AInv, NEW r \in DOMAIN sealed, NEW l \in DOMAIN events, events[l].run = r,
           \A k \in DOMAIN events : events[k].order = events[l].order => k <= l
    PROVE  LET rows == sealed[r].manifest.trace.orders
               at == {k \in DOMAIN rows : rows[k].order = events[l].order}
           IN  \E j \in at : (\A k \in at : k <= j) /\ events[l].partner = rows[j].chosen
<1> DEFINE new == sealed[r].events
           rows == sealed[r].manifest.trace.orders
           n == Len(new)
<1>1. Sealing(r, sealed[r]) /\ Block(events, r, new) /\ IsList(events)
  BY DEF AInv, RowsWell, EventsWell
<1>2. /\ n \in Nat /\ DOMAIN rows = 1..n
      /\ \A j \in 1..n : new[j] = [order |-> rows[j].order, run |-> r, partner |-> rows[j].chosen]
  BY <1>1, SealedEvents
<1>3. DOMAIN events = 1..Len(events) /\ Len(events) \in Nat
  BY <1>1 DEF IsList
<1>4. PICK off \in Nat :
        /\ off + n <= Len(events)
        /\ \A j \in 1..n : events[off + j] = new[j]
        /\ \A k \in DOMAIN events : events[k].run = r <=> k \in off + 1..off + n
  BY <1>1 DEF Block
<1> HIDE DEF new, rows, n
<1>5. ASSUME NEW j \in 1..n
      PROVE  /\ off + j \in DOMAIN events
             /\ events[off + j].order = rows[j].order /\ events[off + j].partner = rows[j].chosen
  <2>1. events[off + j] = [order |-> rows[j].order, run |-> r, partner |-> rows[j].chosen]
    BY <1>2, <1>4
  <2>2. off + j \in DOMAIN events
    BY <1>2, <1>3, <1>4
  <2> QED
    BY <2>1, <2>2
<1> DEFINE j == l - off
<1>6. j \in 1..n /\ off + j = l
  BY <1>2, <1>3, <1>4
<1> HIDE DEF j
<1>7. rows[j].order = events[l].order /\ events[l].partner = rows[j].chosen
  BY <1>5, <1>6
<1>8. ASSUME NEW k \in 1..n, rows[k].order = events[l].order PROVE k <= j
  <2>1. off + k <= l
    BY <1>5, <1>8
  <2> QED
    BY <1>6, <2>1
<1> QED
  BY <1>2, <1>6, <1>7, <1>8 DEF rows

(* The latest manifest is the one each of its orders leads to, unless a run  *)
(* decided no later and committed after it names the order too, for any      *)
(* number of overlapping runs and whatever rows were altered.                *)
THEOREM LatestIsFound == Spec => []LatestUnlessOvertaken
<1>1. AInv /\ TracesWell => LatestUnlessOvertaken
  <2> SUFFICES ASSUME AInv, TracesWell,
                      NEW m \in Latest, NEW o \in OrdersOf(m.id)
               PROVE  ManifestOf(o) = m.id \/ Overtaken(m, ManifestOf(o), o)
    BY DEF LatestUnlessOvertaken
  <2> DEFINE r == m.id
             rows == sealed[r].manifest.trace.orders
             l == Last(EventsOf(o))
  <2>1. /\ r \in DOMAIN manifests /\ m = manifests[r] /\ r \in DOMAIN sealed
        /\ \A s \in DOMAIN manifests : manifests[s].decided_at <= m.decided_at
    BY DEF Latest, RangeOf, AInv, TypeOK
  <2>2. \A s \in DOMAIN manifests : manifests[s].decided_at \in Int
    BY DEF AInv, TypeOK, TracesWell, TraceKept
  <2>3. PICK j \in DOMAIN rows : rows[j].order = o
    <3>1. SameOrders(manifests[r].trace.orders, rows)
      BY <2>1 DEF TracesWell, TraceKept
    <3>2. PICK j \in DOMAIN manifests[r].trace.orders : manifests[r].trace.orders[j].order = o
      BY DEF OrdersOf, RangeOf
    <3> HIDE DEF rows
    <3> QED
      BY <3>1, <3>2 DEF SameOrders
  <2>4. PICK k \in DOMAIN events : events[k].run = r /\ events[k].order = o
    BY <2>1, <2>3, EventOfRow
  <2>5. DOMAIN events = 1..Len(events) /\ Len(events) \in Nat
    BY DEF AInv, EventsWell, IsList
  <2>6. k \in EventsOf(o) /\ EventsOf(o) \in SUBSET (1..Len(events))
    BY <2>4, <2>5 DEF EventsOf
  <2>7. l \in EventsOf(o) /\ k <= l
    BY <2>5, <2>6, LastExists
  <2>8. /\ l \in DOMAIN events /\ events[l].run \in DOMAIN manifests
        /\ ManifestOf(o) = events[l].run
    BY <2>7 DEF EventsOf, AInv, TypeOK, ManifestOf, LastEvent
  <2> HIDE DEF l, r
  <2>9. ASSUME events[l].run # r PROVE Overtaken(m, events[l].run, o)
    <3>1. k < l
      BY <2>4, <2>5, <2>7, <2>8, <2>9
    <3>2. manifests[events[l].run].decided_at <= m.decided_at
      BY <2>1, <2>8
    <3> QED
      BY <2>4, <2>6, <2>7, <3>1, <3>2 DEF Overtaken, r
  <2> QED
    BY <2>8, <2>9 DEF r
<1> QED
  BY <1>1, TracesHold, PTL

NoneIsNoSummary ==
    \A a, b, c, d : None # [partner |-> a, chosen |-> b, failures |-> c, surviving |-> d]

(* The rejection summary of an order has the partner of the last of its rows *)
(* in the run it leads to, which passed the hard rules there, and the        *)
(* reasons of the first, for any pipeline that scores its candidates and any *)
(* reservations.                                                            *)
THEOREM SummariesAreTrue == NoneIsNoSummary => (Spec => []SummaryAgreesWithTrace)
<1> SUFFICES ASSUME NoneIsNoSummary PROVE Spec => []SummaryAgreesWithTrace
  OBVIOUS
<1>1. AInv /\ TracesWell => SummaryAgreesWithTrace
  <2> SUFFICES ASSUME AInv, TracesWell, NEW o \in AllOrders, Intact(LastEvent(o).run)
               PROVE  LET rows == sealed[LastEvent(o).run].manifest.trace.orders
                          at == {k \in DOMAIN rows : rows[k].order = o}
                          s == Summary(o)
                      IN  /\ s # None
                          /\ \E first, last \in at :
                                /\ \A k \in at : first <= k /\ k <= last
                                /\ s.chosen = rows[first].chosen /\ s.partner = rows[last].chosen
                                /\ s.surviving = {c.partner : c \in Eligible(rows[first])}
                                /\ s.partner # None =>
                                      s.partner \in {c.partner : c \in Eligible(rows[last])}
    BY DEF SummaryAgreesWithTrace
  <2> DEFINE l == Last(EventsOf(o))
             r == LastEvent(o).run
             rows == sealed[r].manifest.trace.orders
             at == {k \in DOMAIN rows : rows[k].order = o}
  <2>1. DOMAIN events = 1..Len(events) /\ Len(events) \in Nat
    BY DEF AInv, EventsWell, IsList
  <2>2. EventsOf(o) \in SUBSET (1..Len(events)) /\ EventsOf(o) # {}
    BY <2>1 DEF EventsOf, AllOrders, RangeOf
  <2>3. l \in EventsOf(o) /\ \A k \in EventsOf(o) : k <= l
    BY <2>1, <2>2, LastExists
  <2>4. /\ l \in DOMAIN events /\ events[l].order = o
        /\ LastEvent(o) = events[l] /\ events[l].run = r /\ r \in DOMAIN sealed
    BY <2>3 DEF EventsOf, LastEvent, AInv, TypeOK
  <2>5. manifests[r].trace.orders = rows
    BY DEF Intact
  <2>6. PICK n \in Nat : DOMAIN rows = 1..n
    <3>1. Sealing(r, sealed[r])
      BY <2>4 DEF AInv, RowsWell
    <3> QED
      BY <3>1, SealedEvents
  <2>7. \A j \in DOMAIN rows : RowWell(rows[j])
    BY <2>4 DEF TracesWell, TraceKept
  <2>8. PICK j \in at :
          (\A k \in at : k <= j) /\ events[l].partner = rows[j].chosen
    <3>1. \A k \in DOMAIN events : events[k].order = events[l].order => k <= l
      BY <2>3, <2>4 DEF EventsOf
    <3> HIDE DEF l, r
    <3>2. LET own == sealed[r].manifest.trace.orders
              named == {k \in DOMAIN own : own[k].order = events[l].order}
          IN  \E k \in named : (\A x \in named : x <= k) /\ events[l].partner = own[k].chosen
      BY <2>4, <3>1, LastRowOfRun
    <3> QED
      BY <2>4, <3>2
  <2> HIDE DEF l, r, rows
  <2>9. at \in SUBSET (1..n) /\ at # {}
    BY <2>6, <2>8
  <2>10. PICK i \in at : i = (CHOOSE k \in at : \A x \in at : k <= x) /\ \A k \in at : i <= k
    BY <2>6, <2>9, FirstExists
  <2>11. Summary(o) =
           [partner |-> rows[j].chosen, chosen |-> rows[i].chosen,
            failures |-> {<<c.failed, c.partner>> :
                            c \in RangeOf(rows[i].candidates) \ Eligible(rows[i])},
            surviving |-> {c.partner : c \in Eligible(rows[i])}]
    <3>1. Summary(o) = SummaryIn(rows, o)
      BY <2>5 DEF Summary, r
    <3>2. LastEvent(o).partner = rows[j].chosen
      BY <2>4, <2>8
    <3>3. /\ at = {k \in DOMAIN rows : rows[k].order = o}
          /\ at # {} /\ i = (CHOOSE k \in at : \A x \in at : k <= x)
      BY <2>9, <2>10
    <3> HIDE DEF at
    <3> QED
      BY <3>1, <3>2, <3>3 DEF SummaryIn
  <2>12. rows[j].chosen # None => rows[j].chosen \in {c.partner : c \in Eligible(rows[j])}
    BY <2>7, <2>8 DEF RowWell
  <2>13. /\ Summary(o) # None
         /\ Summary(o).chosen = rows[i].chosen /\ Summary(o).partner = rows[j].chosen
         /\ Summary(o).surviving = {c.partner : c \in Eligible(rows[i])}
    BY <2>11 DEF NoneIsNoSummary
  <2> QED
    BY <2>8, <2>10, <2>12, <2>13 DEF rows, r
<1> QED
  BY <1>1, TracesHold, PTL
=============================================================================
