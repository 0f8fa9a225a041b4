----------------------- MODULE AllocateRequest_proofs -----------------------
(***************************************************************************)
(* Theorems about AllocateRequest, for any number of requests, partners    *)
(* and orders, any payloads and any number of restarts.                    *)
(***************************************************************************)
EXTENDS AllocateRequest, FiniteSetTheorems, TLAPS

LEMMA PlanType ==
    ASSUME NEW r \in Requests
    PROVE  /\ Len(Plan[r]) \in Nat /\ Len(Plan[r]) <= MaxOrders
           /\ \A i \in Positions(r) : /\ Plan[r][i] \in [order : Orders, ranked : Seq(Partners)]
                                      /\ OrderAt(r, i) \in Orders
                                      /\ Plan[r][i].ranked \in Seq(Partners)
           /\ Positions(r) \subseteq Slots
  <1>1. Plan[r] \in Seq([order : Orders, ranked : Seq(Partners)])
    BY RequestAssumption
  <1>2. Len(Plan[r]) \in Nat /\ Len(Plan[r]) <= MaxOrders /\ MaxOrders \in Nat
    BY <1>1, RequestAssumption
  <1>3. \A i \in Positions(r) : Plan[r][i] \in [order : Orders, ranked : Seq(Partners)]
    <2> DEFINE Entry == [order : Orders, ranked : Seq(Partners)]
    <2>1. Plan[r] \in Seq(Entry)
      BY <1>1
    <2> HIDE DEF Entry
    <2>2. \A i \in Positions(r) : Plan[r][i] \in Entry
      BY <2>1 DEF Positions
    <2> QED  BY <2>2 DEF Entry
  <1>4. Positions(r) \subseteq Slots
    BY <1>2 DEF Positions, Slots
  <1> QED  BY <1>2, <1>3, <1>4 DEF OrderAt

LEMMA CandidateType ==
    ASSUME TypeOK, NEW r \in Requests, Trying(r)
    PROVE  /\ at[r] \in Positions(r) /\ at[r] \in Slots
           /\ Candidates(r)[cand[r]] \in Partners
           /\ Candidates(r) # <<>>
           /\ OrderAt(r, at[r]) \in Orders
  <1>1. at[r] \in Positions(r)
    BY PlanType, RequestAssumption DEF TypeOK, Trying, Positions
  <1>2. Candidates(r) \in Seq(Partners)
    BY <1>1, PlanType DEF Candidates
  <1>3. cand[r] \in 1..Len(Candidates(r))
    BY <1>2 DEF TypeOK, Trying
  <1> QED  BY <1>1, <1>2, <1>3, PlanType

(* The phases do not mix up. *)
LEMMA StoreTypes ==
    ASSUME Store!TypeOK
    PROVE  /\ \A p \in Partners, o \in Orders : Store!Grant(p, o) => Store!TypeOK'
           /\ \A S : Store!Clear(S) => Store!TypeOK'
           /\ Store!Elapse => Store!TypeOK'
           /\ Store!Restart => Store!TypeOK'
  <1>0. Ttl \in Nat \ {0}
    BY RequestAssumption
  <1> QED
    BY <1>0 DEF Store!TypeOK, Store!Grant, Store!Clear, Store!Elapse, Store!Restart

LEMMA TypeStep == TypeOK /\ [Next]_vars => TypeOK'
  <1> SUFFICES ASSUME TypeOK, [Next]_vars PROVE TypeOK'
    OBVIOUS
  <1> USE DEF Phases, Finished, InsertedTables
  <1>0. Ttl \in Nat \ {0} /\ MaxOrders \in Nat /\ MaxRestarts \in Nat
    BY RequestAssumption
  <1>a. /\ pc \in [Requests -> Phases]
        /\ at \in [Requests -> 1..(MaxOrders + 1)]
        /\ cand \in [Requests -> Nat \ {0}]
    BY DEF TypeOK
  <1>b. term \in [Requests -> [Slots -> 0..Ttl]]
    BY DEF TypeOK
  <1>1. ASSUME NEW r \in Requests, Start(r) PROVE TypeOK'
    <2>1. idempotency[KeyOf[r]] \in Requests \cup {NoRequest}
      BY RequestAssumption DEF TypeOK
    <2> QED  BY <1>1, <2>1 DEF Start, Goto, TypeOK, storeVars, dbVars, Store!TypeOK
  <1>2. ASSUME NEW r \in Requests, Reject(r) \/ BuildSnapshot(r) \/ Raise(r) PROVE TypeOK'
    BY <1>2 DEF Reject, BuildSnapshot, Raise, Goto, TypeOK, storeVars, dbVars, Store!TypeOK
  <1>3. ASSUME NEW r \in Requests,
               LoadConfig(r) \/ StageSnapshot(r) \/ StageIdempotency(r)
        PROVE  TypeOK'
    <2>1. inserts' \in [Requests -> SUBSET InsertedTables]
      BY <1>3 DEF LoadConfig, StageSnapshot, StageIdempotency, TypeOK
    <2>2. pc' \in [Requests -> Phases] /\ at' \in [Requests -> 1..(MaxOrders + 1)]
      <3>1. CASE LoadConfig(r)
        BY <1>0, <1>a, <3>1 DEF LoadConfig, StartLoop, Goto
      <3>2. CASE StageSnapshot(r) \/ StageIdempotency(r)
        BY <1>a, <3>2 DEF StageSnapshot, StageIdempotency, Goto
      <3> QED  BY <1>3, <3>1, <3>2
    <2>3. UNCHANGED <<cand, outcome, response, storeVars, tracker, dbVars, restarts>>
      BY <1>3 DEF LoadConfig, StageSnapshot, StageIdempotency
    <2> QED  BY <2>1, <2>2, <2>3 DEF TypeOK, storeVars, dbVars, Store!TypeOK
  <1>4. ASSUME NEW r \in Requests, SkipCandidate(r) \/ CandidateDenied(r) PROVE TypeOK'
    <2>1. cand' \in [Requests -> Nat \ {0}]
      <3>1. cand' = [cand EXCEPT ![r] = @ + 1]
        BY <1>4 DEF SkipCandidate, CandidateDenied
      <3> QED  BY <1>a, <3>1
    <2>2. UNCHANGED <<pc, at, outcome, inserts, response, lease, left, term, tracker, dbVars, restarts>>
      BY <1>4 DEF SkipCandidate, CandidateDenied, storeVars, Store!Deny, Store!leaseVars
    <2> QED  BY <2>1, <2>2 DEF TypeOK, dbVars, Store!TypeOK
  <1>5. ASSUME NEW r \in Requests, CandidateGranted(r) PROVE TypeOK'
    <2> DEFINE p == Candidates(r)[cand[r]]
    <2>1. Trying(r)
      BY <1>5 DEF CandidateGranted
    <2>2. p \in Partners /\ at[r] \in Slots /\ OrderAt(r, at[r]) \in Orders
      BY <2>1, CandidateType
    <2>3. Store!TypeOK'
      BY <1>5, <2>2, StoreTypes DEF CandidateGranted, TypeOK
    <2>4. outcome' \in [Requests -> [Slots -> Partners \cup {NoPartner}]]
      BY <1>5, <2>2 DEF CandidateGranted, TypeOK
    <2>5. term' \in [Requests -> [Slots -> 0..Ttl]]
      BY <1>0, <1>5, <2>2 DEF CandidateGranted, TypeOK
    <2>6. at' \in [Requests -> 1..(MaxOrders + 1)] /\ cand' \in [Requests -> Nat \ {0}]
      BY <1>0, <1>5, <2>2 DEF CandidateGranted, NextPosition, TypeOK, Slots
    <2> QED  BY <1>5, <2>3, <2>4, <2>5, <2>6 DEF CandidateGranted, TypeOK, dbVars
  <1>6. ASSUME NEW r \in Requests, NoCandidateLeft(r) PROVE TypeOK'
    <2>1. at[r] + 1 \in 1..(MaxOrders + 1)
      BY <1>0, <1>6, PlanType DEF NoCandidateLeft, TypeOK
    <2> QED  BY <1>6, <2>1 DEF NoCandidateLeft, NextPosition, TypeOK, storeVars, dbVars, Store!TypeOK
  <1>7. ASSUME NEW r \in Requests, SnapshotFails(r) PROVE TypeOK'
    BY <1>0, <1>7 DEF SnapshotFails, Goto, TypeOK, dbVars, Store!TypeOK
  <1>8. ASSUME NEW r \in Requests, Commit(r) PROVE TypeOK'
    <2>1. pc' \in [Requests -> Phases] /\ at' \in [Requests -> 1..(MaxOrders + 1)]
      BY <1>0, <1>8 DEF Commit, StartLoop, Goto, TypeOK
    <2>2. manifests' \subseteq Requests /\ snapshots' \subseteq Inputs /\ configs' \subseteq Configs
      BY <1>8, RequestAssumption DEF Commit, TypeOK
    <2>3. idempotency' \in [Keys -> Requests \cup {NoRequest}]
      BY <1>8 DEF Commit, TypeOK
    <2>4. UNCHANGED <<cand, outcome, inserts, response, lease, left, term, tracker, restarts>>
      BY <1>8 DEF Commit, storeVars
    <2> QED  BY <2>1, <2>2, <2>3, <2>4 DEF TypeOK, Store!TypeOK
  <1>9. ASSUME NEW r \in Requests,
               CommitConflicts(r) \/ DatabaseFails(r) \/ ReleasesDone(r)
        PROVE  TypeOK'
    <2>1. pc' \in [Requests -> Phases] /\ at' \in [Requests -> 1..(MaxOrders + 1)]
      <3>1. CASE CommitConflicts(r)
        BY <1>0, <1>a, <3>1 DEF CommitConflicts, StartLoop, Goto
      <3>2. CASE DatabaseFails(r)
        BY <1>0, <1>a, <3>2 DEF DatabaseFails, StartLoop, Goto
      <3>3. CASE ReleasesDone(r)
        BY <1>0, <1>a, <3>3 DEF ReleasesDone, StartLoop, Goto
      <3> QED  BY <1>9, <3>1, <3>2, <3>3
    <2>2. UNCHANGED <<cand, outcome, inserts, response, storeVars, tracker, dbVars, restarts>>
      BY <1>9 DEF CommitConflicts, DatabaseFails, ReleasesDone
    <2> QED  BY <2>1, <2>2 DEF TypeOK, storeVars, dbVars, Store!TypeOK
  <1>10. ASSUME NEW r \in Requests, AbortOrder(r) PROVE TypeOK'
    <2>1. at[r] + 1 \in 1..(MaxOrders + 1)
      BY <1>0, <1>10, PlanType DEF AbortOrder, Looping, TypeOK
    <2>2. Store!TypeOK'
      BY <1>10, StoreTypes DEF AbortOrder, TypeOK, storeVars, Store!TypeOK, Store!ReleaseAllForOrder
    <2>3. term' \in [Requests -> [Slots -> 0..Ttl]]
      <3>2. CASE UNCHANGED term \/ \E T \in SUBSET Slots :
                    term' = [term EXCEPT ![r] = [i \in Slots |-> IF i \in T THEN 0 ELSE @[i]]]
        <4>1. CASE UNCHANGED term
          BY <1>b, <4>1
        <4>2. ASSUME NEW T \in SUBSET Slots,
                     term' = [term EXCEPT ![r] = [i \in Slots |-> IF i \in T THEN 0 ELSE @[i]]]
              PROVE  term' \in [Requests -> [Slots -> 0..Ttl]]
          <5>1. [i \in Slots |-> IF i \in T THEN 0 ELSE term[r][i]] \in [Slots -> 0..Ttl]
            BY <1>0, <1>b
          <5>2. term' = [term EXCEPT ![r] = [i \in Slots |-> IF i \in T THEN 0 ELSE term[r][i]]]
            BY <4>2, <1>b
          <5> QED  BY <1>b, <5>1, <5>2
        <4> QED  BY <3>2, <4>1, <4>2
      <3>3. term' = [term EXCEPT ![r] =
                        [i \in Slots |-> IF i \in {j \in Slots : j \in Positions(r)
                                                     /\ OrderAt(r, j) = OrderAt(r, at[r])}
                                        THEN 0 ELSE @[i]]]
            \/ UNCHANGED term
        BY <1>10 DEF AbortOrder, storeVars
      <3> QED  BY <3>2, <3>3
    <2> QED  BY <1>10, <2>1, <2>2, <2>3 DEF AbortOrder, TypeOK, dbVars
  <1>11. ASSUME NEW r \in Requests, ReleasePair(r) PROVE TypeOK'
    <2>1. at[r] + 1 \in 1..(MaxOrders + 1)
      BY <1>0, <1>11, PlanType DEF ReleasePair, Looping, TypeOK
    <2>2. Store!TypeOK'
      BY <1>11, StoreTypes DEF ReleasePair, TypeOK, storeVars, Store!TypeOK, Store!Release
    <2>3. term' \in [Requests -> [Slots -> 0..Ttl]]
      <3>1. UNCHANGED term \/ term' = [term EXCEPT ![r][at[r]] = 0]
        BY <1>11 DEF ReleasePair, storeVars
      <3>2. at[r] \in Slots
        BY <1>0, <1>11, PlanType DEF ReleasePair, Looping, TypeOK, Slots
      <3>3. [term[r] EXCEPT ![at[r]] = 0] \in [Slots -> 0..Ttl]
        <4>1. term[r] \in [Slots -> 0..Ttl] /\ 0 \in 0..Ttl
          BY <1>0, <1>b
        <4> QED  BY <4>1
      <3> QED  BY <1>b, <3>1, <3>3
    <2> QED  BY <1>11, <2>1, <2>2, <2>3 DEF ReleasePair, TypeOK, dbVars
  <1>12. ASSUME NEW r \in Requests, RecordAssignment(r) PROVE TypeOK'
    <2>1. at[r] + 1 \in 1..(MaxOrders + 1) /\ at[r] \in Slots
      BY <1>0, <1>12, PlanType DEF RecordAssignment, Looping, TypeOK, Slots
    <2>2. tracker' \in [Partners -> Nat]
      BY <1>12, <2>1 DEF RecordAssignment, TypeOK
    <2> QED  BY <1>12, <2>1, <2>2 DEF RecordAssignment, TypeOK, storeVars, dbVars, Store!TypeOK
  <1>13. ASSUME NEW r \in Requests, Respond(r) PROVE TypeOK'
    BY <1>13 DEF Respond, Goto, TypeOK, storeVars, dbVars, Store!TypeOK
  <1>14. CASE Elapse
    <2>1. term' \in [Requests -> [Slots -> 0..Ttl]]
      BY <1>0, <1>14 DEF Elapse, TypeOK
    <2>2. Store!TypeOK'
      BY <1>14, StoreTypes DEF Elapse, TypeOK
    <2> QED  BY <1>14, <2>1, <2>2 DEF Elapse, TypeOK, handlerVars, dbVars
  <1>15. CASE Restart
    <2>1. Store!TypeOK'
      BY <1>15, StoreTypes DEF Restart, TypeOK
    <2>2. restarts' \in 0..MaxRestarts
      BY <1>0, <1>15 DEF Restart, TypeOK
    <2> QED  BY <1>0, <1>15, <2>1, <2>2 DEF Restart, TypeOK, dbVars
  <1>16. CASE UNCHANGED vars
    BY <1>16 DEF vars, handlerVars, storeVars, dbVars, TypeOK, Store!TypeOK
  <1> QED
    BY <1>1, <1>2, <1>3, <1>4, <1>5, <1>6, <1>7, <1>8, <1>9, <1>10, <1>11, <1>12, <1>13,
       <1>14, <1>15, <1>16
    DEF Next, Step

LEMMA TypeInit == Init => TypeOK
  <1>0. Ttl \in Nat \ {0} /\ MaxOrders \in Nat /\ MaxRestarts \in Nat
    BY RequestAssumption
  <1> QED  BY <1>0 DEF Init, TypeOK, Store!Init, Store!TypeOK, Phases, InsertedTables

(* Whatever requests arrive and however their threads interleave, every     *)
(* loop index, reservation and database row keeps its type.                 *)
THEOREM RequestTypes == Spec => []TypeOK
  BY TypeInit, TypeStep, PTL DEF Spec

-----------------------------------------------------------------------------
(* Exclusion *)

LEMMA Excludes == LeaseInv => Exclusion
  <1> SUFFICES ASSUME LeaseInv, NEW r \in Requests, NEW s \in Requests,
                      NEW i \in Slots, NEW j \in Slots,
                      term[r][i] > 0, term[s][j] > 0, outcome[r][i] = outcome[s][j]
               PROVE  r = s /\ i = j
    BY DEF Exclusion
  <1>0. CountedOnIsLeased
    BY DEF LeaseInv
  <1>a. /\ i \in Positions(r) /\ outcome[r][i] \in Partners
        /\ lease[outcome[r][i]] = OrderAt(r, i)
    BY <1>0 DEF CountedOnIsLeased
  <1>b. j \in Positions(s) /\ lease[outcome[s][j]] = OrderAt(s, j)
    BY <1>0 DEF CountedOnIsLeased
  <1>1. /\ i \in Positions(r) /\ j \in Positions(s)
        /\ OrderAt(r, i) = OrderAt(s, j)
        /\ outcome[r][i] # NoPartner
    BY <1>a, <1>b, RequestAssumption
  <1>2. InFlight(r) /\ InFlight(s)
    BY DEF LeaseInv, StillToGiveBack, InFlight, Finished
  <1>3. r = s
    BY <1>1, <1>2 DEF LeaseInv, FlightsApart, Overlaps, OrdersOf
  <1> QED  BY <1>1, <1>3 DEF LeaseInv, PartnerOncePerRequest

(* An order and a partner determine the position that counts on them. *)
LEMMA OnePosition ==
    ASSUME LeaseInv, NEW r \in Requests, NEW i \in Positions(r), InFlight(r),
           NEW s \in Requests, NEW j \in Slots, term[s][j] > 0,
           OrderAt(s, j) = OrderAt(r, i)
    PROVE  s = r
  <1>1. InFlight(s) /\ j \in Positions(s)
    BY DEF LeaseInv, StillToGiveBack, CountedOnIsLeased, InFlight, Finished
  <1> QED  BY <1>1 DEF LeaseInv, FlightsApart, Overlaps, OrdersOf

LEMMA FlightsStep ==
    ASSUME TypeOK, SerialClients, FlightsApart, [Next]_vars
    PROVE  FlightsApart'
  <1>1. CASE \E r \in Requests : Start(r)
    <2> PICK r \in Requests : Start(r)
      BY <1>1
    <2>1. \A s \in Requests : s # r => (InFlight(s)' <=> InFlight(s))
      BY DEF Start, Goto, TypeOK, InFlight
    <2>2. \A s \in Requests : InFlight(s) => ~Overlaps(r, s) /\ ~Overlaps(s, r)
      BY DEF Start, Overlaps
    <2> QED  BY <2>1, <2>2 DEF FlightsApart, Overlaps, OrdersOf, OrderAt, Positions
  <1>2. ASSUME \A s \in Requests : InFlight(s)' => InFlight(s)
        PROVE  FlightsApart'
    BY <1>2 DEF FlightsApart, Overlaps, OrdersOf, OrderAt, Positions
  <1>3. ASSUME NEW r \in Requests, Step(r)
        PROVE  InFlight(r) /\ \A s \in Requests \ {r} : pc'[s] = pc[s]
    BY <1>3 DEF Step, Reject, LoadConfig, SkipCandidate, CandidateGranted, CandidateDenied,
       NoCandidateLeft, BuildSnapshot, SnapshotFails, StageSnapshot, StageIdempotency, Commit,
       CommitConflicts, DatabaseFails, AbortOrder, Raise, ReleasePair, ReleasesDone,
       RecordAssignment, Respond, Trying, Looping, StartLoop, Goto, InFlight, Finished, TypeOK
  <1>4. CASE \E r \in Requests : Step(r)
    BY <1>2, <1>3, <1>4 DEF InFlight
  <1>5. CASE Elapse \/ UNCHANGED vars
    BY <1>2, <1>5 DEF Elapse, vars, handlerVars, InFlight
  <1>6. CASE Restart
    BY <1>2, <1>6 DEF Restart, InFlight, Finished
  <1> QED  BY <1>1, <1>4, <1>5, <1>6 DEF Next

LEMMA OnceStep ==
    ASSUME TypeOK, PartnerOncePerRequest, [Next]_vars
    PROVE  PartnerOncePerRequest'
  <1>1. CASE UNCHANGED outcome
    BY <1>1 DEF PartnerOncePerRequest
  <1>2. ASSUME NEW r \in Requests, CandidateGranted(r)
        PROVE  PartnerOncePerRequest'
    <2> DEFINE p == Candidates(r)[cand[r]]
    <2>1. outcome' = [outcome EXCEPT ![r][at[r]] = p] /\ p \notin UsedPartners(r)
      BY <1>2 DEF CandidateGranted
    <2>2. p \in Partners /\ at[r] \in Slots /\ p # NoPartner
      BY <1>2, CandidateType, RequestAssumption DEF CandidateGranted
    <2>3. \A i \in Slots : outcome[r][i] # p
      BY <2>1, <2>2 DEF UsedPartners
    <2> HIDE DEF p
    <2>4. \A s \in Requests : s # r => outcome'[s] = outcome[s]
      BY <2>1 DEF TypeOK
    <2>5. \A i \in Slots : outcome'[r][i] = IF i = at[r] THEN p ELSE outcome[r][i]
      BY <2>1, <2>2 DEF TypeOK
    <2> QED  BY <2>3, <2>4, <2>5 DEF PartnerOncePerRequest
  <1> QED
    BY <1>1, <1>2 DEF Next, Step, Start, Reject, LoadConfig, SkipCandidate, CandidateDenied,
       NoCandidateLeft, BuildSnapshot, SnapshotFails, StageSnapshot, StageIdempotency, Commit,
       CommitConflicts, DatabaseFails, AbortOrder, Raise, ReleasePair, ReleasesDone,
       RecordAssignment, Respond, Elapse, Restart, vars, handlerVars

(* A request never has one partner at two positions, whatever its          *)
(* reservations run into: held by request_reserved_partner_ids alone, it    *)
(* does not depend on the store, the clock or the other requests.           *)
THEOREM PartnersOnce == Spec => []PartnerOncePerRequest
  <1>1. Init => PartnerOncePerRequest
    BY DEF Init, PartnerOncePerRequest
  <1>2. TypeOK /\ PartnerOncePerRequest /\ [Next]_vars => PartnerOncePerRequest'
    BY OnceStep
  <1> QED  BY <1>1, <1>2, RequestTypes, PTL DEF Spec

(* The two facts about what is counted on, which the steps preserve         *)
(* together.                                                                *)
Counted == CountedOnIsLeased /\ StillToGiveBack

LEMMA LeaseTypes ==
    ASSUME TypeOK, NEW r \in Requests, NEW i \in Slots
    PROVE  /\ term[r][i] \in Nat /\ Ttl \in Nat \ {0}
           /\ outcome[r][i] \in Partners \cup {NoPartner}
           /\ at[r] \in Nat /\ i \in Nat /\ i >= 1
  BY RequestAssumption DEF TypeOK, Slots

(* Steps that touch neither the store nor an outcome keep the facts when    *)
(* the request that moves stays where its reservations are to be returned.  *)
LEMMA ControlStep ==
    ASSUME Counted, UNCHANGED <<outcome, lease, left, term>>,
           \A r \in Requests : \A i \in Slots : term[r][i] > 0 =>
               /\ pc'[r] \in {"reserving", "staging", "completing", "committing",
                              "releasing", "aborting"}
               /\ pc'[r] \in {"releasing", "aborting"} => at'[r] <= i
    PROVE  Counted'
  <1>1. CountedOnIsLeased'
    BY DEF Counted, CountedOnIsLeased, OrderAt, Positions
  <1>2. StillToGiveBack'
    BY DEF Counted, StillToGiveBack
  <1> QED  BY <1>1, <1>2 DEF Counted

LEMMA MoveStep ==
    ASSUME LeaseInv, Counted, NEW r \in Requests,
           \/ Start(r) \/ Reject(r) \/ LoadConfig(r)
           \/ SkipCandidate(r) \/ CandidateDenied(r) \/ NoCandidateLeft(r)
           \/ BuildSnapshot(r) \/ StageSnapshot(r) \/ StageIdempotency(r)
           \/ Commit(r) \/ CommitConflicts(r) \/ DatabaseFails(r) \/ Raise(r)
           \/ ReleasesDone(r) \/ RecordAssignment(r) \/ Respond(r)
    PROVE  Counted'
  <1> DEFINE Before == {"reserving", "staging", "completing", "committing"}
             After == {"releasing", "aborting"}
  <1>0. UNCHANGED <<outcome, lease, left, term>>
    BY DEF Start, Reject, LoadConfig, SkipCandidate, CandidateDenied, NoCandidateLeft,
       BuildSnapshot, StageSnapshot, StageIdempotency, Commit, CommitConflicts, DatabaseFails,
       Raise, ReleasesDone, RecordAssignment, Respond, storeVars, Store!Deny, Store!leaseVars
  <1>1. /\ pc \in [Requests -> Phases] /\ at \in [Requests -> 1..(MaxOrders + 1)]
        /\ MaxOrders \in Nat
    BY RequestAssumption DEF LeaseInv, TypeOK
  <1>2. \A s \in Requests \ {r} : pc'[s] = pc[s] /\ at'[s] = at[s]
    BY <1>1 DEF Start, Reject, LoadConfig, SkipCandidate, CandidateDenied, NoCandidateLeft,
       BuildSnapshot, StageSnapshot, StageIdempotency, Commit, CommitConflicts, DatabaseFails,
       Raise, ReleasesDone, RecordAssignment, Respond, StartLoop, Goto, NextPosition
  <1>3. ASSUME NEW i \in Slots, term[r][i] > 0
        PROVE  pc'[r] \in Before \/ (pc'[r] \in After /\ at'[r] <= i)
    <2>1. /\ pc[r] \in Before \cup After /\ (pc[r] \in After => at[r] <= i)
          /\ i \in Positions(r)
      BY <1>3 DEF Counted, StillToGiveBack, CountedOnIsLeased
    <2>2. i <= Len(Plan[r]) /\ 1 <= i /\ i \in Nat /\ at[r] \in Nat /\ Len(Plan[r]) \in Nat
      BY <1>1, <2>1, PlanType DEF Positions
    <2>3. CASE Start(r) \/ Reject(r) \/ LoadConfig(r) \/ RecordAssignment(r) \/ Respond(r)
      BY <2>1, <2>3 DEF Start, Reject, LoadConfig, RecordAssignment, Respond, Looping
    <2>4. CASE SkipCandidate(r) \/ CandidateDenied(r) \/ NoCandidateLeft(r)
      BY <2>4 DEF SkipCandidate, CandidateDenied, NoCandidateLeft, Trying
    <2>5. CASE BuildSnapshot(r) \/ StageSnapshot(r) \/ StageIdempotency(r)
      BY <1>1, <2>5 DEF BuildSnapshot, StageSnapshot, StageIdempotency, Goto
    <2>6. CASE Commit(r) \/ CommitConflicts(r)
      BY <1>1, <2>2, <2>6 DEF Commit, CommitConflicts, StartLoop, Goto
    <2>7. CASE DatabaseFails(r)
      BY <1>1, <2>1, <2>2, <2>7 DEF DatabaseFails, StartLoop, Goto
    <2>8. CASE Raise(r) \/ ReleasesDone(r)
      BY <2>1, <2>2, <2>8 DEF Raise, ReleasesDone
    <2> QED  BY <2>3, <2>4, <2>5, <2>6, <2>7, <2>8
  <1>4. \A s \in Requests : \A i \in Slots : term[s][i] > 0 =>
           /\ pc'[s] \in Before \cup After
           /\ pc'[s] \in After => at'[s] <= i
    BY <1>2, <1>3 DEF Counted, StillToGiveBack
  <1> QED  BY <1>0, <1>4, ControlStep

LEMMA GrantedStep ==
    ASSUME LeaseInv, Counted, NEW r \in Requests, CandidateGranted(r)
    PROVE  Counted'
  <1> DEFINE p == Candidates(r)[cand[r]]
             a == at[r]
             o == OrderAt(r, a)
  <1>1. /\ a \in Positions(r) /\ a \in Slots /\ p \in Partners /\ o \in Orders
        /\ Plan[r][a].ranked # <<>> /\ pc[r] = "reserving"
    BY CandidateType DEF CandidateGranted, Trying, LeaseInv, Candidates
  <1>2. /\ lease[p] = NoOrder
        /\ lease' = [lease EXCEPT ![p] = o]
        /\ left' = [left EXCEPT ![p] = Ttl]
        /\ outcome' = [outcome EXCEPT ![r][a] = p]
        /\ term' = [term EXCEPT ![r][a] = Ttl]
        /\ pc' = pc
        /\ \A s \in Requests \ {r} : at'[s] = at[s]
    BY DEF CandidateGranted, Store!Grant, Store!Free, NextPosition, LeaseInv, TypeOK
  <1>3. /\ lease \in [Partners -> Orders \cup {NoOrder}] /\ left \in [Partners -> 0..Ttl]
        /\ term \in [Requests -> [Slots -> 0..Ttl]]
        /\ outcome \in [Requests -> [Slots -> Partners \cup {NoPartner}]]
        /\ NoOrder \notin Orders
    BY RequestAssumption DEF LeaseInv, TypeOK, Store!TypeOK
  <1> HIDE DEF p, a, o
  <1>4. ASSUME NEW s \in Requests, NEW i \in Slots, term'[s][i] > 0
        PROVE  /\ i \in Positions(s) /\ outcome'[s][i] \in Partners
               /\ lease'[outcome'[s][i]] = OrderAt(s, i)
               /\ left'[outcome'[s][i]] = term'[s][i]
               /\ pc'[s] \in {"reserving", "staging", "completing", "committing",
                              "releasing", "aborting"}
               /\ pc'[s] \in {"releasing", "aborting"} => at'[s] <= i
               /\ Plan[s][i].ranked # <<>>
    <2>1. CASE s = r /\ i = a
      <3>1. outcome'[s][i] = p /\ term'[s][i] = Ttl /\ lease'[p] = o /\ left'[p] = Ttl
        BY <1>1, <1>2, <1>3, <2>1
      <3> QED  BY <1>1, <1>2, <2>1, <3>1 DEF o
    <2>2. CASE ~(s = r /\ i = a)
      <3>1. outcome'[s][i] = outcome[s][i] /\ term'[s][i] = term[s][i]
        BY <1>1, <1>2, <1>3, <2>2
      <3>2. /\ i \in Positions(s) /\ outcome[s][i] \in Partners
            /\ lease[outcome[s][i]] = OrderAt(s, i) /\ left[outcome[s][i]] = term[s][i]
            /\ pc[s] \in {"reserving", "staging", "completing", "committing",
                          "releasing", "aborting"}
            /\ pc[s] \in {"releasing", "aborting"} => at[s] <= i
            /\ Plan[s][i].ranked # <<>>
        BY <1>4, <3>1 DEF Counted, CountedOnIsLeased, StillToGiveBack
      <3>3. outcome[s][i] # p
        BY <1>2, <1>3, <3>2, PlanType
      <3> QED  BY <1>1, <1>2, <1>3, <3>1, <3>2, <3>3
    <2> QED  BY <2>1, <2>2
  <1>5. CountedOnIsLeased'
    BY <1>4 DEF CountedOnIsLeased, OrderAt, Positions
  <1>6. StillToGiveBack'
    BY <1>4 DEF StillToGiveBack
  <1> QED  BY <1>5, <1>6 DEF Counted

(* Freeing the partners of S is harmless when the terms that count on one   *)
(* of them end with it; a loop may then go past the positions it ended.     *)
LEMMA ClearStep ==
    ASSUME Counted, TypeOK, NEW S, Store!Clear(S), UNCHANGED <<pc, outcome>>,
           \A r \in Requests : \A i \in Slots : term'[r][i] > 0 =>
               /\ term'[r][i] = term[r][i]
               /\ outcome[r][i] \notin S
               /\ pc[r] \in {"releasing", "aborting"} => at'[r] <= i
    PROVE  Counted'
  <1>1. CountedOnIsLeased'
    BY DEF Counted, CountedOnIsLeased, Store!Clear, OrderAt, Positions
  <1>2. StillToGiveBack'
    BY DEF Counted, StillToGiveBack
  <1> QED  BY <1>1, <1>2 DEF Counted

LEMMA AbortStep ==
    ASSUME LeaseInv, Counted, NEW r \in Requests, AbortOrder(r)
    PROVE  Counted'
  <1> DEFINE o == OrderAt(r, at[r])
             S == {q \in Partners : lease[q] = o}
  <1>0. /\ term \in [Requests -> [Slots -> 0..Ttl]] /\ at \in [Requests -> 1..(MaxOrders + 1)]
        /\ MaxOrders \in Nat /\ TypeOK
    BY RequestAssumption DEF LeaseInv, TypeOK
  <1>1. /\ pc[r] = "aborting" /\ at[r] \in Positions(r) /\ at[r] \in Slots
        /\ at' = [at EXCEPT ![r] = @ + 1] /\ UNCHANGED <<pc, outcome>>
        /\ InFlight(r)
    BY <1>0, PlanType DEF AbortOrder, Looping, Positions, InFlight, Finished
  <1>2. \A s \in Requests : \A i \in Slots :
           term[s][i] > 0 /\ pc[s] \in {"releasing", "aborting"} => at[s] <= i
    BY DEF Counted, StillToGiveBack
  <1>3. CASE Candidates(r) = <<>>
    <2>1. UNCHANGED <<lease, left, term>>
      BY <1>3 DEF AbortOrder, storeVars
    <2>2. ~(term[r][at[r]] > 0)
      BY <1>1, <1>3 DEF Counted, StillToGiveBack, Candidates
    <2>3. \A s \in Requests : \A i \in Slots : term[s][i] > 0 =>
             /\ pc'[s] \in {"reserving", "staging", "completing", "committing",
                            "releasing", "aborting"}
             /\ pc'[s] \in {"releasing", "aborting"} => at'[s] <= i
      BY <1>0, <1>1, <1>2, <2>2 DEF Counted, StillToGiveBack, Slots
    <2> QED  BY <1>1, <2>1, <2>3, ControlStep
  <1>4. CASE Candidates(r) # <<>>
    <2>1. Store!Clear(S)
      BY <1>4 DEF AbortOrder, Store!ReleaseAllForOrder
    <2>2. term' = [term EXCEPT ![r] =
                      [i \in Slots |-> IF i \in Positions(r) /\ OrderAt(r, i) = o THEN 0 ELSE @[i]]]
      BY <1>4 DEF AbortOrder
    <2>3. ASSUME NEW s \in Requests, NEW i \in Slots, term'[s][i] > 0
          PROVE  /\ term'[s][i] = term[s][i]
                 /\ outcome[s][i] \notin S
                 /\ pc[s] \in {"releasing", "aborting"} => at'[s] <= i
      <3>1. term'[s][i] = term[s][i] /\ (s = r => ~(i \in Positions(r) /\ OrderAt(r, i) = o))
        <4>1. CASE s # r
          BY <1>0, <2>2, <4>1
        <4>2. CASE s = r
          <5>1. term'[r][i] = IF i \in Positions(r) /\ OrderAt(r, i) = o THEN 0 ELSE term[r][i]
            BY <1>0, <2>2
          <5> QED  BY <2>3, <4>2, <5>1
        <4> QED  BY <4>1, <4>2
      <3>2. i \in Positions(s) /\ lease[outcome[s][i]] = OrderAt(s, i)
        BY <2>3, <3>1 DEF Counted, CountedOnIsLeased
      <3>3. OrderAt(s, i) # o
        BY <1>1, <2>3, <3>1, <3>2, OnePosition
      <3>4. pc[s] \in {"releasing", "aborting"} => at'[s] <= i
        <4>1. CASE s # r
          BY <1>0, <1>1, <1>2, <2>3, <3>1, <4>1
        <4>2. CASE s = r
          <5>1. at[r] <= i /\ at[r] # i
            BY <1>1, <1>2, <2>3, <3>1, <3>3, <4>2
          <5> QED  BY <1>0, <1>1, <4>2, <5>1 DEF Slots
        <4> QED  BY <4>1, <4>2
      <3> QED  BY <3>1, <3>2, <3>3, <3>4
    <2> HIDE DEF S
    <2> QED  BY <1>0, <1>1, <2>1, <2>3, ClearStep
  <1> QED  BY <1>3, <1>4

LEMMA ReleaseStep ==
    ASSUME LeaseInv, Counted, NEW r \in Requests, ReleasePair(r)
    PROVE  Counted'
  <1> DEFINE a == at[r]
             p == outcome[r][a]
             S == {q \in {p} : lease[q] = OrderAt(r, a)}
  <1>0. /\ term \in [Requests -> [Slots -> 0..Ttl]] /\ at \in [Requests -> 1..(MaxOrders + 1)]
        /\ MaxOrders \in Nat /\ TypeOK /\ NoPartner \notin Partners
    BY RequestAssumption DEF LeaseInv, TypeOK
  <1>1. /\ pc[r] = "releasing" /\ a \in Positions(r) /\ a \in Slots
        /\ at' = [at EXCEPT ![r] = @ + 1] /\ UNCHANGED <<pc, outcome>>
        /\ InFlight(r)
    BY <1>0, PlanType DEF ReleasePair, Looping, Positions, InFlight, Finished
  <1>2. \A s \in Requests : \A i \in Slots :
           term[s][i] > 0 /\ pc[s] \in {"releasing", "aborting"} => at[s] <= i
    BY DEF Counted, StillToGiveBack
  <1>3. CASE p = NoPartner
    <2>1. UNCHANGED <<lease, left, term>>
      BY <1>3 DEF ReleasePair, storeVars
    <2>2. ~(term[r][a] > 0)
      BY <1>0, <1>1, <1>3 DEF Counted, CountedOnIsLeased
    <2>3. \A s \in Requests : \A i \in Slots : term[s][i] > 0 =>
             /\ pc'[s] \in {"reserving", "staging", "completing", "committing",
                            "releasing", "aborting"}
             /\ pc'[s] \in {"releasing", "aborting"} => at'[s] <= i
      BY <1>0, <1>1, <1>2, <2>2 DEF Counted, StillToGiveBack, Slots
    <2> QED  BY <1>1, <2>1, <2>3, ControlStep
  <1>4. CASE p # NoPartner
    <2>1. Store!Clear(S) /\ term' = [term EXCEPT ![r][a] = 0]
      BY <1>4 DEF ReleasePair, Store!Release
    <2>2. ASSUME NEW s \in Requests, NEW i \in Slots, term'[s][i] > 0
          PROVE  /\ term'[s][i] = term[s][i]
                 /\ outcome[s][i] \notin S
                 /\ pc[s] \in {"releasing", "aborting"} => at'[s] <= i
      <3>1. term'[s][i] = term[s][i] /\ ~(s = r /\ i = a)
        BY <1>0, <1>1, <2>1, <2>2
      <3>2. i \in Positions(s) /\ lease[outcome[s][i]] = OrderAt(s, i)
        BY <2>2, <3>1 DEF Counted, CountedOnIsLeased
      <3>3. outcome[s][i] \notin S
        <4>1. SUFFICES ASSUME outcome[s][i] = p, OrderAt(s, i) = OrderAt(r, a)
                       PROVE  FALSE
          BY <3>2
        <4>2. s = r
          BY <1>1, <2>2, <3>1, <4>1, OnePosition
        <4> QED  BY <1>1, <1>4, <3>1, <4>1, <4>2 DEF LeaseInv, PartnerOncePerRequest
      <3>4. pc[s] \in {"releasing", "aborting"} => at'[s] <= i
        <4>1. CASE s # r
          BY <1>0, <1>1, <1>2, <2>2, <3>1, <4>1
        <4>2. CASE s = r
          <5>1. at[r] <= i /\ at[r] # i
            BY <1>1, <1>2, <2>2, <3>1, <4>2
          <5> QED  BY <1>0, <1>1, <4>2, <5>1 DEF Slots
        <4> QED  BY <4>1, <4>2
      <3> QED  BY <3>1, <3>3, <3>4
    <2> HIDE DEF S, a, p
    <2> QED  BY <1>0, <1>1, <2>1, <2>2, ClearStep
  <1> QED  BY <1>3, <1>4

(* A tick takes one from the lease and from the term that counts on it. *)
LEMMA ElapseStep ==
    ASSUME LeaseInv, Counted, Elapse
    PROVE  Counted'
  <1>1. UNCHANGED <<pc, at, outcome>>
    BY DEF Elapse, handlerVars
  <1>2. ASSUME NEW r \in Requests, NEW i \in Slots, term'[r][i] > 0
        PROVE  /\ term[r][i] > 0 /\ term[r][i] \in Nat
               /\ term[r][i] > 1 /\ term'[r][i] = term[r][i] - 1
    <2>1. term'[r][i] = IF term[r][i] > 0 THEN term[r][i] - 1 ELSE 0
      BY DEF Elapse
    <2>2. term[r][i] \in Nat
      BY LeaseTypes DEF LeaseInv
    <2> QED  BY <1>2, <2>1, <2>2
  <1>3. CountedOnIsLeased'
    BY <1>1, <1>2 DEF Counted, CountedOnIsLeased, Elapse, Store!Elapse, OrderAt, Positions
  <1>4. StillToGiveBack'
    BY <1>1, <1>2 DEF Counted, StillToGiveBack
  <1> QED  BY <1>3, <1>4 DEF Counted

LEMMA CountedStep ==
    ASSUME LeaseInv, SerialClients, [Next]_vars
    PROVE  Counted'
  <1>0. Counted
    BY DEF LeaseInv, Counted
  <1>1. ASSUME NEW r \in Requests, SnapshotFails(r)
        PROVE  Counted'
    <2>1. \A i \in Slots : term'[r][i] = 0
      BY <1>1 DEF SnapshotFails, LeaseInv, TypeOK
    <2>2. \A s \in Requests \ {r} : term'[s] = term[s] /\ pc'[s] = pc[s]
      BY <1>1 DEF SnapshotFails, Goto, LeaseInv, TypeOK
    <2>3. UNCHANGED <<at, outcome, lease, left>>
      BY <1>1 DEF SnapshotFails
    <2>4. CountedOnIsLeased'
      BY <1>0, <2>1, <2>2, <2>3 DEF Counted, CountedOnIsLeased, OrderAt, Positions
    <2>5. StillToGiveBack'
      BY <1>0, <2>1, <2>2, <2>3 DEF Counted, StillToGiveBack
    <2> QED  BY <2>4, <2>5 DEF Counted
  <1>2. CASE Restart
    <2>1. \A r \in Requests : \A i \in Slots : term'[r][i] = 0
      BY <1>2 DEF Restart
    <2> QED  BY <2>1 DEF Counted, CountedOnIsLeased, StillToGiveBack
  <1>3. CASE UNCHANGED vars
    <2>1. UNCHANGED <<pc, at, outcome, lease, left, term>>
      BY <1>3 DEF vars, handlerVars, storeVars
    <2> QED  BY <1>0, <2>1 DEF Counted, CountedOnIsLeased, StillToGiveBack, OrderAt, Positions
  <1> QED
    BY <1>0, <1>1, <1>2, <1>3, MoveStep, GrantedStep, AbortStep, ReleaseStep, ElapseStep
    DEF Next, Step

LEMMA LeaseInvHolds == SerialClients => (Spec => []LeaseInv)
  <1> SUFFICES ASSUME SerialClients PROVE Spec => []LeaseInv
    OBVIOUS
  <1>1. Init => LeaseInv
    <2>1. Init => FlightsApart /\ PartnerOncePerRequest /\ CountedOnIsLeased /\ StillToGiveBack
      BY DEF Init, FlightsApart, InFlight, PartnerOncePerRequest, CountedOnIsLeased, StillToGiveBack
    <2> QED  BY <2>1, TypeInit DEF LeaseInv
  <1>2. LeaseInv /\ [Next]_vars => LeaseInv'
    BY TypeStep, FlightsStep, OnceStep, CountedStep DEF LeaseInv, Counted
  <1> QED  BY <1>1, <1>2, PTL DEF Spec

(* With clients that do not use a key or an order twice at a time, what a   *)
(* request counts on stays reserved in the store, for the right order and   *)
(* with the right time left, until it gives it back.                        *)
THEOREM ReservationsHonoured == SerialClients => (Spec => []CountedOnIsLeased)
  <1>1. LeaseInv => CountedOnIsLeased
    BY DEF LeaseInv
  <1> QED  BY <1>1, LeaseInvHolds, PTL

(* With such clients a partner one request counts on is never given to      *)
(* another: no release, abort, retry, expiry or restart of any other        *)
(* request takes it away.                                                   *)
THEOREM PartnersExclusive == SerialClients => (Spec => []Exclusion)
  BY LeaseInvHolds, Excludes, PTL

-----------------------------------------------------------------------------
(* How the tables, the reservations and the tracker relate.                *)


(* A step of one request leaves the variables of the others alone. *)
LEMMA OthersStay ==
    ASSUME TypeOK, NEW r \in Requests, Start(r) \/ Step(r), NEW s \in Requests \ {r}
    PROVE  /\ pc'[s] = pc[s] /\ at'[s] = at[s] /\ outcome'[s] = outcome[s]
           /\ inserts'[s] = inserts[s] /\ response'[s] = response[s]
  <1> USE DEF Goto, StartLoop, NextPosition
  <1>0. /\ pc \in [Requests -> Phases] /\ at \in [Requests -> 1..(MaxOrders + 1)]
        /\ outcome \in [Requests -> [Slots -> Partners \cup {NoPartner}]]
        /\ inserts \in [Requests -> SUBSET InsertedTables]
        /\ response \in [Requests -> Requests \cup {NoRequest}]
    BY DEF TypeOK
  <1>1. CASE Start(r) \/ Reject(r) \/ LoadConfig(r)
    BY <1>0, <1>1 DEF Start, Reject, LoadConfig
  <1>2. CASE SkipCandidate(r) \/ CandidateGranted(r) \/ CandidateDenied(r) \/ NoCandidateLeft(r)
    BY <1>0, <1>2 DEF SkipCandidate, CandidateGranted, CandidateDenied, NoCandidateLeft
  <1>3. CASE BuildSnapshot(r) \/ SnapshotFails(r) \/ StageSnapshot(r) \/ StageIdempotency(r)
    BY <1>0, <1>3 DEF BuildSnapshot, SnapshotFails, StageSnapshot, StageIdempotency
  <1>4. CASE Commit(r) \/ CommitConflicts(r) \/ DatabaseFails(r)
    BY <1>0, <1>4 DEF Commit, CommitConflicts, DatabaseFails
  <1>5. CASE AbortOrder(r) \/ Raise(r)
    BY <1>0, <1>5 DEF AbortOrder, Raise
  <1>6. CASE ReleasePair(r) \/ ReleasesDone(r) \/ RecordAssignment(r) \/ Respond(r)
    BY <1>0, <1>6 DEF ReleasePair, ReleasesDone, RecordAssignment, Respond
  <1> QED  BY <1>1, <1>2, <1>3, <1>4, <1>5, <1>6 DEF Step

(* Only a commit writes to the tables. *)
LEMMA OnlyCommitsWrite ==
    ASSUME NEW r \in Requests, Start(r) \/ Step(r), ~Commit(r)
    PROVE  UNCHANGED dbVars
  BY DEF Step, Start, Reject, LoadConfig, SkipCandidate, CandidateGranted, CandidateDenied,
     NoCandidateLeft, BuildSnapshot, SnapshotFails, StageSnapshot, StageIdempotency,
     CommitConflicts, DatabaseFails, AbortOrder, Raise, ReleasePair, ReleasesDone,
     RecordAssignment, Respond, dbVars

-----------------------------------------------------------------------------
(* What a replay needs *)

LEMMA PlannedStep ==
    ASSUME TypeOK, NEW r \in Requests, RowsPlanned(r), Start(r) \/ Step(r)
    PROVE  RowsPlanned(r)'
  <1> USE DEF RowsPlanned
  <1>0. /\ pc \in [Requests -> Phases] /\ inserts \in [Requests -> SUBSET InsertedTables]
    BY DEF TypeOK
  <1>1. CASE Commit(r)
    <2>1. pc'[r] = "releasing"
      BY <1>0, <1>1 DEF Commit, StartLoop, Goto
    <2> QED  BY <2>1
  <1>2. CASE ~Commit(r)
    <2>1. UNCHANGED <<configs, snapshots>>
      BY <1>2, OnlyCommitsWrite DEF dbVars
    <2>2. CASE LoadConfig(r)
      <3>1. pc'[r] = "reserving" /\ inserts'[r] = {"config" : c \in {ConfigOf[r]} \ configs}
        BY <1>0, <2>2 DEF LoadConfig, StartLoop, Goto
      <3> QED  BY <2>1, <3>1
    <2>3. CASE StageSnapshot(r)
      <3>1. /\ pc'[r] = "completing" /\ pc[r] = "staging"
            /\ inserts'[r] = inserts[r] \cup {"snapshot" : h \in {InputOf[r]} \ snapshots}
        BY <1>0, <2>3 DEF StageSnapshot, Goto
      <3> QED  BY <2>1, <3>1
    <2>4. CASE StageIdempotency(r)
      <3>1. /\ pc'[r] = "committing" /\ pc[r] = "completing"
            /\ inserts[r] \subseteq inserts'[r]
        BY <1>0, <2>4 DEF StageIdempotency, Goto
      <3> QED  BY <2>1, <3>1
    <2>5. CASE \/ SkipCandidate(r) \/ CandidateGranted(r) \/ CandidateDenied(r)
               \/ NoCandidateLeft(r) \/ BuildSnapshot(r)
      <3>1. /\ inserts'[r] = inserts[r] /\ pc[r] = "reserving"
            /\ pc'[r] \in {"reserving", "staging"}
        BY <1>0, <2>5 DEF SkipCandidate, CandidateGranted, CandidateDenied, NoCandidateLeft,
           BuildSnapshot, Trying, Goto
      <3> QED  BY <2>1, <3>1
    <2>6. CASE \/ Start(r) \/ Reject(r) \/ SnapshotFails(r) \/ CommitConflicts(r)
               \/ DatabaseFails(r) \/ AbortOrder(r) \/ Raise(r) \/ ReleasePair(r)
               \/ ReleasesDone(r) \/ RecordAssignment(r) \/ Respond(r)
      <3>1. pc'[r] \in Finished \cup {"loading", "releasing", "recording", "aborting"}
        BY <1>0, <2>6 DEF Start, Reject, SnapshotFails, CommitConflicts, DatabaseFails,
           AbortOrder, Raise, ReleasePair, ReleasesDone, RecordAssignment, Respond, Looping,
           StartLoop, Goto, Finished
      <3> QED  BY <3>1 DEF Finished
    <2> QED  BY <1>2, <2>2, <2>3, <2>4, <2>5, <2>6 DEF Step
  <1> QED  BY <1>1, <1>2

LEMMA TablesStep == TablesInv /\ [Next]_vars => TablesInv'
  <1> SUFFICES ASSUME TablesInv, [Next]_vars PROVE TablesInv'
    OBVIOUS
  <1>0. TypeOK /\ TypeOK'
    BY TypeStep DEF TablesInv
  <1>1. ASSUME NEW r \in Requests, Start(r) \/ Step(r) PROVE TablesInv'
    <2>1. configs \subseteq configs' /\ snapshots \subseteq snapshots'
      <3>1. CASE Commit(r)
        BY <3>1 DEF Commit
      <3>2. CASE ~Commit(r)
        BY <1>1, <3>2, OnlyCommitsWrite DEF dbVars
      <3> QED  BY <3>1, <3>2
    <2>2. ASSUME NEW s \in Requests PROVE RowsPlanned(s)'
      <3>1. CASE s = r
        BY <1>0, <1>1, <3>1, PlannedStep DEF TablesInv
      <3>2. CASE s # r
        <4>1. pc'[s] = pc[s] /\ inserts'[s] = inserts[s]
          BY <1>0, <1>1, <3>2, OthersStay
        <4> QED  BY <2>1, <4>1 DEF TablesInv, RowsPlanned
      <3> QED  BY <3>1, <3>2
    <2>3. ReplayInputsCommitted'
      <3>1. CASE Commit(r)
        <4>1. InputOf[r] \in snapshots' /\ ConfigOf[r] \in configs'
          BY <3>1 DEF Commit, TablesInv, RowsPlanned
        <4>2. manifests' = manifests \cup {r}
          BY <3>1 DEF Commit
        <4> QED  BY <2>1, <4>1, <4>2 DEF TablesInv, ReplayInputsCommitted
      <3>2. CASE ~Commit(r)
        BY <1>1, <3>2, OnlyCommitsWrite DEF dbVars, TablesInv, ReplayInputsCommitted
      <3> QED  BY <3>1, <3>2
    <2> QED  BY <1>0, <2>2, <2>3 DEF TablesInv
  <1>2. CASE Elapse \/ Restart \/ UNCHANGED vars
    <2>1. UNCHANGED <<inserts, manifests, configs, snapshots>>
      BY <1>2 DEF Elapse, Restart, vars, handlerVars, dbVars
    <2>2. \A r \in Requests : pc'[r] \in {pc[r], "lost"}
      BY <1>2 DEF Elapse, Restart, vars, handlerVars
    <2>3. \A r \in Requests : RowsPlanned(r)'
      BY <2>1, <2>2 DEF TablesInv, RowsPlanned
    <2> QED  BY <1>0, <2>1, <2>3 DEF TablesInv, ReplayInputsCommitted
  <1> QED  BY <1>1, <1>2 DEF Next

(* Whatever transactions conflict, fail or are cut off by a restart, a       *)
(* committed manifest finds the input and the configuration it was decided  *)
(* with: verification, replay and simulation never miss a row.              *)
THEOREM ManifestsReplayable == Spec => []ReplayInputsCommitted
  <1>1. Init => TablesInv
    BY TypeInit DEF Init, TablesInv, ReplayInputsCommitted, RowsPlanned
  <1>2. TablesInv => ReplayInputsCommitted
    BY DEF TablesInv
  <1> QED  BY <1>1, <1>2, TablesStep, PTL DEF Spec

-----------------------------------------------------------------------------
(* What a key stands for *)

(* A step of r that does not commit. *)
LEMMA KeyTurnStep ==
    ASSUME KeyInv, NEW r \in Requests, Start(r) \/ Step(r), ~Commit(r)
    PROVE  /\ KeyInTurn(r)'
           /\ pc'[r] = "returned" =>
                 response'[r] \in manifests' /\ idempotency'[KeyOf[r]] = response'[r]
  <1> USE DEF KeyInTurn
  <1>0. /\ pc \in [Requests -> Phases] /\ response \in [Requests -> Requests \cup {NoRequest}]
        /\ KeyOf[r] \in Keys /\ KeyInTurn(r)
    BY RequestAssumption DEF KeyInv, TypeOK
  <1>1. UNCHANGED <<manifests, idempotency>>
    BY OnlyCommitsWrite DEF dbVars
  <1>2. CASE Start(r)
    <2>1. CASE idempotency[KeyOf[r]] # NoRequest
      BY <1>0, <1>1, <1>2, <2>1 DEF Start, Goto, KeyInv
    <2>2. CASE idempotency[KeyOf[r]] = NoRequest
      BY <1>0, <1>1, <1>2, <2>2 DEF Start, Goto
    <2> QED  BY <2>1, <2>2
  <1>3. CASE Respond(r)
    <2>1. pc[r] = "recording" /\ pc'[r] = "returned" /\ response'[r] = r
      BY <1>0, <1>3 DEF Respond, Goto
    <2>2. r \in manifests /\ idempotency[KeyOf[r]] = r
      BY <1>0, <2>1 DEF KeyInv
    <2> QED  BY <1>1, <2>1, <2>2
  <1>4. CASE \/ LoadConfig(r) \/ SkipCandidate(r) \/ CandidateGranted(r) \/ CandidateDenied(r)
             \/ NoCandidateLeft(r) \/ BuildSnapshot(r) \/ StageSnapshot(r) \/ StageIdempotency(r)
    <2>1. /\ pc[r] \in {"loading", "reserving", "staging", "completing"}
          /\ pc'[r] \in {"reserving", "staging", "completing", "committing"}
      BY <1>0, <1>4 DEF LoadConfig, SkipCandidate, CandidateGranted, CandidateDenied,
         NoCandidateLeft, BuildSnapshot, StageSnapshot, StageIdempotency, Trying, StartLoop, Goto
    <2> QED  BY <1>0, <1>1, <2>1
  <1>5. CASE ReleasePair(r) \/ ReleasesDone(r) \/ RecordAssignment(r)
    <2>1. pc[r] \in {"releasing", "recording"} /\ pc'[r] \in {"releasing", "recording"}
      BY <1>0, <1>5 DEF ReleasePair, ReleasesDone, RecordAssignment, Looping, StartLoop, Goto
    <2> QED  BY <1>0, <1>1, <2>1
  <1>6. CASE \/ Reject(r) \/ SnapshotFails(r) \/ CommitConflicts(r) \/ DatabaseFails(r)
             \/ AbortOrder(r) \/ Raise(r)
    <2>1. pc'[r] \in {"rejected", "failed", "aborting"}
      BY <1>0, <1>6 DEF Reject, SnapshotFails, CommitConflicts, DatabaseFails, AbortOrder, Raise,
         Looping, StartLoop, Goto
    <2> QED  BY <2>1
  <1> QED  BY <1>2, <1>3, <1>4, <1>5, <1>6 DEF Step

(* A commit takes a key that stands for nothing, and nobody else in flight  *)
(* has it.                                                                  *)
LEMMA KeyCommitStep ==
    ASSUME KeyInv, NEW r \in Requests, Commit(r)
    PROVE  /\ AnswerIsDurable'
           /\ \A q \in manifests' : idempotency'[KeyOf[q]] = q
           /\ \A k \in Keys : idempotency'[k] # NoRequest =>
                 idempotency'[k] \in manifests' /\ KeyOf[idempotency'[k]] = k
           /\ \A s \in Requests : KeyInTurn(s)'
  <1>0. /\ pc \in [Requests -> Phases] /\ idempotency \in [Keys -> Requests \cup {NoRequest}]
        /\ response \in [Requests -> Requests \cup {NoRequest}]
        /\ manifests \subseteq Requests /\ KeyOf \in [Requests -> Keys]
        /\ NoRequest \notin Requests
    BY RequestAssumption DEF KeyInv, TypeOK
  <1>1. /\ pc[r] = "committing" /\ pc' = [pc EXCEPT ![r] = "releasing"]
        /\ manifests' = manifests \cup {r}
        /\ idempotency' = [idempotency EXCEPT ![KeyOf[r]] = r]
        /\ response' = response
    BY DEF Commit, StartLoop, Goto
  <1>2. idempotency[KeyOf[r]] = NoRequest
    BY <1>1 DEF KeyInv, KeyInTurn
  <1>3. \A q \in manifests : KeyOf[q] # KeyOf[r]
    BY <1>0, <1>2 DEF KeyInv
  <1>4. \A q \in manifests' : idempotency'[KeyOf[q]] = q
    BY <1>0, <1>1, <1>3 DEF KeyInv
  <1>5. \A k \in Keys : idempotency'[k] # NoRequest =>
           idempotency'[k] \in manifests' /\ KeyOf[idempotency'[k]] = k
    BY <1>0, <1>1 DEF KeyInv
  <1>6. ASSUME NEW s \in Requests, pc'[s] = "returned"
        PROVE  response'[s] \in manifests' /\ idempotency'[KeyOf[s]] = response'[s]
    <2>1. pc[s] = "returned" /\ s # r
      BY <1>0, <1>1, <1>6
    <2>2. response[s] \in manifests /\ idempotency[KeyOf[s]] = response[s]
      BY <2>1 DEF KeyInv, AnswerIsDurable
    <2>3. KeyOf[s] # KeyOf[r]
      BY <1>0, <1>2, <2>2
    <2> QED  BY <1>0, <1>1, <2>2, <2>3
  <1>7. ASSUME NEW s \in Requests PROVE KeyInTurn(s)'
    <2>1. CASE s = r
      BY <1>0, <1>1, <2>1 DEF KeyInTurn
    <2>2. CASE s # r
      <3>1. pc'[s] = pc[s]
        BY <1>0, <1>1, <2>2
      <3>2. ASSUME pc[s] \in {"loading", "reserving", "staging", "completing", "committing"}
            PROVE  idempotency'[KeyOf[s]] = NoRequest
        <4>1. InFlight(s) /\ InFlight(r)
          BY <1>1, <3>2 DEF InFlight, Finished
        <4>2. KeyOf[s] # KeyOf[r]
          BY <2>2, <4>1 DEF KeyInv, FlightsApart, Overlaps
        <4>3. idempotency[KeyOf[s]] = NoRequest
          BY <3>2 DEF KeyInv, KeyInTurn
        <4> QED  BY <1>0, <1>1, <4>2, <4>3
      <3> QED  BY <1>1, <3>1, <3>2 DEF KeyInv, KeyInTurn
    <2> QED  BY <2>1, <2>2
  <1> QED  BY <1>4, <1>5, <1>6, <1>7 DEF AnswerIsDurable

LEMMA KeyStep == SerialClients /\ KeyInv /\ [Next]_vars => KeyInv'
  <1> SUFFICES ASSUME SerialClients, KeyInv, [Next]_vars PROVE KeyInv'
    OBVIOUS
  <1>0. TypeOK /\ TypeOK' /\ FlightsApart'
    BY TypeStep, FlightsStep DEF KeyInv
  <1>1. ASSUME NEW r \in Requests, Commit(r) PROVE KeyInv'
    BY <1>0, <1>1, KeyCommitStep DEF KeyInv
  <1>2. ASSUME NEW r \in Requests, Start(r) \/ Step(r), ~Commit(r) PROVE KeyInv'
    <2>1. UNCHANGED <<manifests, idempotency>>
      BY <1>2, OnlyCommitsWrite DEF dbVars
    <2>2. ASSUME NEW s \in Requests \ {r}
          PROVE  /\ KeyInTurn(s)'
                 /\ pc'[s] = "returned" =>
                       response'[s] \in manifests' /\ idempotency'[KeyOf[s]] = response'[s]
      <3>1. pc'[s] = pc[s] /\ response'[s] = response[s]
        BY <1>0, <1>2, OthersStay
      <3> QED  BY <2>1, <3>1 DEF KeyInv, KeyInTurn, AnswerIsDurable
    <2>3. AnswerIsDurable' /\ \A s \in Requests : KeyInTurn(s)'
      BY <1>2, <2>2, KeyTurnStep DEF AnswerIsDurable
    <2> QED  BY <1>0, <2>1, <2>3 DEF KeyInv
  <1>3. CASE Elapse \/ Restart \/ UNCHANGED vars
    <2>1. UNCHANGED <<response, manifests, idempotency>>
      BY <1>3 DEF Elapse, Restart, vars, handlerVars, dbVars
    <2>2. \A r \in Requests : pc'[r] \in {pc[r], "lost"}
      BY <1>3 DEF Elapse, Restart, vars, handlerVars
    <2>3. AnswerIsDurable' /\ \A r \in Requests : KeyInTurn(r)'
      BY <2>1, <2>2 DEF KeyInv, KeyInTurn, AnswerIsDurable
    <2> QED  BY <1>0, <2>1, <2>3 DEF KeyInv
  <1> QED  BY <1>1, <1>2, <1>3 DEF Next, Step

LEMMA KeyInvHolds == SerialClients => (Spec => []KeyInv)
  <1> SUFFICES ASSUME SerialClients PROVE Spec => []KeyInv
    OBVIOUS
  <1>1. Init => KeyInv
    BY TypeInit DEF Init, KeyInv, KeyInTurn, FlightsApart, InFlight, AnswerIsDurable
  <1> QED  BY <1>1, KeyStep, PTL DEF Spec

(* With clients that wait before they retry, a key never leads to two       *)
(* manifests, however attempts fail, conflict or are cut off by restarts.   *)
THEOREM OneDecisionPerKey == SerialClients => (Spec => []KeyCommittedOnce)
  <1>1. KeyInv => KeyCommittedOnce
    BY DEF KeyInv, KeyCommittedOnce
  <1> QED  BY <1>1, KeyInvHolds, PTL

(* With such clients the answer a client got is committed and stays what    *)
(* the key stands for.                                                      *)
THEOREM AnswersLast == SerialClients => (Spec => []AnswerIsDurable)
  <1>1. KeyInv => AnswerIsDurable
    BY DEF KeyInv
  <1> QED  BY <1>1, KeyInvHolds, PTL

-----------------------------------------------------------------------------
(* Whose the reservations are *)

LEMMA AssignedStep == TypeOK /\ AssignedInTurn /\ [Next]_vars => AssignedInTurn'
  <1> SUFFICES ASSUME TypeOK, AssignedInTurn, [Next]_vars PROVE AssignedInTurn'
    OBVIOUS
  <1> DEFINE InTurn(r, i) == outcome[r][i] # NoPartner =>
                                /\ i \in Positions(r)
                                /\ Plan[r][i].ranked # <<>>
                                /\ pc[r] \notin {"new", "loading"}
                                /\ pc[r] = "reserving" => i < at[r]
  <1>0. /\ pc \in [Requests -> Phases] /\ at \in [Requests -> 1..(MaxOrders + 1)]
        /\ outcome \in [Requests -> [Slots -> Partners \cup {NoPartner}]]
        /\ MaxOrders \in Nat /\ Slots = 1..MaxOrders
    BY RequestAssumption DEF TypeOK, Slots
  <1>1. ASSUME NEW r \in Requests, Start(r) \/ Step(r), NEW i \in Slots PROVE InTurn(r, i)'
    <2>1. InTurn(r, i)
      BY DEF AssignedInTurn
    <2>2. CASE CandidateGranted(r)
      <3> DEFINE p == Candidates(r)[cand[r]]
      <3>1. /\ at[r] \in Positions(r) /\ at[r] \in Slots /\ Plan[r][at[r]].ranked # <<>>
            /\ pc[r] = "reserving"
        BY <2>2, CandidateType DEF CandidateGranted, Trying, Candidates
      <3>2. /\ pc' = pc /\ at'[r] = at[r] + 1
            /\ outcome' = [outcome EXCEPT ![r][at[r]] = p]
        BY <1>0, <2>2 DEF CandidateGranted, NextPosition
      <3> HIDE DEF p
      <3>3. outcome'[r][i] = IF i = at[r] THEN p ELSE outcome[r][i]
        BY <1>0, <3>1, <3>2
      <3>4. CASE i = at[r]
        BY <1>0, <3>1, <3>2, <3>4 DEF Positions
      <3>5. CASE i # at[r]
        BY <1>0, <2>1, <3>1, <3>2, <3>3, <3>5 DEF Positions
      <3> QED  BY <3>4, <3>5
    <2>3. CASE SkipCandidate(r) \/ CandidateDenied(r) \/ NoCandidateLeft(r)
      <3>1. /\ pc' = pc /\ outcome' = outcome /\ at'[r] \in {at[r], at[r] + 1}
        BY <1>0, <2>3 DEF SkipCandidate, CandidateDenied, NoCandidateLeft, NextPosition
      <3> QED  BY <1>0, <2>1, <3>1 DEF Positions
    <2>4. CASE Start(r) \/ LoadConfig(r)
      <3>1. pc[r] \in {"new", "loading"} /\ outcome' = outcome
        BY <2>4 DEF Start, LoadConfig
      <3> QED  BY <2>1, <3>1
    <2>5. CASE \/ Reject(r) \/ BuildSnapshot(r) \/ SnapshotFails(r) \/ StageSnapshot(r)
               \/ StageIdempotency(r) \/ Commit(r) \/ CommitConflicts(r) \/ DatabaseFails(r)
               \/ AbortOrder(r) \/ Raise(r) \/ ReleasePair(r) \/ ReleasesDone(r)
               \/ RecordAssignment(r) \/ Respond(r)
      <3>1. pc'[r] \notin {"new", "loading", "reserving"} /\ outcome' = outcome
        BY <1>0, <2>5 DEF Reject, BuildSnapshot, SnapshotFails, StageSnapshot, StageIdempotency,
           Commit, CommitConflicts, DatabaseFails, AbortOrder, Raise, ReleasePair, ReleasesDone,
           RecordAssignment, Respond, Looping, StartLoop, Goto
      <3> QED  BY <2>1, <3>1 DEF Positions
    <2> QED  BY <1>1, <2>2, <2>3, <2>4, <2>5 DEF Step
  <1>2. ASSUME NEW r \in Requests, Start(r) \/ Step(r) PROVE AssignedInTurn'
    <2>1. ASSUME NEW s \in Requests, NEW i \in Slots PROVE InTurn(s, i)'
      <3>1. CASE s = r
        BY <1>1, <1>2, <3>1
      <3>2. CASE s # r
        BY <1>2, <3>2, OthersStay DEF AssignedInTurn, Positions
      <3> QED  BY <3>1, <3>2
    <2> QED  BY <2>1 DEF AssignedInTurn
  <1>3. CASE Elapse \/ Restart \/ UNCHANGED vars
    <2>1. UNCHANGED <<at, outcome>> /\ \A r \in Requests : pc'[r] \in {pc[r], "lost"}
      BY <1>3 DEF Elapse, Restart, vars, handlerVars
    <2> QED  BY <2>1 DEF AssignedInTurn, Positions
  <1> QED  BY <1>2, <1>3 DEF Next

(* Only a granted reservation gives a partner to an order. *)
LEMMA OnlyGrantsLease ==
    ASSUME TypeOK, NEW r \in Requests, Start(r) \/ Step(r), ~CandidateGranted(r),
           NEW p \in Partners
    PROVE  lease'[p] \in {lease[p], NoOrder}
  <1>1. CASE AbortOrder(r) \/ ReleasePair(r)
    BY <1>1 DEF AbortOrder, ReleasePair, storeVars, Store!ReleaseAllForOrder, Store!Release,
       Store!Clear
  <1>2. CASE ~(AbortOrder(r) \/ ReleasePair(r))
    <2>1. lease' = lease
      BY <1>2 DEF Step, Start, Reject, LoadConfig, SkipCandidate, CandidateDenied,
         NoCandidateLeft, BuildSnapshot, SnapshotFails, StageSnapshot, StageIdempotency, Commit,
         CommitConflicts, DatabaseFails, Raise, ReleasesDone, RecordAssignment, Respond,
         storeVars, Store!Deny, Store!leaseVars
    <2> QED  BY <2>1
  <1> QED  BY <1>1, <1>2

(* A request that moves keeps what it holds, or has just given it back. *)
LEMMA HolderStep ==
    ASSUME OwnerInv, NEW r \in Requests, Start(r) \/ Step(r),
           NEW p \in Partners, NEW o \in Orders, lease[p] = o, lease'[p] = o,
           Holds(r, p, o)
    PROVE  Holds(r, p, o)' \/ Leaked(r, p, o)'
  <1> USE DEF Holds
  <1>0. /\ pc \in [Requests -> Phases] /\ at \in [Requests -> 1..(MaxOrders + 1)]
        /\ outcome \in [Requests -> [Slots -> Partners \cup {NoPartner}]]
        /\ MaxOrders \in Nat /\ NoPartner \notin Partners /\ NoOrder \notin Orders /\ TypeOK
    BY RequestAssumption DEF OwnerInv, TypeOK
  <1>1. PICK i \in Positions(r) :
           /\ outcome[r][i] = p /\ OrderAt(r, i) = o
           /\ pc[r] \in {"releasing", "aborting"} => at[r] <= i
    OBVIOUS
  <1>2. /\ i \in Slots /\ i \in Nat /\ 1 <= i /\ i <= Len(Plan[r]) /\ Len(Plan[r]) \in Nat
        /\ at[r] \in Nat
    <2>1. i \in Slots /\ Len(Plan[r]) \in Nat
      BY PlanType
    <2>2. i \in 1..Len(Plan[r])
      BY DEF Positions
    <2>3. at[r] \in 1..(MaxOrders + 1)
      BY <1>0
    <2> QED  BY <1>0, <2>1, <2>2, <2>3
  <1>3. /\ Plan[r][i].ranked # <<>> /\ (pc[r] = "reserving" => i < at[r])
    BY <1>0, <1>1, <1>2 DEF OwnerInv, AssignedInTurn
  <1>4. pc[r] \in {"reserving", "staging", "completing", "committing", "releasing", "aborting"}
    OBVIOUS
  <1>5. OrderAt(r, i)' = o /\ Positions(r)' = Positions(r)
    BY <1>1 DEF OrderAt, Positions
  <1>6. CASE Start(r) \/ Reject(r) \/ LoadConfig(r) \/ RecordAssignment(r) \/ Respond(r)
    BY <1>4, <1>6 DEF Start, Reject, LoadConfig, RecordAssignment, Respond, Looping
  <1>7. CASE \/ SkipCandidate(r) \/ CandidateDenied(r) \/ NoCandidateLeft(r)
             \/ BuildSnapshot(r) \/ StageSnapshot(r) \/ StageIdempotency(r)
    <2>1. /\ pc'[r] \in {"reserving", "staging", "completing", "committing"}
          /\ outcome' = outcome
      BY <1>0, <1>7 DEF SkipCandidate, CandidateDenied, NoCandidateLeft, BuildSnapshot,
         StageSnapshot, StageIdempotency, Trying, Goto
    <2> QED  BY <1>1, <1>5, <2>1
  <1>8. CASE CandidateGranted(r)
    <2>1. /\ pc[r] = "reserving" /\ pc' = pc /\ at[r] \in Slots
          /\ outcome' = [outcome EXCEPT ![r][at[r]] = Candidates(r)[cand[r]]]
      BY <1>0, <1>8, CandidateType DEF CandidateGranted, Trying
    <2>2. i # at[r]
      BY <1>2, <1>3, <2>1
    <2>3. outcome'[r][i] = p
      BY <1>0, <1>1, <1>2, <2>1, <2>2
    <2> QED  BY <1>1, <1>5, <2>1, <2>3
  <1>9. CASE SnapshotFails(r)
    <2>1. pc'[r] = "failed" /\ r \in BadDates /\ outcome' = outcome
      BY <1>0, <1>9 DEF SnapshotFails, Goto
    <2> QED  BY <1>1, <1>5, <2>1 DEF Leaked
  <1>10. CASE Commit(r) \/ CommitConflicts(r) \/ DatabaseFails(r)
    <2>1. /\ pc'[r] \in {"releasing", "aborting"} /\ at'[r] = 1 /\ outcome' = outcome
      BY <1>0, <1>4, <1>10 DEF Commit, CommitConflicts, DatabaseFails, StartLoop, Goto
    <2> QED  BY <1>1, <1>2, <1>5, <2>1
  <1>11. CASE AbortOrder(r) \/ ReleasePair(r)
    <2>1. /\ pc[r] \in {"releasing", "aborting"} /\ pc' = pc /\ outcome' = outcome
          /\ at'[r] = at[r] + 1 /\ at[r] <= i
      BY <1>0, <1>1, <1>11 DEF AbortOrder, ReleasePair, Looping
    <2>2. at[r] # i
      <3>1. SUFFICES ASSUME at[r] = i PROVE lease'[p] = NoOrder
        BY <1>0
      <3>2. CASE AbortOrder(r)
        BY <1>1, <1>3, <3>1, <3>2
        DEF AbortOrder, Candidates, Store!ReleaseAllForOrder, Store!Clear, OwnerInv, TypeOK, Store!TypeOK
      <3>3. CASE ReleasePair(r)
        BY <1>0, <1>1, <3>1, <3>3
        DEF ReleasePair, Store!Release, Store!Clear, OwnerInv, TypeOK, Store!TypeOK
      <3> QED  BY <1>11, <3>2, <3>3
    <2>3. at'[r] <= i
      BY <1>2, <2>1, <2>2
    <2> QED  BY <1>1, <1>5, <2>1, <2>3
  <1>12. CASE ReleasesDone(r) \/ Raise(r)
    <2>1. at[r] > Len(Plan[r]) /\ pc[r] \in {"releasing", "aborting"}
      BY <1>12 DEF ReleasesDone, Raise
    <2> QED  BY <1>1, <1>2, <2>1
  <1> QED
    BY <1>6, <1>7, <1>8, <1>9, <1>10, <1>11, <1>12 DEF Step

LEMMA OwnerStep == OwnerInv /\ [Next]_vars => OwnerInv'
  <1> SUFFICES ASSUME OwnerInv, [Next]_vars PROVE OwnerInv'
    OBVIOUS
  <1>0. TypeOK /\ TypeOK' /\ AssignedInTurn'
    BY TypeStep, AssignedStep DEF OwnerInv
  <1>1. lease' \in [Partners -> Orders \cup {NoOrder}]
    BY <1>0 DEF TypeOK, Store!TypeOK
  <1>2. SUFFICES ASSUME NEW p \in Partners, NEW o \in Orders, lease'[p] = o
                 PROVE  \E s \in Requests : Holds(s, p, o)' \/ Leaked(s, p, o)'
    BY <1>0, <1>1 DEF OwnerInv, EveryLeaseHasOwner
  <1>3. ASSUME lease[p] = o
        PROVE  \E s \in Requests : Holds(s, p, o) \/ Leaked(s, p, o)
    BY <1>3, RequestAssumption DEF OwnerInv, EveryLeaseHasOwner
  <1>4. ASSUME NEW r \in Requests, CandidateGranted(r), lease[p] # o
        PROVE  Holds(r, p, o)'
    <2> DEFINE q == Candidates(r)[cand[r]]
    <2>1. /\ at[r] \in Positions(r) /\ at[r] \in Slots /\ q \in Partners /\ pc[r] = "reserving"
      BY <1>0, <1>4, CandidateType DEF CandidateGranted, Trying
    <2>2. /\ lease' = [lease EXCEPT ![q] = OrderAt(r, at[r])]
          /\ outcome' = [outcome EXCEPT ![r][at[r]] = q] /\ pc' = pc
      BY <1>4 DEF CandidateGranted, Store!Grant
    <2> HIDE DEF q
    <2>3. p = q /\ o = OrderAt(r, at[r])
      BY <1>0, <1>2, <1>4, <2>1, <2>2 DEF TypeOK, Store!TypeOK
    <2>4. outcome'[r][at[r]] = p
      BY <1>0, <2>1, <2>2, <2>3 DEF TypeOK
    <2> QED  BY <2>1, <2>2, <2>3, <2>4 DEF Holds, OrderAt, Positions
  <1>5. ASSUME NEW r \in Requests, Start(r) \/ Step(r), lease[p] = o
        PROVE  \E s \in Requests : Holds(s, p, o)' \/ Leaked(s, p, o)'
    <2>1. PICK s \in Requests : Holds(s, p, o) \/ Leaked(s, p, o)
      BY <1>3, <1>5
    <2>2. CASE s # r
      BY <1>0, <1>5, <2>1, <2>2, OthersStay DEF Holds, Leaked, OrderAt, Positions
    <2>3. CASE s = r /\ Holds(s, p, o)
      BY <1>2, <1>5, <2>3, HolderStep
    <2>4. CASE s = r /\ Leaked(s, p, o)
      <3>1. pc[r] = "failed"
        BY <2>4 DEF Leaked
      <3> QED
        BY <1>5, <3>1 DEF Step, Start, Reject, LoadConfig, SkipCandidate, CandidateGranted,
           CandidateDenied, NoCandidateLeft, BuildSnapshot, SnapshotFails, StageSnapshot,
           StageIdempotency, Commit, CommitConflicts, DatabaseFails, AbortOrder, Raise,
           ReleasePair, ReleasesDone, RecordAssignment, Respond, Trying, Looping
    <2> QED  BY <2>1, <2>2, <2>3, <2>4
  <1>6. CASE Elapse \/ UNCHANGED vars
    <2>1. UNCHANGED <<pc, at, outcome>>
      BY <1>6 DEF Elapse, vars, handlerVars
    <2>2. lease[p] = o
      BY <1>2, <1>6, RequestAssumption DEF Elapse, Store!Elapse, vars, storeVars
    <2> QED  BY <1>3, <2>1, <2>2 DEF Holds, Leaked, OrderAt, Positions
  <1>7. CASE Restart
    BY <1>2, <1>7, RequestAssumption DEF Restart, Store!Restart
  <1>8. ASSUME NEW r \in Requests, Start(r) \/ Step(r), lease[p] # o
        PROVE  CandidateGranted(r)
    BY <1>0, <1>2, <1>8, OnlyGrantsLease, RequestAssumption
  <1> QED  BY <1>4, <1>5, <1>6, <1>7, <1>8 DEF Next

(* Nothing stays reserved that nobody will give back, whatever the clients   *)
(* and the database do, but for the requests that die before the try block. *)
THEOREM LeasesAreOwned == Spec => []EveryLeaseHasOwner
  <1>1. Init => OwnerInv
    BY TypeInit DEF Init, Store!Init, OwnerInv, AssignedInTurn, EveryLeaseHasOwner
  <1>2. OwnerInv => EveryLeaseHasOwner
    BY DEF OwnerInv
  <1> QED  BY <1>1, <1>2, OwnerStep, PTL DEF Spec

-----------------------------------------------------------------------------
(* What the tracker counts *)

LEMMA EventsFinite ==
    ASSUME IsFiniteSet(manifests), MaxOrders \in Nat, NEW p
    PROVE  /\ IsFiniteSet(Events(p)) /\ Cardinality(Events(p)) \in Nat
           /\ IsFiniteSet(Unrecorded(p)) /\ Cardinality(Unrecorded(p)) \in Nat
  <1>1. IsFiniteSet(Slots)
    BY FS_Interval DEF Slots
  <1>2. IsFiniteSet(manifests \X Slots)
    BY <1>1, FS_Product
  <1>3. Events(p) \in SUBSET (manifests \X Slots) /\ Unrecorded(p) \in SUBSET Events(p)
    BY DEF Events, Unrecorded
  <1>4. IsFiniteSet(Events(p))
    BY <1>2, <1>3, FS_Subset
  <1>5. IsFiniteSet(Unrecorded(p))
    BY <1>3, <1>4, FS_Subset
  <1> QED  BY <1>4, <1>5, FS_CardinalityType

(* The sums stay when neither the assignments nor those due change. *)
LEMMA SameCounts ==
    ASSUME TrackerInv, TypeOK', AssignedInTurn', UNCHANGED <<tracker, manifests, restarts>>,
           \A e \in manifests \X Slots :
              /\ outcome'[e[1]][e[2]] = outcome[e[1]][e[2]]
              /\ outcome[e[1]][e[2]] # NoPartner => (Due(e)' <=> Due(e)),
           \A r \in Requests :
              /\ r \in manifests => pc'[r] \in {"releasing", "recording", "returned", "lost"}
              /\ pc'[r] \in {"releasing", "recording"} => r \in manifests
    PROVE  TrackerInv'
  <1>1. ASSUME NEW p \in Partners
        PROVE  Events(p)' = Events(p) /\ Unrecorded(p)' = Unrecorded(p)
    <2>1. Events(p)' = Events(p)
      BY DEF Events
    <2>2. \A e \in Events(p) : Due(e)' <=> Due(e)
      BY RequestAssumption DEF Events
    <2> QED  BY <2>1, <2>2 DEF Unrecorded
  <1> QED  BY <1>1 DEF TrackerInv

LEMMA TrackerMoves ==
    ASSUME TrackerInv, TypeOK', AssignedInTurn', NEW r \in Requests, Start(r) \/ Step(r),
           ~Commit(r), ~RecordAssignment(r)
    PROVE  TrackerInv'
  <1>0. /\ pc \in [Requests -> Phases] /\ at \in [Requests -> 1..(MaxOrders + 1)]
        /\ outcome \in [Requests -> [Slots -> Partners \cup {NoPartner}]]
        /\ MaxOrders \in Nat /\ manifests \subseteq Requests /\ TypeOK
    BY RequestAssumption DEF TrackerInv, TypeOK
  <1>1. UNCHANGED <<tracker, manifests, restarts>>
    BY DEF Step, Start, Reject, LoadConfig, SkipCandidate, CandidateGranted, CandidateDenied,
       NoCandidateLeft, BuildSnapshot, SnapshotFails, StageSnapshot, StageIdempotency,
       CommitConflicts, DatabaseFails, AbortOrder, Raise, ReleasePair, ReleasesDone, Respond,
       dbVars
  <1>2. /\ r \in manifests => pc[r] \in {"releasing", "recording", "returned", "lost"}
        /\ pc[r] \in {"releasing", "recording"} => r \in manifests
    BY DEF TrackerInv
  <1>3. CASE ReleasePair(r)
    <2>1. pc' = pc /\ pc[r] = "releasing" /\ outcome' = outcome
      BY <1>3 DEF ReleasePair, Looping
    <2>2. \A e \in manifests \X Slots : Due(e)' <=> Due(e)
      BY <1>0, <1>3, <2>1 DEF Due, ReleasePair
    <2> QED  BY <1>1, <2>1, <2>2, SameCounts DEF TrackerInv
  <1>4. CASE ReleasesDone(r)
    <2>1. /\ pc[r] = "releasing" /\ pc' = [pc EXCEPT ![r] = "recording"]
          /\ at' = [at EXCEPT ![r] = 1] /\ outcome' = outcome
      BY <1>4 DEF ReleasesDone, StartLoop, Goto
    <2>2. \A e \in manifests \X Slots : Due(e)' <=> Due(e)
      BY <1>0, <2>1 DEF Due, Slots
    <2> QED  BY <1>0, <1>1, <1>2, <2>1, <2>2, SameCounts DEF TrackerInv
  <1>5. CASE Respond(r)
    <2>1. /\ pc[r] = "recording" /\ pc' = [pc EXCEPT ![r] = "returned"]
          /\ at' = at /\ outcome' = outcome /\ at[r] > Len(Plan[r])
      BY <1>5 DEF Respond, Goto
    <2>2. ASSUME NEW e \in manifests \X Slots, outcome[e[1]][e[2]] # NoPartner
          PROVE  Due(e)' <=> Due(e)
      <3>1. e[1] \in Requests /\ e[2] \in Slots
        BY <1>0
      <3>2. CASE e[1] # r
        BY <1>0, <2>1, <3>1, <3>2 DEF Due
      <3>3. CASE e[1] = r
        <4>1. e[2] \in 1..Len(Plan[r])
          BY <2>2, <3>1, <3>3 DEF TrackerInv, AssignedInTurn, Positions
        <4>2. Len(Plan[r]) \in Nat /\ at[r] \in Nat
          BY <1>0, PlanType
        <4>3. ~(at[r] <= e[2])
          BY <2>1, <4>1, <4>2
        <4> QED  BY <1>0, <2>1, <3>3, <4>3 DEF Due
      <3> QED  BY <3>2, <3>3
    <2> QED  BY <1>0, <1>1, <1>2, <2>1, <2>2, SameCounts DEF TrackerInv
  <1>6. CASE ~(ReleasePair(r) \/ ReleasesDone(r) \/ Respond(r))
    <2>1. pc[r] \notin {"releasing", "recording", "returned", "lost"}
      BY <1>6 DEF Step, Start, Reject, LoadConfig, SkipCandidate, CandidateGranted,
         CandidateDenied, NoCandidateLeft, BuildSnapshot, SnapshotFails, StageSnapshot,
         StageIdempotency, CommitConflicts, DatabaseFails, AbortOrder, Raise, Trying, Looping
    <2>2. r \notin manifests
      BY <1>2, <2>1
    <2>3. pc'[r] \notin {"releasing", "recording"}
      BY <1>0, <1>6, <2>1 DEF Step, Start, Reject, LoadConfig, SkipCandidate, CandidateGranted,
         CandidateDenied, NoCandidateLeft, BuildSnapshot, SnapshotFails, StageSnapshot,
         StageIdempotency, CommitConflicts, DatabaseFails, AbortOrder, Raise, Looping,
         StartLoop, Goto
    <2>4. \A s \in Requests \ {r} :
             pc'[s] = pc[s] /\ at'[s] = at[s] /\ outcome'[s] = outcome[s]
      BY <1>0, OthersStay
    <2>5. \A e \in manifests \X Slots : e[1] \in Requests \ {r}
      BY <1>0, <2>2
    <2>6. \A e \in manifests \X Slots :
             outcome'[e[1]][e[2]] = outcome[e[1]][e[2]] /\ (Due(e)' <=> Due(e))
      BY <2>4, <2>5 DEF Due
    <2>7. \A s \in Requests :
             /\ s \in manifests => pc'[s] \in {"releasing", "recording", "returned", "lost"}
             /\ pc'[s] \in {"releasing", "recording"} => s \in manifests
      BY <2>2, <2>3, <2>4 DEF TrackerInv
    <2> QED  BY <1>1, <2>6, <2>7, SameCounts
  <1> QED  BY <1>3, <1>4, <1>5, <1>6

LEMMA CountApart ==
    ASSUME NEW S, NEW T, IsFiniteSet(S), IsFiniteSet(T), S \cap T = {}
    PROVE  Cardinality(S \cup T) = Cardinality(S) + Cardinality(T)
  <1>1. Cardinality(S \cup T) = Cardinality(S) + Cardinality(T) - Cardinality(S \cap T)
    BY FS_Union
  <1>2. Cardinality(S \cap T) = 0
    BY FS_EmptySet
  <1>3. Cardinality(S) \in Nat /\ Cardinality(T) \in Nat
    BY FS_CardinalityType
  <1> QED  BY <1>1, <1>2, <1>3

(* A commit adds the assignments of its request, all of them due. *)
LEMMA TrackerCommits ==
    ASSUME TrackerInv, TypeOK', AssignedInTurn', NEW r \in Requests, Commit(r)
    PROVE  TrackerInv'
  <1>0. /\ pc \in [Requests -> Phases] /\ manifests \subseteq Requests /\ MaxOrders \in Nat
        /\ tracker \in [Partners -> Nat]
    BY RequestAssumption DEF TrackerInv, TypeOK
  <1>1. /\ pc[r] = "committing" /\ pc' = [pc EXCEPT ![r] = "releasing"]
        /\ at' = [at EXCEPT ![r] = 1] /\ manifests' = manifests \cup {r}
        /\ outcome' = outcome /\ tracker' = tracker /\ restarts' = restarts
    BY DEF Commit, StartLoop, Goto
  <1>2. r \notin manifests
    BY <1>1 DEF TrackerInv
  <1>3. IsFiniteSet(manifests) /\ IsFiniteSet(manifests')
    BY <1>1, FS_AddElement DEF TrackerInv
  <1>4. ASSUME NEW p \in Partners
        PROVE  /\ tracker'[p] + Cardinality(Unrecorded(p)') <= Cardinality(Events(p)')
               /\ restarts' = 0 =>
                     tracker'[p] + Cardinality(Unrecorded(p)') = Cardinality(Events(p)')
    <2> DEFINE N == {e \in {r} \X Slots : outcome[e[1]][e[2]] = p}
    <2>1. IsFiniteSet(N) /\ Cardinality(N) \in Nat
      <3>1. IsFiniteSet({r} \X Slots)
        <4>1. IsFiniteSet(Slots)
          BY <1>0, FS_Interval DEF Slots
        <4> QED  BY <4>1, FS_Singleton, FS_Product
      <3>2. N \in SUBSET ({r} \X Slots)
        OBVIOUS
      <3> HIDE DEF N
      <3> QED  BY <3>1, <3>2, FS_Subset, FS_CardinalityType
    <2>2. Events(p)' = Events(p) \cup N
      BY <1>1 DEF Events, Slots
    <2>3. Unrecorded(p)' = Unrecorded(p) \cup N
      <3>1. \A e \in N : Due(e)'
        BY <1>0, <1>1 DEF Due
      <3>2. \A e \in Events(p) : Due(e)' <=> Due(e)
        BY <1>0, <1>1, <1>2 DEF Due, Events
      <3> QED  BY <2>2, <3>1, <3>2 DEF Unrecorded
    <2>4. Events(p) \cap N = {} /\ Unrecorded(p) \cap N = {}
      BY <1>2 DEF Events, Unrecorded
    <2> HIDE DEF N
    <2>5. /\ IsFiniteSet(Events(p)) /\ Cardinality(Events(p)) \in Nat
          /\ IsFiniteSet(Unrecorded(p)) /\ Cardinality(Unrecorded(p)) \in Nat
      BY <1>0, <1>3, EventsFinite
    <2>7. Cardinality(Events(p) \cup N) = Cardinality(Events(p)) + Cardinality(N)
      BY <2>1, <2>4, <2>5, CountApart
    <2>8. Cardinality(Unrecorded(p) \cup N) = Cardinality(Unrecorded(p)) + Cardinality(N)
      BY <2>1, <2>4, <2>5, CountApart
    <2>9. /\ tracker[p] + Cardinality(Unrecorded(p)) <= Cardinality(Events(p))
          /\ restarts = 0 => tracker[p] + Cardinality(Unrecorded(p)) = Cardinality(Events(p))
          /\ tracker[p] \in Nat
      BY <1>0 DEF TrackerInv
    <2>10. /\ Cardinality(Events(p)') = Cardinality(Events(p)) + Cardinality(N)
           /\ Cardinality(Unrecorded(p)') = Cardinality(Unrecorded(p)) + Cardinality(N)
           /\ tracker'[p] = tracker[p] /\ restarts' = restarts
      BY <1>1, <2>2, <2>3, <2>7, <2>8
    <2> QED  BY <2>1, <2>5, <2>9, <2>10
  <1>5. \A s \in Requests :
           /\ s \in manifests' => pc'[s] \in {"releasing", "recording", "returned", "lost"}
           /\ pc'[s] \in {"releasing", "recording"} => s \in manifests'
    BY <1>0, <1>1 DEF TrackerInv
  <1> QED  BY <1>3, <1>4, <1>5 DEF TrackerInv

(* Recording an assignment takes it from those due. *)
LEMMA TrackerRecords ==
    ASSUME TrackerInv, TypeOK', AssignedInTurn', NEW r \in Requests, RecordAssignment(r)
    PROVE  TrackerInv'
  <1> DEFINE a == at[r]
             q == outcome[r][a]
  <1>0. /\ pc \in [Requests -> Phases] /\ at \in [Requests -> 1..(MaxOrders + 1)]
        /\ manifests \subseteq Requests /\ MaxOrders \in Nat /\ tracker \in [Partners -> Nat]
        /\ NoPartner \notin Partners
    BY RequestAssumption DEF TrackerInv, TypeOK
  <1>1. /\ pc[r] = "recording" /\ a \in Slots
        /\ at' = [at EXCEPT ![r] = a + 1] /\ a \in Nat
        /\ UNCHANGED <<pc, outcome, manifests, restarts>>
        /\ tracker' = IF q # NoPartner THEN [tracker EXCEPT ![q] = @ + 1] ELSE tracker
    <2>1. a \in Slots /\ a \in Nat
      <3>1. a <= Len(Plan[r]) /\ a \in 1..(MaxOrders + 1)
        BY <1>0 DEF RecordAssignment, Looping
      <3> QED  BY <1>0, <3>1, PlanType DEF Slots
    <2> QED  BY <2>1 DEF RecordAssignment, Looping, dbVars
  <1>2. r \in manifests
    BY <1>1 DEF TrackerInv
  <1> HIDE DEF a, q
  <1>3. ASSUME NEW p \in Partners
        PROVE  /\ tracker'[p] + Cardinality(Unrecorded(p)') <= Cardinality(Events(p)')
               /\ restarts' = 0 =>
                     tracker'[p] + Cardinality(Unrecorded(p)') = Cardinality(Events(p)')
    <2>1. Events(p)' = Events(p)
      BY <1>1 DEF Events
    <2>2. \A e \in Events(p) : Due(e)' <=> Due(e) /\ e # <<r, a>>
      <3> SUFFICES ASSUME NEW e \in Events(p) PROVE Due(e)' <=> Due(e) /\ e # <<r, a>>
        OBVIOUS
      <3>1. e[1] \in Requests /\ e[2] \in Slots /\ e = <<e[1], e[2]>>
        BY <1>0 DEF Events
      <3>2. CASE e[1] # r
        BY <1>0, <1>1, <3>1, <3>2 DEF Due
      <3>3. CASE e[1] = r
        <4>1. Due(e)' <=> a + 1 <= e[2]
          BY <1>0, <1>1, <3>3 DEF Due
        <4>2. Due(e) <=> a <= e[2]
          BY <1>1, <3>3 DEF Due, a
        <4>3. e[2] \in Nat
          BY <1>0, <3>1 DEF Slots
        <4>4. e = <<r, a>> <=> e[2] = a
          BY <3>1, <3>3
        <4> QED  BY <1>1, <4>1, <4>2, <4>3, <4>4
      <3> QED  BY <3>2, <3>3
    <2>3. Unrecorded(p)' = Unrecorded(p) \ {<<r, a>>}
      BY <2>1, <2>2 DEF Unrecorded
    <2>4. <<r, a>> \in Unrecorded(p) <=> p = q
      BY <1>0, <1>1, <1>2 DEF Unrecorded, Events, Due, a, q
    <2>5. /\ IsFiniteSet(Events(p)) /\ Cardinality(Events(p)) \in Nat
          /\ IsFiniteSet(Unrecorded(p)) /\ Cardinality(Unrecorded(p)) \in Nat
      BY <1>0, EventsFinite DEF TrackerInv
    <2>6. Cardinality(Unrecorded(p)') =
             IF p = q THEN Cardinality(Unrecorded(p)) - 1 ELSE Cardinality(Unrecorded(p))
      BY <2>3, <2>4, <2>5, FS_RemoveElement
    <2>7. tracker'[p] = IF p = q THEN tracker[p] + 1 ELSE tracker[p]
      BY <1>0, <1>1
    <2>8. /\ tracker[p] + Cardinality(Unrecorded(p)) <= Cardinality(Events(p))
          /\ restarts = 0 => tracker[p] + Cardinality(Unrecorded(p)) = Cardinality(Events(p))
          /\ tracker[p] \in Nat
      BY <1>0 DEF TrackerInv
    <2>9. Cardinality(Events(p)') = Cardinality(Events(p)) /\ restarts' = restarts
      BY <1>1, <2>1
    <2> QED  BY <2>5, <2>6, <2>7, <2>8, <2>9
  <1> QED  BY <1>1, <1>3 DEF TrackerInv

LEMMA TrackerStep == TrackerInv /\ [Next]_vars => TrackerInv'
  <1> SUFFICES ASSUME TrackerInv, [Next]_vars PROVE TrackerInv'
    OBVIOUS
  <1>0. TypeOK' /\ AssignedInTurn'
    BY TypeStep, AssignedStep DEF TrackerInv
  <1>1. ASSUME NEW r \in Requests, Start(r) \/ Step(r) PROVE TrackerInv'
    BY <1>0, <1>1, TrackerMoves, TrackerCommits, TrackerRecords
  <1>2. CASE Elapse \/ UNCHANGED vars
    <2>1. UNCHANGED <<pc, at, outcome, tracker, manifests, restarts>>
      BY <1>2 DEF Elapse, vars, handlerVars, dbVars
    <2>2. \A e : Due(e)' <=> Due(e)
      BY <2>1 DEF Due
    <2> QED  BY <1>0, <2>1, <2>2, SameCounts DEF TrackerInv
  <1>3. CASE Restart
    <2>1. /\ manifests' = manifests /\ manifests \subseteq Requests /\ IsFiniteSet(manifests)
          /\ MaxOrders \in Nat /\ restarts' # 0
          /\ \A p \in Partners : tracker'[p] = 0
          /\ \A r \in Requests : pc'[r] = IF InFlight(r) THEN "lost" ELSE pc[r]
      <3>1. restarts \in Nat /\ restarts' = restarts + 1
        BY <1>3, RequestAssumption DEF Restart, TrackerInv, TypeOK
      <3> QED  BY <1>3, <3>1, RequestAssumption DEF Restart, TrackerInv, TypeOK, dbVars
    <2>2. \A r \in Requests :
             /\ pc'[r] \notin {"releasing", "recording"}
             /\ r \in manifests => pc'[r] \in {"returned", "lost"}
      BY <2>1 DEF InFlight, Finished, TrackerInv
    <2>3. ASSUME NEW p \in Partners
          PROVE  Cardinality(Unrecorded(p)') = 0 /\ Cardinality(Events(p)') \in Nat
      <3>1. Unrecorded(p)' = {}
        BY <2>1, <2>2 DEF Unrecorded, Events, Due
      <3>2. outcome' = outcome
        BY <1>3 DEF Restart
      <3>3. Events(p)' = Events(p)
        BY <2>1, <3>2 DEF Events
      <3> QED  BY <2>1, <3>1, <3>3, EventsFinite, FS_EmptySet
    <2> QED  BY <1>0, <2>1, <2>2, <2>3 DEF TrackerInv
  <1> QED  BY <1>1, <1>2, <1>3 DEF Next

(* The load counts are made of committed assignments, each counted once:     *)
(* failures, conflicts and retries add nothing, and without restarts nothing *)
(* is missing once no request is in flight.                                 *)
THEOREM TrackerHonest == Spec => []TrackerCountsEvents
  <1>1. Init => TrackerInv
    <2> SUFFICES ASSUME Init PROVE TrackerInv
      OBVIOUS
    <2>1. manifests = {} /\ (\A p \in Partners : tracker[p] = 0)
      BY DEF Init
    <2>2. \A p \in Partners : Events(p) = {} /\ Unrecorded(p) = {}
      BY <2>1 DEF Events, Unrecorded
    <2>3. AssignedInTurn
      BY DEF Init, AssignedInTurn
    <2>4. \A r \in Requests : pc[r] = "new"
      BY DEF Init
    <2> QED  BY <2>1, <2>2, <2>3, <2>4, TypeInit, FS_EmptySet DEF TrackerInv
  <1>2. TrackerInv => TrackerCountsEvents
    <2> SUFFICES ASSUME TrackerInv, NEW p \in Partners
                 PROVE  /\ tracker[p] <= Cardinality(Events(p))
                        /\ restarts = 0 /\ (\A r \in Requests : ~InFlight(r))
                              => tracker[p] = Cardinality(Events(p))
      BY DEF TrackerCountsEvents
    <2>1. /\ Cardinality(Events(p)) \in Nat /\ Cardinality(Unrecorded(p)) \in Nat
          /\ tracker[p] \in Nat /\ manifests \subseteq Requests
      BY EventsFinite, RequestAssumption DEF TrackerInv, TypeOK
    <2>2. ASSUME \A r \in Requests : ~InFlight(r)
          PROVE  Unrecorded(p) = {}
      BY <2>1, <2>2 DEF Unrecorded, Events, Due, InFlight, Finished
    <2>3. /\ tracker[p] + Cardinality(Unrecorded(p)) <= Cardinality(Events(p))
          /\ restarts = 0 => tracker[p] + Cardinality(Unrecorded(p)) = Cardinality(Events(p))
      BY DEF TrackerInv
    <2>4. Cardinality({}) = 0
      BY FS_EmptySet
    <2> QED  BY <2>1, <2>2, <2>3, <2>4
  <1> QED  BY <1>1, <1>2, TrackerStep, PTL DEF Spec
-----------------------------------------------------------------------------
(* The handler and the store: the lease table is a component.              *)

LEMMA LoopPosition ==
    ASSUME TypeOK, NEW r \in Requests, NEW l, Looping(r, l)
    PROVE  at[r] \in Slots /\ OrderAt(r, at[r]) \in Orders
  <1>1. at[r] \in Nat \ {0} /\ at[r] <= Len(Plan[r]) /\ Len(Plan[r]) \in Nat
    BY PlanType, RequestAssumption DEF TypeOK, Looping
  <1>2. at[r] \in Positions(r)
    BY <1>1 DEF Positions
  <1> QED  BY <1>2, PlanType

(* Whatever a request does, it does to the store by its operations; only    *)
(* the clock and the process end do the rest.                               *)
LEMMA StepsOfTheStore ==
    TypeOK /\ [Next]_vars => [Store!Next \/ Store!Restart]_<<lease, left>>
  <1> SUFFICES ASSUME TypeOK, [Next]_vars
               PROVE  Store!Next \/ Store!Restart \/ UNCHANGED <<lease, left>>
    OBVIOUS
  <1>1. ASSUME NEW r \in Requests, CandidateGranted(r)
        PROVE  Store!Next
    <2>1. /\ Candidates(r)[cand[r]] \in Partners /\ OrderAt(r, at[r]) \in Orders
          /\ Store!Grant(Candidates(r)[cand[r]], OrderAt(r, at[r]))
      BY <1>1, CandidateType DEF CandidateGranted
    <2> QED  BY <2>1 DEF Store!Next
  <1>2. ASSUME NEW r \in Requests, AbortOrder(r)
        PROVE  Store!Next \/ UNCHANGED <<lease, left>>
    <2>1. OrderAt(r, at[r]) \in Orders
      BY <1>2, LoopPosition DEF AbortOrder
    <2> QED  BY <1>2, <2>1 DEF AbortOrder, Store!Next, storeVars
  <1>3. ASSUME NEW r \in Requests, ReleasePair(r)
        PROVE  Store!Next \/ UNCHANGED <<lease, left>>
    <2>1. OrderAt(r, at[r]) \in Orders /\ at[r] \in Slots
      BY <1>3, LoopPosition DEF ReleasePair
    <2>2. outcome[r][at[r]] \in Partners \cup {NoPartner}
      BY <2>1 DEF TypeOK
    <2> QED  BY <1>3, <2>1, <2>2 DEF ReleasePair, Store!Next, storeVars
  <1>4. ASSUME NEW r \in Requests, Start(r) \/ Step(r),
               ~(CandidateGranted(r) \/ AbortOrder(r) \/ ReleasePair(r))
        PROVE  UNCHANGED <<lease, left>>
    BY <1>4 DEF Step, Start, Reject, LoadConfig, SkipCandidate, CandidateDenied,
       NoCandidateLeft, BuildSnapshot, SnapshotFails, StageSnapshot, StageIdempotency, Commit,
       CommitConflicts, DatabaseFails, Raise, ReleasesDone, RecordAssignment, Respond,
       storeVars, Store!Deny, Store!leaseVars
  <1>5. Elapse => Store!Next
    BY DEF Elapse, Store!Next
  <1>6. Restart => Store!Restart
    BY DEF Restart
  <1>7. UNCHANGED vars => UNCHANGED <<lease, left>>
    BY DEF vars, storeVars
  <1> QED
    BY <1>1, <1>2, <1>3, <1>4, <1>5, <1>6, <1>7 DEF Next

(* NoHandover of PartnerLease, of the store in use: whatever requests,       *)
(* aborts, retries and restarts do to it together, a reservation neither     *)
(* passes to another order nor is prolonged before its partner was free.     *)
THEOREM LeasesFreedBetween == Spec => Store!NoHandover
  <1> DEFINE Kept == \A p \in Partners :
                ~Store!Free(p) /\ ~Store!Free(p)' => lease'[p] = lease[p] /\ left'[p] <= left[p]
  <1>1. TypeOK /\ TypeOK' /\ [Next]_vars => [Kept]_Store!leaseVars
    <2> SUFFICES ASSUME TypeOK, Store!Next \/ Store!Restart PROVE Kept
      BY StepsOfTheStore DEF Store!leaseVars
    <2>0. lease \in [Partners -> Orders \cup {NoOrder}] /\ left \in [Partners -> 0..Ttl]
      BY DEF TypeOK, Store!TypeOK
    <2>t. Ttl \in Nat \ {0}
      BY RequestAssumption
    <2>1. ASSUME NEW p \in Partners, NEW o \in Orders, Store!Grant(p, o) PROVE Kept
      BY <2>0, <2>t, <2>1 DEF Store!Grant, Store!Free
    <2>2. ASSUME NEW S, Store!Clear(S) PROVE Kept
      BY <2>0, <2>t, <2>2 DEF Store!Clear, Store!Free
    <2>3. CASE Store!Elapse
      BY <2>0, <2>t, <2>3 DEF Store!Elapse, Store!Free
    <2>4. CASE UNCHANGED <<lease, left>>
      BY <2>0, <2>t, <2>4 DEF Store!Free
    <2>5. CASE Store!Restart
      BY <2>5 DEF Store!Restart, Store!Free
    <2> QED
      BY <2>1, <2>2, <2>3, <2>4, <2>5
      DEF Store!Next, Store!Deny, Store!leaseVars, Store!Release, Store!ReleaseAllForOrder
  <1> QED
    BY <1>1, RequestTypes, PTL DEF Spec, Store!NoHandover

=============================================================================
