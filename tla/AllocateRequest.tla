-------------------------- MODULE AllocateRequest --------------------------
(***************************************************************************)
(* api/routers/allocate.py: POST /allocations, the handler that ties the   *)
(* idempotency record, the partner reservations, the database transaction  *)
(* and the fairness tracker together.  FastAPI runs it in a thread pool,   *)
(* so any number of requests interleave between the calls they make.  The  *)
(* reservation store is its lease table (PartnerLease, which               *)
(* ReservationStore implements).  The pipeline is a pure function of the   *)
(* payload, so its result is a constant of the request.                    *)
(*                                                                         *)
(* The database is SQLite behind a session with autoflush off: the SELECTs *)
(* of get() and merge() read what is committed at that moment, the writes  *)
(* they lead to wait in the session and reach the tables together, or not  *)
(* at all, in session.commit().                                            *)
(***************************************************************************)
EXTENDS Naturals, Sequences, FiniteSets

CONSTANTS
    Requests,       \* the POSTs that arrive, retries included
    Keys,           \* values of the X-Idempotency-Key header
    Partners, Orders, Inputs, Configs,
    NoOrder, NoPartner, NoRequest,
    Ttl,            \* life of a reservation, in clock ticks
    MaxOrders,      \* length of the longest payload
    Plan,           \* Plan[r]: what pipeline.evaluate() returns for r, a sequence
                    \* of [order, ranked]; ranked lists the eligible partners,
                    \* best first, and is empty for an order left unallocated
    KeyOf, InputOf, ConfigOf,   \* key, input hash and configuration of a request
    BadRequests,    \* no partners in the payload, or a blocking rule conflict
    BadDates,       \* created_at that cannot be moved to UTC
    SerialClients,  \* TRUE: requests in flight share no key and no order id
    MaxRestarts     \* bound on the restarts of the process explored

Slots == 1..MaxOrders
InsertedTables == {"config", "snapshot", "idempotency"}

ASSUME RequestAssumption ==
    /\ NoOrder \notin Orders /\ NoPartner \notin Partners /\ NoRequest \notin Requests
    /\ Ttl \in Nat \ {0}
    /\ MaxOrders \in Nat
    /\ Plan \in [Requests -> Seq([order : Orders, ranked : Seq(Partners)])]
    /\ \A r \in Requests : Len(Plan[r]) <= MaxOrders
    /\ KeyOf \in [Requests -> Keys]
    /\ InputOf \in [Requests -> Inputs]
    /\ ConfigOf \in [Requests -> Configs]
    /\ BadRequests \subseteq Requests /\ BadDates \subseteq Requests
    /\ SerialClients \in BOOLEAN
    /\ MaxRestarts \in Nat

VARIABLES
    \* The handler's own variables, one copy per request.
    pc,         \* where request r is
    at,         \* the payload position the current loop is at
    cand,       \* the candidate tried next for that position
    outcome,    \* outcome[r][i]: the partner given to position i, or NoPartner
    inserts,    \* the tables whose pending row was planned as an INSERT
    response,   \* the manifest the client was answered with
    \* Shared memory of the process.
    lease, left,    \* the reservation store, see PartnerLease
    tracker,        \* assignments recorded per partner in the rolling window
    \* Committed tables.  The manifest of request r is named r; its events are
    \* the positions of r, with the partners of outcome[r].
    manifests, snapshots, configs,
    idempotency,    \* key -> manifest in the stored response, or NoRequest
    \* Bookkeeping.
    term,       \* term[r][i]: ticks r may still count on the reservation it
                \* was granted for position i, unless it has given it back
    restarts

handlerVars == <<pc, at, cand, outcome, inserts, response>>
storeVars == <<lease, left, term>>
dbVars == <<manifests, snapshots, configs, idempotency>>
vars == <<handlerVars, storeVars, tracker, dbVars, restarts>>

Store == INSTANCE PartnerLease

Init ==
    /\ pc = [r \in Requests |-> "new"]
    /\ at = [r \in Requests |-> 1]
    /\ cand = [r \in Requests |-> 1]
    /\ outcome = [r \in Requests |-> [i \in Slots |-> NoPartner]]
    /\ inserts = [r \in Requests |-> {}]
    /\ response = [r \in Requests |-> NoRequest]
    /\ Store!Init
    /\ term = [r \in Requests |-> [i \in Slots |-> 0]]
    /\ tracker = [p \in Partners |-> 0]
    /\ manifests = {} /\ snapshots = {} /\ configs = {}
    /\ idempotency = [k \in Keys |-> NoRequest]
    /\ restarts = 0

Finished == {"rejected", "returned", "failed", "lost"}
InFlight(r) == pc[r] \notin Finished \cup {"new"}

Positions(r) == 1..Len(Plan[r])
OrderAt(r, i) == Plan[r][i].order
OrdersOf(r) == {OrderAt(r, i) : i \in Positions(r)}
Candidates(r) == Plan[r][at[r]].ranked
(* Mutant: the partners used by the request are not remembered. *)
ForgottenPartners(r) == {}
UsedPartners(r) == {outcome[r][i] : i \in Slots} \ {NoPartner}   \* request_reserved_partner_ids

Goto(r, l) == pc' = [pc EXCEPT ![r] = l]
(* Mutant: the loop goes on where the previous one stopped. *)
ContinueLoop(r, l) == Goto(r, l) /\ UNCHANGED at
(* Enter phase l, whose loop starts over at the first position. *)
StartLoop(r, l) == Goto(r, l) /\ at' = [at EXCEPT ![r] = 1]
(* Mutant: candidates are counted from 0. *)
NextPositionFromZero(r) == at' = [at EXCEPT ![r] = @ + 1] /\ cand' = [cand EXCEPT ![r] = 0]
NextPosition(r) == at' = [at EXCEPT ![r] = @ + 1] /\ cand' = [cand EXCEPT ![r] = 1]

-----------------------------------------------------------------------------
(* Up to the reservations. *)

Overlaps(r, s) == KeyOf[r] = KeyOf[s] \/ OrdersOf(r) \cap OrdersOf(s) # {}

(* Mutant: the stored response is not looked for. *)
StartAfresh(r) ==
    /\ pc[r] = "new"
    /\ SerialClients => \A s \in Requests : InFlight(s) => ~Overlaps(r, s)
    /\ Goto(r, "loading")
    /\ UNCHANGED <<at, cand, outcome, inserts, response, storeVars, tracker, dbVars, restarts>>

(* The request arrives and looks for a stored response under its key. *)
Start(r) ==
    /\ pc[r] = "new"
    /\ SerialClients => \A s \in Requests : InFlight(s) => ~Overlaps(r, s)
    /\ LET stored == idempotency[KeyOf[r]] IN
       IF stored # NoRequest
       THEN Goto(r, "returned") /\ response' = [response EXCEPT ![r] = stored]
       ELSE Goto(r, "loading") /\ UNCHANGED response
    /\ UNCHANGED <<at, cand, outcome, inserts, storeVars, tracker, dbVars, restarts>>

(* HTTP 400: the session, with whatever it holds, is rolled back. *)
Reject(r) ==
    /\ pc[r] = "loading" /\ r \in BadRequests
    /\ Goto(r, "rejected")
    /\ UNCHANGED <<at, cand, outcome, inserts, response, storeVars, tracker, dbVars, restarts>>

(* Mutant: a version another session has only planned counts as stored. *)
LoadConfigDirty(r) ==
    /\ pc[r] = "loading" /\ r \notin BadRequests
    /\ LET planned == {ConfigOf[s] : s \in {q \in Requests : InFlight(q) /\ "config" \in inserts[q]}}
       IN  inserts' = [inserts EXCEPT ![r] = {"config" : c \in {ConfigOf[r]} \ (configs \cup planned)}]
    /\ StartLoop(r, "reserving")
    /\ UNCHANGED <<cand, outcome, response, storeVars, tracker, dbVars, restarts>>

(* put_if_absent plans an INSERT unless the version is committed already;  *)
(* weights, rules and pipeline follow without touching anything shared.    *)
LoadConfig(r) ==
    /\ pc[r] = "loading" /\ r \notin BadRequests
    /\ inserts' = [inserts EXCEPT ![r] = {"config" : c \in {ConfigOf[r]} \ configs}]
    /\ StartLoop(r, "reserving")
    /\ UNCHANGED <<cand, outcome, response, storeVars, tracker, dbVars, restarts>>

-----------------------------------------------------------------------------
(* _apply_partner_reservations *)

Trying(r) ==
    /\ pc[r] = "reserving" /\ at[r] <= Len(Plan[r])
    /\ cand[r] <= Len(Candidates(r))

(* Mutant: the loop over the candidates is not advanced. *)
SkipForever(r) ==
    /\ Trying(r) /\ Candidates(r)[cand[r]] \in UsedPartners(r)
    /\ UNCHANGED vars

(* The candidate has an order of this request already. *)
SkipCandidate(r) ==
    /\ Trying(r) /\ Candidates(r)[cand[r]] \in UsedPartners(r)
    /\ cand' = [cand EXCEPT ![r] = @ + 1]
    /\ UNCHANGED <<pc, at, outcome, inserts, response, storeVars, tracker, dbVars, restarts>>

(* Mutant: the answer of reserve() is ignored. *)
CandidateTaken(r) ==
    /\ Trying(r)
    /\ LET p == Candidates(r)[cand[r]] IN
       /\ p \notin UsedPartners(r)
       /\ Store!Grant(p, OrderAt(r, at[r])) \/ Store!Deny(p)
       /\ outcome' = [outcome EXCEPT ![r][at[r]] = p]
       /\ term' = [term EXCEPT ![r][at[r]] = Ttl]
    /\ NextPosition(r)
    /\ UNCHANGED <<pc, inserts, response, tracker, dbVars, restarts>>

(* Granted by reserve(). *)
CandidateGranted(r) ==
    /\ Trying(r)
    /\ LET p == Candidates(r)[cand[r]] IN
       /\ p \notin UsedPartners(r)
       /\ Store!Grant(p, OrderAt(r, at[r]))
       /\ outcome' = [outcome EXCEPT ![r][at[r]] = p]
       /\ term' = [term EXCEPT ![r][at[r]] = Ttl]
    /\ NextPosition(r)
    /\ UNCHANGED <<pc, inserts, response, tracker, dbVars, restarts>>

CandidateDenied(r) ==
    /\ Trying(r)
    /\ LET p == Candidates(r)[cand[r]] IN p \notin UsedPartners(r) /\ Store!Deny(p)
    /\ cand' = [cand EXCEPT ![r] = @ + 1]
    /\ UNCHANGED <<pc, at, outcome, inserts, response, term, tracker, dbVars, restarts>>

(* No candidate, or none left: the order stays unallocated. *)
NoCandidateLeft(r) ==
    /\ pc[r] = "reserving" /\ at[r] <= Len(Plan[r])
    /\ cand[r] > Len(Candidates(r))
    /\ NextPosition(r)
    /\ UNCHANGED <<pc, outcome, inserts, response, storeVars, tracker, dbVars, restarts>>

-----------------------------------------------------------------------------
(* Manifest and transaction *)

BuildSnapshot(r) ==
    /\ pc[r] = "reserving" /\ at[r] > Len(Plan[r])
    /\ r \notin BadDates
    /\ Goto(r, "staging")
    /\ UNCHANGED <<at, cand, outcome, inserts, response, storeVars, tracker, dbVars, restarts>>

(* build_input_snapshot raises outside the try that gives reservations     *)
(* back: they stay in the store, and nobody counts on them any more.       *)
SnapshotFails(r) ==
    /\ pc[r] = "reserving" /\ at[r] > Len(Plan[r])
    /\ r \in BadDates
    /\ Goto(r, "failed")
    /\ term' = [term EXCEPT ![r] = [i \in Slots |-> 0]]
    /\ UNCHANGED <<at, cand, outcome, inserts, response, lease, left, tracker, dbVars, restarts>>

(* The manifest is built and saved; merge() looks for the snapshot's row.  *)
StageSnapshot(r) ==
    /\ pc[r] = "staging"
    /\ inserts' = [inserts EXCEPT ![r] = @ \cup {"snapshot" : h \in {InputOf[r]} \ snapshots}]
    /\ Goto(r, "completing")
    /\ UNCHANGED <<at, cand, outcome, response, storeVars, tracker, dbVars, restarts>>

(* The events are added; merge() looks for a row under the key.            *)
StageIdempotency(r) ==
    /\ pc[r] = "completing"
    /\ inserts' = [inserts EXCEPT ![r] =
                      @ \cup {"idempotency" : k \in {KeyOf[r]} \cap {q \in Keys : idempotency[q] = NoRequest}}]
    /\ Goto(r, "committing")
    /\ UNCHANGED <<at, cand, outcome, response, storeVars, tracker, dbVars, restarts>>

(* An INSERT whose row somebody committed since the SELECT. *)
Conflict(r) ==
    \/ "config" \in inserts[r] /\ ConfigOf[r] \in configs
    \/ "snapshot" \in inserts[r] /\ InputOf[r] \in snapshots
    \/ "idempotency" \in inserts[r] /\ idempotency[KeyOf[r]] # NoRequest

Commit(r) ==
    /\ pc[r] = "committing" /\ ~Conflict(r)
    /\ manifests' = manifests \cup {r}
    /\ snapshots' = snapshots \cup {h \in {InputOf[r]} : "snapshot" \in inserts[r]}
    /\ configs' = configs \cup {c \in {ConfigOf[r]} : "config" \in inserts[r]}
    /\ idempotency' = [idempotency EXCEPT ![KeyOf[r]] = r]
    /\ StartLoop(r, "releasing")
    /\ UNCHANGED <<cand, outcome, inserts, response, storeVars, tracker, restarts>>

(* Mutant: the IntegrityError is swallowed. *)
ConflictIgnored(r) ==
    /\ pc[r] = "committing" /\ Conflict(r)
    /\ StartLoop(r, "releasing")
    /\ UNCHANGED <<cand, outcome, inserts, response, storeVars, tracker, dbVars, restarts>>

(* IntegrityError *)
CommitConflicts(r) ==
    /\ pc[r] = "committing" /\ Conflict(r)
    /\ StartLoop(r, "aborting")
    /\ UNCHANGED <<cand, outcome, inserts, response, storeVars, tracker, dbVars, restarts>>

(* A statement or the commit fails, the database is locked, or the manifest *)
(* cannot be built: the transaction is rolled back, and past the            *)
(* reservations these are given back first.                                 *)
DatabaseFails(r) ==
    /\ \/ pc[r] = "loading" /\ Goto(r, "failed") /\ UNCHANGED at
       \/ pc[r] \in {"staging", "completing", "committing"} /\ StartLoop(r, "aborting")
    /\ UNCHANGED <<cand, outcome, inserts, response, storeVars, tracker, dbVars, restarts>>

-----------------------------------------------------------------------------
(* The loops after the commit, or after an exception *)

Looping(r, l) == pc[r] = l /\ at[r] <= Len(Plan[r])

(* Mutant: the candidates of the order are freed, whoever holds them. *)
AbortCandidates(r) ==
    LET S == {Candidates(r)[k] : k \in DOMAIN Candidates(r)} IN
    /\ Looping(r, "aborting")
    /\ Store!Clear(S)
    /\ term' = [term EXCEPT ![r] = [i \in Slots |-> IF outcome[r][i] \in S THEN 0 ELSE @[i]]]
    /\ at' = [at EXCEPT ![r] = @ + 1]
    /\ UNCHANGED <<pc, cand, outcome, inserts, response, tracker, dbVars, restarts>>

(* release_all_for_order for the next attempted order id. *)
AbortOrder(r) ==
    LET o == OrderAt(r, at[r]) IN
    /\ Looping(r, "aborting")
    /\ IF Candidates(r) # <<>>
       THEN /\ Store!ReleaseAllForOrder(o)
            /\ term' = [term EXCEPT ![r] =
                           [i \in Slots |-> IF i \in Positions(r) /\ OrderAt(r, i) = o THEN 0 ELSE @[i]]]
       ELSE UNCHANGED storeVars
    /\ at' = [at EXCEPT ![r] = @ + 1]
    /\ UNCHANGED <<pc, cand, outcome, inserts, response, tracker, dbVars, restarts>>

(* release(partner, order) for the next reserved pair. *)
ReleasePair(r) ==
    LET p == outcome[r][at[r]] IN
    /\ Looping(r, "releasing")
    /\ IF p # NoPartner
       THEN /\ Store!Release(p, OrderAt(r, at[r]))
            /\ term' = [term EXCEPT ![r][at[r]] = 0]
       ELSE UNCHANGED storeVars
    /\ at' = [at EXCEPT ![r] = @ + 1]
    /\ UNCHANGED <<pc, cand, outcome, inserts, response, tracker, dbVars, restarts>>

ReleasesDone(r) ==
    /\ pc[r] = "releasing" /\ at[r] > Len(Plan[r])
    /\ StartLoop(r, "recording")
    /\ UNCHANGED <<cand, outcome, inserts, response, storeVars, tracker, dbVars, restarts>>

(* Mutant: the first assignment is counted twice. *)
RecordTwice(r) ==
    LET p == outcome[r][at[r]] IN
    /\ Looping(r, "recording")
    /\ tracker' = IF p # NoPartner
                  THEN [tracker EXCEPT ![p] = @ + IF at[r] = 1 THEN 2 ELSE 1] ELSE tracker
    /\ at' = [at EXCEPT ![r] = @ + 1]
    /\ UNCHANGED <<pc, cand, outcome, inserts, response, storeVars, dbVars, restarts>>

(* tracker.record_assignment for the next allocation. *)
RecordAssignment(r) ==
    LET p == outcome[r][at[r]] IN
    /\ Looping(r, "recording")
    /\ tracker' = IF p # NoPartner THEN [tracker EXCEPT ![p] = @ + 1] ELSE tracker
    /\ at' = [at EXCEPT ![r] = @ + 1]
    /\ UNCHANGED <<pc, cand, outcome, inserts, response, storeVars, dbVars, restarts>>

Respond(r) ==
    /\ pc[r] = "recording" /\ at[r] > Len(Plan[r])
    /\ Goto(r, "returned")
    /\ response' = [response EXCEPT ![r] = r]
    /\ UNCHANGED <<at, cand, outcome, inserts, storeVars, tracker, dbVars, restarts>>

(* The exception leaves the handler. *)
Raise(r) ==
    /\ pc[r] = "aborting" /\ at[r] > Len(Plan[r])
    /\ Goto(r, "failed")
    /\ UNCHANGED <<at, cand, outcome, inserts, response, storeVars, tracker, dbVars, restarts>>

-----------------------------------------------------------------------------
(* Time passes. *)
Elapse ==
    /\ Store!Elapse
    /\ term' = [r \in Requests |-> [i \in Slots |-> IF term[r][i] > 0 THEN term[r][i] - 1 ELSE 0]]
    /\ UNCHANGED <<handlerVars, tracker, dbVars, restarts>>

(* The process is killed and started again: threads and memory are gone,   *)
(* the committed tables stay.                                              *)
Restart ==
    /\ restarts < MaxRestarts
    /\ restarts' = restarts + 1
    /\ pc' = [r \in Requests |-> IF InFlight(r) THEN "lost" ELSE pc[r]]
    /\ Store!Restart
    /\ term' = [r \in Requests |-> [i \in Slots |-> 0]]
    /\ tracker' = [p \in Partners |-> 0]
    /\ UNCHANGED <<at, cand, outcome, inserts, response, dbVars>>

(* What the thread of request r does next. *)
Step(r) ==
    \/ Reject(r) \/ LoadConfig(r)
    \/ SkipCandidate(r) \/ CandidateGranted(r) \/ CandidateDenied(r) \/ NoCandidateLeft(r)
    \/ BuildSnapshot(r) \/ SnapshotFails(r) \/ StageSnapshot(r) \/ StageIdempotency(r)
    \/ Commit(r) \/ CommitConflicts(r) \/ DatabaseFails(r)
    \/ AbortOrder(r) \/ Raise(r)
    \/ ReleasePair(r) \/ ReleasesDone(r) \/ RecordAssignment(r) \/ Respond(r)

Next ==
    \/ \E r \in Requests : Start(r) \/ Step(r)
    \/ Elapse
    \/ Restart

Spec == Init /\ [][Next]_vars

(* A thread that has started is scheduled again and again, and the clock   *)
(* never stops; clients owe us nothing.                                    *)
FairSpec == Spec /\ WF_vars(Elapse) /\ \A r \in Requests : WF_vars(Step(r))

-----------------------------------------------------------------------------
Phases == Finished \cup {"new", "loading", "reserving", "staging", "completing",
                         "committing", "releasing", "recording", "aborting"}

TypeOK ==
    /\ pc \in [Requests -> Phases]
    /\ at \in [Requests -> 1..(MaxOrders + 1)]
    /\ cand \in [Requests -> Nat \ {0}]
    /\ outcome \in [Requests -> [Slots -> Partners \cup {NoPartner}]]
    /\ inserts \in [Requests -> SUBSET InsertedTables]
    /\ response \in [Requests -> Requests \cup {NoRequest}]
    /\ Store!TypeOK
    /\ term \in [Requests -> [Slots -> 0..Ttl]]
    /\ tracker \in [Partners -> Nat]
    /\ manifests \subseteq Requests
    /\ snapshots \subseteq Inputs
    /\ configs \subseteq Configs
    /\ idempotency \in [Keys -> Requests \cup {NoRequest}]
    /\ restarts \in 0..MaxRestarts

(* While a request may count on a reservation, the store has it, for the    *)
(* same order and with the same time left: nobody else's abort, commit or   *)
(* retry has taken it away.                                                 *)
CountedOnIsLeased ==
    \A r \in Requests : \A i \in Slots :
        term[r][i] > 0 =>
            /\ i \in Positions(r)
            /\ outcome[r][i] \in Partners
            /\ lease[outcome[r][i]] = OrderAt(r, i)
            /\ left[outcome[r][i]] = term[r][i]

(* A partner reserved by one request is not reserved by another before the *)
(* first has given it back or its thirty seconds are over.                 *)
Exclusion ==
    \A r, s \in Requests : \A i, j \in Slots :
        /\ term[r][i] > 0 /\ term[s][j] > 0
        /\ outcome[r][i] = outcome[s][j]
        => r = s /\ i = j

(* A reservation still counted on will be given back: its request is        *)
(* between reserving and the end of the loop that releases it, and that     *)
(* loop has yet to come to its position.                                    *)
StillToGiveBack ==
    \A r \in Requests : \A i \in Slots :
        term[r][i] > 0 =>
            /\ pc[r] \in {"reserving", "staging", "completing", "committing", "releasing", "aborting"}
            /\ pc[r] \in {"releasing", "aborting"} => at[r] <= i
            /\ Plan[r][i].ranked # <<>>

(* What SerialClients gives: requests in flight have nothing in common. *)
FlightsApart ==
    \A r, s \in Requests : InFlight(r) /\ InFlight(s) /\ r # s => ~Overlaps(r, s)

(* No request gives one partner two of its orders, not even when the        *)
(* reservation it took for the first one runs out while it tries the next.  *)
PartnerOncePerRequest ==
    \A r \in Requests : \A i, j \in Slots :
        outcome[r][i] = outcome[r][j] /\ outcome[r][i] # NoPartner => i = j

(* Request r has reserved p for o and not yet passed the loop turn that     *)
(* gives it back.                                                           *)
Holds(r, p, o) ==
    /\ pc[r] \in {"reserving", "staging", "completing", "committing", "releasing", "aborting"}
    /\ \E i \in Positions(r) :
          /\ outcome[r][i] = p /\ OrderAt(r, i) = o
          /\ pc[r] \in {"releasing", "aborting"} => at[r] <= i

(* A request that died between its reservations and the try block. *)
Leaked(r, p, o) ==
    /\ pc[r] = "failed" /\ r \in BadDates
    /\ \E i \in Positions(r) : outcome[r][i] = p /\ OrderAt(r, i) = o

(* Every reservation in the store belongs to a request that will still give *)
(* it back; no commit, conflict, error or loop of the handler forgets one.  *)
(* The one exception is the snapshot error raised outside the try block.    *)
EveryLeaseHasOwner ==
    \A p \in Partners : lease[p] # NoOrder =>
        \E r \in Requests : Holds(r, p, lease[p]) \/ Leaked(r, p, lease[p])

(* One idempotency key leads to at most one committed manifest, through     *)
(* failures, restarts and retries.                                          *)
KeyCommittedOnce ==
    \A r, s \in manifests : KeyOf[r] = KeyOf[s] => r = s

(* A client that got an answer would get the same one again: what was       *)
(* returned is committed, and is what the key stands for from then on.      *)
AnswerIsDurable ==
    \A r \in Requests : pc[r] = "returned" =>
        response[r] \in manifests /\ idempotency[KeyOf[r]] = response[r]

(* Replay, verification and simulation of a committed manifest find its     *)
(* input snapshot and its configuration, whichever transaction wrote them.  *)
ReplayInputsCommitted ==
    \A r \in manifests : InputOf[r] \in snapshots /\ ConfigOf[r] \in configs

Events(p) == {e \in manifests \X Slots : outcome[e[1]][e[2]] = p}

(* The rolling load counts are made of committed assignments, each counted  *)
(* once; they are complete when nothing is in flight and no restart has     *)
(* emptied the tracker.                                                     *)
TrackerCountsEvents ==
    \A p \in Partners :
        /\ tracker[p] <= Cardinality(Events(p))
        /\ restarts = 0 /\ (\A r \in Requests : ~InFlight(r))
              => tracker[p] = Cardinality(Events(p))

(* A request that has started is answered, whatever the other threads do:   *)
(* a taken partner is an answer, never a wait.                              *)
RequestFinishes ==
    \A r \in Requests : InFlight(r) ~> pc[r] \in Finished

(* A partner does not stay reserved for ever, even when the request that    *)
(* reserved it has failed without releasing it.                             *)
LeasesEnd == \A p \in Partners : lease[p] # NoOrder ~> lease[p] = NoOrder

(* Together inductive when SerialClients holds; Exclusion follows.          *)
LeaseInv ==
    /\ TypeOK
    /\ CountedOnIsLeased
    /\ StillToGiveBack
    /\ PartnerOncePerRequest
    /\ FlightsApart

(* A row that was not planned as an INSERT had been committed when the      *)
(* SELECT looked.                                                           *)
RowsPlanned(r) ==
    /\ pc[r] \in {"reserving", "staging", "completing", "committing"} =>
          "config" \in inserts[r] \/ ConfigOf[r] \in configs
    /\ pc[r] \in {"completing", "committing"} =>
          "snapshot" \in inserts[r] \/ InputOf[r] \in snapshots

(* Inductive; ReplayInputsCommitted follows. *)
TablesInv ==
    /\ TypeOK
    /\ ReplayInputsCommitted
    /\ \A r \in Requests : RowsPlanned(r)

(* Until a request commits, its key stands for nothing. *)
KeyInTurn(r) ==
    /\ pc[r] \in {"loading", "reserving", "staging", "completing", "committing"} =>
          idempotency[KeyOf[r]] = NoRequest
    /\ pc[r] \in {"releasing", "recording"} => r \in manifests

(* Inductive when SerialClients holds; KeyCommittedOnce and AnswerIsDurable *)
(* follow.                                                                  *)
KeyInv ==
    /\ TypeOK
    /\ FlightsApart
    /\ AnswerIsDurable
    /\ \A r \in manifests : idempotency[KeyOf[r]] = r
    /\ \A k \in Keys : idempotency[k] # NoRequest =>
          idempotency[k] \in manifests /\ KeyOf[idempotency[k]] = k
    /\ \A r \in Requests : KeyInTurn(r)

(* Who has a partner at a position has a candidate there, and its reserving *)
(* loop has passed the position.                                            *)
AssignedInTurn ==
    \A r \in Requests : \A i \in Slots :
        outcome[r][i] # NoPartner =>
            /\ i \in Positions(r)
            /\ Plan[r][i].ranked # <<>>
            /\ pc[r] \notin {"new", "loading"}
            /\ pc[r] = "reserving" => i < at[r]

(* Inductive; EveryLeaseHasOwner follows. *)
OwnerInv == TypeOK /\ AssignedInTurn /\ EveryLeaseHasOwner

(* The committed assignments of p that a request in flight has yet to       *)
(* record.                                                                  *)
Due(e) == \/ pc[e[1]] = "releasing"
          \/ pc[e[1]] = "recording" /\ at[e[1]] <= e[2]
Unrecorded(p) == {e \in Events(p) : Due(e)}

(* Inductive; TrackerCountsEvents follows. *)
TrackerInv ==
    /\ TypeOK
    /\ AssignedInTurn
    /\ IsFiniteSet(manifests)
    /\ \A r \in Requests :
          /\ r \in manifests => pc[r] \in {"releasing", "recording", "returned", "lost"}
          /\ pc[r] \in {"releasing", "recording"} => r \in manifests
    /\ \A p \in Partners :
          /\ tracker[p] + Cardinality(Unrecorded(p)) <= Cardinality(Events(p))
          /\ restarts = 0 => tracker[p] + Cardinality(Unrecorded(p)) = Cardinality(Events(p))
=============================================================================
