-------------------------- MODULE ReservationStore --------------------------
(***************************************************************************)
(* reservation/store.py, class PartnerReservationStore: the in-memory      *)
(* table of partner reservations shared by all request threads.  Every     *)
(* method runs under _store_lock, so each is one action.  The store keeps  *)
(* two clocks apart: deadlines are compared with time.monotonic(), and     *)
(* only the expires_at shown to a reader comes from time.time(), which an  *)
(* operator or NTP may step.  Expired entries stay in the dictionaries     *)
(* until a call looks at them.                                             *)
(***************************************************************************)
EXTENDS Integers

CONSTANTS
    Partners, Orders, NoOrder, Ttl,
    MaxTime,    \* bound: the last instant of the monotonic clock explored
    WallSteps   \* bound: the wall-clock readings a clock step may jump to

ASSUME StoreAssumption ==
    /\ NoOrder \notin Orders
    /\ Ttl \in Nat \ {0}
    /\ MaxTime \in Nat
    /\ WallSteps \subseteq Nat

VARIABLES
    reservations,       \* _reservations: a dictionary, partner -> record
    expiry_deadlines,   \* _expiry_deadlines: a dictionary, partner -> instant
    locks,              \* the keys of _locks
    now,                \* time.monotonic()
    wall,               \* time.time()
    reply               \* the answer the last call gave, if it is the last step

storeVars == <<reservations, expiry_deadlines, locks, now, wall, reply>>

(* Dictionaries are functions on the set of their keys. *)
Put(d, k, v) == [x \in DOMAIN d \cup {k} |-> IF x = k THEN v ELSE d[x]]
Pop(d, S) == [x \in DOMAIN d \ S |-> d[x]]
Empty == [x \in {} |-> NoOrder]

NoReply == [call |-> "none"]

Init ==
    /\ reservations = Empty
    /\ expiry_deadlines = Empty
    /\ locks = {}
    /\ now = 0
    /\ wall = 0
    /\ reply = NoReply

(* Mutant: an entry is kept at the very instant of its deadline. *)
ExpiredLate(S) ==
    {p \in S : p \in DOMAIN expiry_deadlines /\ now > expiry_deadlines[p]}

(* Mutant: expiry goes by the expires_at of the wall clock. *)
ExpiredByWall(S) ==
    {p \in S : p \in DOMAIN reservations /\ wall >= reservations[p].expires_at}

(* The partners of S that _evict_expired_locked removes now. *)
Expired(S) ==
    {p \in S : p \in DOMAIN expiry_deadlines /\ now >= expiry_deadlines[p]}

(* Mutant: the deadline is left behind. *)
DropReservationsOnly(S) ==
    /\ reservations' = Pop(reservations, S)
    /\ UNCHANGED expiry_deadlines

(* Both dictionaries lose the keys in S. *)
Drop(S) ==
    /\ reservations' = Pop(reservations, S)
    /\ expiry_deadlines' = Pop(expiry_deadlines, S)

Held(p) == p \in DOMAIN reservations \ Expired({p})

(* Mutant: the holder may reserve again, which renews only what is shown. *)
ReserveRenewed(p, o) ==
    /\ Held(p) => reservations[p].order_id = o
    /\ reservations' = Put(reservations, p, [order_id |-> o, expires_at |-> wall + Ttl])
    /\ expiry_deadlines' = IF Held(p) THEN expiry_deadlines
                           ELSE Put(expiry_deadlines, p, now + Ttl)
    /\ locks' = locks \cup {p}
    /\ reply' = [call |-> "reserve", partner |-> p, order |-> o, answer |-> TRUE]
    /\ UNCHANGED <<now, wall>>

(* reserve(p, o) finds p free, evicting an expired entry first. *)
ReserveGranted(p, o) ==
    /\ ~Held(p)
    /\ reservations' = Put(reservations, p, [order_id |-> o, expires_at |-> wall + Ttl])
    /\ expiry_deadlines' = Put(expiry_deadlines, p, now + Ttl)
    /\ locks' = locks \cup {p}
    /\ reply' = [call |-> "reserve", partner |-> p, order |-> o, answer |-> TRUE]
    /\ UNCHANGED <<now, wall>>

(* reserve(p, o) finds p reserved. *)
ReserveDenied(p, o) ==
    /\ Held(p)
    /\ Drop(Expired({p}))
    /\ locks' = locks \cup {p}
    /\ reply' = [call |-> "reserve", partner |-> p, order |-> o, answer |-> FALSE]
    /\ UNCHANGED <<now, wall>>

(* Mutant: release does not ask who holds the partner. *)
ReleaseAnyone(p, o) ==
    /\ Drop({p} \cap DOMAIN reservations)
    /\ reply' = NoReply
    /\ UNCHANGED <<locks, now, wall>>

(* release(p, o): nothing but the eviction unless the live entry is o's. *)
Release(p, o) ==
    LET mine == {q \in {p} : Held(q) /\ reservations[q].order_id = o} IN
    /\ Drop(Expired({p}) \cup mine)
    /\ reply' = NoReply
    /\ UNCHANGED <<locks, now, wall>>

(* is_reserved(p) *)
IsReserved(p) ==
    /\ Drop(Expired({p}))
    /\ reply' = [call |-> "is_reserved", partner |-> p, answer |-> Held(p)]
    /\ UNCHANGED <<locks, now, wall>>

(* release_all_for_order(o) evicts every expired entry, then frees o's. *)
ReleaseAllForOrder(o) ==
    LET gone == Expired(DOMAIN reservations)
        mine == {p \in DOMAIN reservations \ gone : reservations[p].order_id = o}
    IN  /\ Drop(gone \cup mine)
        /\ reply' = NoReply
        /\ UNCHANGED <<locks, now, wall>>

(* current_reservations(), the GET /allocations/reservations/active route. *)
CurrentReservations ==
    LET gone == Expired(DOMAIN reservations) IN
    /\ Drop(gone)
    /\ reply' = [call |-> "current",
                 listed |-> {<<p, reservations[p].order_id>> :
                                p \in DOMAIN reservations \ gone}]
    /\ UNCHANGED <<locks, now, wall>>

(* Time passes on both clocks. *)
Tick ==
    /\ now < MaxTime
    /\ now' = now + 1
    /\ wall' = wall + 1
    /\ reply' = NoReply
    /\ UNCHANGED <<reservations, expiry_deadlines, locks>>

(* The wall clock is stepped; the monotonic clock is not. *)
StepWallClock ==
    /\ wall' \in WallSteps
    /\ reply' = NoReply
    /\ UNCHANGED <<reservations, expiry_deadlines, locks, now>>

Next ==
    \/ \E p \in Partners, o \in Orders :
          ReserveGranted(p, o) \/ ReserveDenied(p, o) \/ Release(p, o)
    \/ \E p \in Partners : IsReserved(p)
    \/ \E o \in Orders : ReleaseAllForOrder(o)
    \/ CurrentReservations
    \/ Tick
    \/ StepWallClock

Spec == Init /\ [][Next]_storeVars

-----------------------------------------------------------------------------
Record == [order_id : Orders, expires_at : Nat]

TypeOK ==
    /\ DOMAIN reservations \subseteq Partners
    /\ DOMAIN expiry_deadlines = DOMAIN reservations
    /\ reservations \in [DOMAIN reservations -> Record]
    /\ expiry_deadlines \in [DOMAIN expiry_deadlines -> Nat]
    /\ \A p \in DOMAIN expiry_deadlines : expiry_deadlines[p] <= now + Ttl
    /\ locks \subseteq Partners
    /\ now \in Nat
    /\ wall \in Nat

(* The lease table the dictionaries stand for: an entry counts until its    *)
(* deadline, evicted or not.                                                *)
Running(p) == p \in DOMAIN reservations /\ now < expiry_deadlines[p]
LeaseTable == [p \in Partners |-> IF Running(p) THEN reservations[p].order_id ELSE NoOrder]
TimeLeft == [p \in Partners |-> IF Running(p) THEN expiry_deadlines[p] - now ELSE 0]

Lease == INSTANCE PartnerLease WITH lease <- LeaseTable, left <- TimeLeft

(* Lazy eviction is invisible: every method of the store is a step of the   *)
(* eager lease table, or leaves it alone, whatever the wall clock does.     *)
ImplementsLease == Lease!Spec

(* Each method is the operation of the same name, with the same arguments:  *)
(* in particular a release frees nobody's reservation but the caller's.     *)
CallsImplementLease ==
    [][/\ \A p \in Partners, o \in Orders :
             /\ ReserveGranted(p, o) => Lease!Grant(p, o)
             /\ ReserveDenied(p, o) => Lease!Deny(p)
             /\ Release(p, o) => Lease!Release(p, o)
       /\ \A o \in Orders : ReleaseAllForOrder(o) => Lease!ReleaseAllForOrder(o)
       /\ Tick => Lease!Elapse]_storeVars

(* Every answer is the one the lease table gives at that instant: reserve   *)
(* is refused only for a running lease, is_reserved and the listing show    *)
(* neither an expired reservation nor miss a running one.                   *)
TruthfulReply ==
    CASE reply.call = "reserve" /\ reply.answer ->
            LeaseTable[reply.partner] = reply.order /\ TimeLeft[reply.partner] = Ttl
      [] reply.call = "reserve" /\ ~reply.answer ->
            LeaseTable[reply.partner] # NoOrder
      [] reply.call = "is_reserved" ->
            reply.answer = (LeaseTable[reply.partner] # NoOrder)
      [] reply.call = "current" ->
            reply.listed = {<<p, LeaseTable[p]>> : p \in {q \in Partners : LeaseTable[q] # NoOrder}}
      [] OTHER -> TRUE

(* By how much the expiry shown to readers is off. *)
Drift(p) == reservations[p].expires_at - wall - TimeLeft[p]

(* A reservation is shown with the expiry the store acts on, and only a     *)
(* step of the wall clock ever takes the two apart: no eviction, refusal or *)
(* re-reservation does.                                                     *)
ReportedExpiryIsReal ==
    [][wall' - wall = now' - now =>
          \A p \in Partners : Running(p)' =>
              Drift(p)' = 0 \/ (Running(p) /\ Drift(p)' = Drift(p))]_storeVars
=============================================================================
