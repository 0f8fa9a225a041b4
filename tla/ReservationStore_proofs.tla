----------------------- MODULE ReservationStore_proofs -----------------------
(***************************************************************************)
(* Theorems about ReservationStore: its types, and that it implements the  *)
(* lease table of PartnerLease for any partners, orders, ttl, and any way  *)
(* the wall clock is stepped.                                              *)
(***************************************************************************)
EXTENDS ReservationStore, TLAPS

(* Putting and removing dictionary entries. *)
LEMMA PutFacts ==
    ASSUME NEW d, NEW k, NEW v
    PROVE  /\ DOMAIN Put(d, k, v) = DOMAIN d \cup {k}
           /\ Put(d, k, v)[k] = v
           /\ \A x \in DOMAIN d : x # k => Put(d, k, v)[x] = d[x]
  BY DEF Put

LEMMA PopFacts ==
    ASSUME NEW d, NEW S
    PROVE  /\ DOMAIN Pop(d, S) = DOMAIN d \ S
           /\ \A x \in DOMAIN d \ S : Pop(d, S)[x] = d[x]
  BY DEF Pop

(* The actions by what they do to the dictionaries. *)
LEMMA DropType ==
    ASSUME TypeOK, NEW S, Drop(S), UNCHANGED now, wall' \in Nat, locks' \subseteq Partners
    PROVE  TypeOK'
  <1>1. DOMAIN reservations' = DOMAIN reservations \ S
        /\ \A x \in DOMAIN reservations \ S : reservations'[x] = reservations[x]
    BY DEF Drop, Pop
  <1>2. DOMAIN expiry_deadlines' = DOMAIN expiry_deadlines \ S
        /\ \A x \in DOMAIN expiry_deadlines \ S : expiry_deadlines'[x] = expiry_deadlines[x]
    BY DEF Drop, Pop
  <1>3. reservations' \in [DOMAIN reservations' -> Record]
    BY <1>1 DEF TypeOK, Drop, Pop
  <1>4. expiry_deadlines' \in [DOMAIN expiry_deadlines' -> Nat]
    BY <1>2 DEF TypeOK, Drop, Pop
  <1> QED  BY <1>1, <1>2, <1>3, <1>4 DEF TypeOK

LEMMA TypeStep == TypeOK /\ [Next]_storeVars => TypeOK'
  <1> SUFFICES ASSUME TypeOK, [Next]_storeVars PROVE TypeOK'
    OBVIOUS
  <1>0. Ttl \in Nat \ {0} /\ WallSteps \subseteq Nat
    BY StoreAssumption
  <1>1. CASE \E p \in Partners, o \in Orders : ReserveGranted(p, o)
    <2> PICK p \in Partners, o \in Orders : ReserveGranted(p, o)
      BY <1>1
    <2> DEFINE rec == [order_id |-> o, expires_at |-> wall + Ttl]
    <2>1. rec \in Record /\ now + Ttl \in Nat
      BY <1>0 DEF TypeOK, Record
    <2>2. reservations' = Put(reservations, p, rec)
          /\ expiry_deadlines' = Put(expiry_deadlines, p, now + Ttl)
          /\ locks' = locks \cup {p} /\ UNCHANGED <<now, wall>>
      BY DEF ReserveGranted
    <2> HIDE DEF rec
    <2>3. reservations' \in [DOMAIN reservations \cup {p} -> Record]
      BY <2>1, <2>2 DEF TypeOK, Put
    <2>4. expiry_deadlines' \in [DOMAIN reservations \cup {p} -> Nat]
      BY <2>1, <2>2 DEF TypeOK, Put
    <2>5. \A q \in DOMAIN expiry_deadlines' : expiry_deadlines'[q] <= now' + Ttl
      BY <1>0, <2>2 DEF TypeOK, Put
    <2>6. DOMAIN reservations' = DOMAIN reservations \cup {p}
          /\ DOMAIN expiry_deadlines' = DOMAIN reservations \cup {p}
      BY <2>3, <2>4
    <2> QED  BY <2>2, <2>3, <2>4, <2>5, <2>6 DEF TypeOK
  <1>2. CASE \E p \in Partners, o \in Orders : ReserveDenied(p, o)
    <2> PICK p \in Partners, o \in Orders : ReserveDenied(p, o)
      BY <1>2
    <2>1. locks' \subseteq Partners /\ UNCHANGED <<now, wall>> /\ wall' \in Nat
      BY DEF ReserveDenied, TypeOK
    <2> QED  BY <2>1, DropType DEF ReserveDenied
  <1>3. CASE \E p \in Partners, o \in Orders : Release(p, o)
    BY <1>3, DropType DEF Release, TypeOK
  <1>4. CASE \E p \in Partners : IsReserved(p)
    BY <1>4, DropType DEF IsReserved, TypeOK
  <1>5. CASE \E o \in Orders : ReleaseAllForOrder(o)
    BY <1>5, DropType DEF ReleaseAllForOrder, TypeOK
  <1>6. CASE CurrentReservations
    BY <1>6, DropType DEF CurrentReservations, TypeOK
  <1>7. CASE Tick
    BY <1>0, <1>7 DEF Tick, TypeOK
  <1>8. CASE StepWallClock
    BY <1>0, <1>8 DEF StepWallClock, TypeOK
  <1>9. CASE UNCHANGED storeVars
    BY <1>9 DEF storeVars, TypeOK
  <1> QED  BY <1>1, <1>2, <1>3, <1>4, <1>5, <1>6, <1>7, <1>8, <1>9 DEF Next

(* The dictionaries hold well-formed entries under the same keys, and no    *)
(* deadline is further away than the ttl, after any sequence of calls.      *)
THEOREM StoreTypes == Spec => []TypeOK
  <1>1. Init => TypeOK
    BY DEF Init, TypeOK, Empty, Record
  <1> QED  BY <1>1, TypeStep, PTL DEF Spec

-----------------------------------------------------------------------------
(* The lease table seen through the dictionaries. *)

LEMMA HeldIsRunning ==
    ASSUME TypeOK, NEW p
    PROVE  /\ Held(p) <=> Running(p)
           /\ p \in Expired({p}) => ~Running(p)
  BY DEF TypeOK, Held, Running, Expired

LEMMA RunningOrder ==
    ASSUME TypeOK, NEW p \in Partners
    PROVE  /\ Running(p) => LeaseTable[p] = reservations[p].order_id /\ LeaseTable[p] \in Orders
           /\ ~Running(p) => LeaseTable[p] = NoOrder
           /\ Running(p) <=> LeaseTable[p] # NoOrder
  BY StoreAssumption DEF TypeOK, Running, LeaseTable, Record

(* Removing entries that have run out, and those of S, clears S.            *)
LEMMA DropClears ==
    ASSUME TypeOK, NEW gone, NEW S, Drop(gone \cup S), UNCHANGED now,
           \A p \in gone : ~Running(p)
    PROVE  Lease!Clear(S)
  <1>1. \A p : Running(p)' <=> Running(p) /\ p \notin S
    BY DEF Drop, Pop, Running, TypeOK
  <1>2. \A p : Running(p)' => /\ reservations'[p] = reservations[p]
                            /\ expiry_deadlines'[p] = expiry_deadlines[p]
    BY DEF Drop, Pop, Running, TypeOK
  <1>3. LeaseTable' = [p \in Partners |-> IF p \in S THEN NoOrder ELSE LeaseTable[p]]
    BY <1>1, <1>2 DEF LeaseTable
  <1>4. TimeLeft' = [p \in Partners |-> IF p \in S THEN 0 ELSE TimeLeft[p]]
    BY <1>1, <1>2 DEF TimeLeft
  <1> QED  BY <1>3, <1>4 DEF Lease!Clear

LEMMA ClearNothing == Lease!Clear({}) => UNCHANGED <<LeaseTable, TimeLeft>>
  BY DEF Lease!Clear, LeaseTable, TimeLeft

LEMMA GrantStep ==
    ASSUME TypeOK, NEW p \in Partners, NEW o \in Orders, ReserveGranted(p, o)
    PROVE  /\ Lease!Grant(p, o)
           /\ LeaseTable'[p] = o /\ TimeLeft'[p] = Ttl
  <1>0. Ttl \in Nat \ {0} /\ now \in Nat
    BY StoreAssumption DEF TypeOK
  <1>1. ~Running(p)
    BY HeldIsRunning DEF ReserveGranted
  <1>2. LeaseTable[p] = NoOrder
    BY <1>1, RunningOrder
  <1>3. Running(p)' /\ reservations'[p].order_id = o /\ expiry_deadlines'[p] = now + Ttl
    BY <1>0 DEF ReserveGranted, Put, Running
  <1>4. \A q \in Partners : q # p =>
           /\ Running(q)' <=> Running(q)
           /\ Running(q) => /\ reservations'[q] = reservations[q]
                            /\ expiry_deadlines'[q] = expiry_deadlines[q]
    BY DEF ReserveGranted, Put, Running, TypeOK
  <1>5. now' = now
    BY DEF ReserveGranted
  <1>6. LeaseTable' = [LeaseTable EXCEPT ![p] = o]
    BY <1>3, <1>4 DEF LeaseTable
  <1>7. TimeLeft' = [TimeLeft EXCEPT ![p] = Ttl]
    <2>1. expiry_deadlines'[p] - now' = Ttl
      BY <1>0, <1>3, <1>5
    <2>2. TimeLeft' = [q \in Partners |-> IF q = p THEN Ttl ELSE TimeLeft[q]]
      BY <2>1, <1>3, <1>4, <1>5 DEF TimeLeft
    <2> QED  BY <2>2 DEF TimeLeft
  <1>8. LeaseTable'[p] = o /\ TimeLeft'[p] = Ttl
    BY <1>6, <1>7 DEF LeaseTable, TimeLeft
  <1> QED  BY <1>2, <1>6, <1>7, <1>8 DEF Lease!Grant, Lease!Free

LEMMA DenyStep ==
    ASSUME TypeOK, NEW p \in Partners, NEW o \in Orders, ReserveDenied(p, o)
    PROVE  Lease!Deny(p)
  <1>1. Expired({p}) = {} /\ LeaseTable[p] # NoOrder
    BY HeldIsRunning, RunningOrder DEF ReserveDenied, Expired
  <1>2. Lease!Clear({})
    BY <1>1, DropClears DEF ReserveDenied
  <1> QED  BY <1>1, <1>2, ClearNothing DEF Lease!Deny, Lease!Free, Lease!leaseVars

LEMMA ReleaseStep ==
    ASSUME TypeOK, NEW p \in Partners, NEW o \in Orders, Release(p, o)
    PROVE  Lease!Release(p, o)
  <1> DEFINE mine == {q \in {p} : Held(q) /\ reservations[q].order_id = o}
  <1>1. mine = {q \in {p} : LeaseTable[q] = o}
    BY HeldIsRunning, RunningOrder, StoreAssumption
  <1>2. \A q \in Expired({p}) : ~Running(q)
    BY HeldIsRunning DEF Expired
  <1>3. Drop(Expired({p}) \cup mine) /\ UNCHANGED now
    BY DEF Release
  <1> HIDE DEF mine
  <1>4. Lease!Clear(mine)
    BY <1>2, <1>3, DropClears
  <1> QED  BY <1>1, <1>4 DEF Lease!Release

LEMMA ReleaseAllStep ==
    ASSUME TypeOK, NEW o \in Orders, ReleaseAllForOrder(o)
    PROVE  Lease!ReleaseAllForOrder(o)
  <1> DEFINE gone == Expired(DOMAIN reservations)
             mine == {p \in DOMAIN reservations \ gone : reservations[p].order_id = o}
  <1>1. \A p \in Partners : p \in DOMAIN reservations \ gone <=> Running(p)
    BY DEF Expired, Running, TypeOK
  <1>2. mine = {p \in Partners : LeaseTable[p] = o}
    BY <1>1, RunningOrder, StoreAssumption DEF TypeOK
  <1>3. \A p \in gone : ~Running(p)
    BY DEF Expired, Running, TypeOK
  <1>4. Drop(gone \cup mine) /\ UNCHANGED now
    BY DEF ReleaseAllForOrder
  <1> HIDE DEF gone, mine
  <1>5. Lease!Clear(mine)
    BY <1>3, <1>4, DropClears
  <1> QED  BY <1>2, <1>5 DEF Lease!ReleaseAllForOrder

(* is_reserved and current_reservations evict, which nobody can see. *)
LEMMA ReadStep ==
    ASSUME TypeOK, NEW S, Drop(Expired(S)), UNCHANGED now
    PROVE  UNCHANGED <<LeaseTable, TimeLeft>>
  <1>1. \A p \in Expired(S) : ~Running(p)
    BY DEF Expired, Running, TypeOK
  <1>2. Expired(S) \cup {} = Expired(S)
    OBVIOUS
  <1>3. Lease!Clear({})
    BY <1>1, <1>2, DropClears
  <1> QED  BY <1>3, ClearNothing

LEMMA TickStep == TypeOK /\ Tick => Lease!Elapse
  <1> SUFFICES ASSUME TypeOK, Tick PROVE Lease!Elapse
    OBVIOUS
  <1>1. now \in Nat /\ now' = now + 1 /\ UNCHANGED <<reservations, expiry_deadlines>>
    BY DEF TypeOK, Tick
  <1>2. \A p \in Partners : Running(p) => expiry_deadlines[p] \in Nat
    BY DEF TypeOK, Running
  <1>3. \A p \in Partners :
           /\ Running(p)' <=> TimeLeft[p] > 1
           /\ TimeLeft[p] > 1 => Running(p)
    <2> TAKE p \in Partners
    <2>1. Running(p) => TimeLeft[p] = expiry_deadlines[p] - now
      BY DEF TimeLeft
    <2>2. ~Running(p) => TimeLeft[p] = 0
      BY DEF TimeLeft
    <2>3. Running(p)' <=> p \in DOMAIN reservations /\ now + 1 < expiry_deadlines[p]
      BY <1>1 DEF Running
    <2>4. Running(p) <=> p \in DOMAIN reservations /\ now < expiry_deadlines[p]
      BY DEF Running
    <2>5. p \in DOMAIN reservations => expiry_deadlines[p] \in Nat
      BY DEF TypeOK
    <2> QED  BY <1>1, <2>1, <2>2, <2>3, <2>4, <2>5
  <1>4. LeaseTable' = [p \in Partners |-> IF TimeLeft[p] > 1 THEN LeaseTable[p] ELSE NoOrder]
    BY <1>1, <1>3 DEF LeaseTable
  <1>5. TimeLeft' = [p \in Partners |-> IF TimeLeft[p] > 1 THEN TimeLeft[p] - 1 ELSE 0]
    BY <1>1, <1>2, <1>3 DEF TimeLeft
  <1> QED  BY <1>4, <1>5 DEF Lease!Elapse

LEMMA LeaseUnchanged ==
    UNCHANGED <<reservations, expiry_deadlines, now>> => UNCHANGED <<LeaseTable, TimeLeft>>
  BY DEF LeaseTable, TimeLeft, Running

(* Every method of the store is a step of the eager lease table or leaves  *)
(* it alone: deadlines, lazy eviction and the two clocks are not           *)
(* observable, for any set of partners and any ttl.                        *)
THEOREM StoreImplementsLease == Spec => ImplementsLease
  <1>1. Init => Lease!Init
    BY DEF Init, Empty, Lease!Init, LeaseTable, TimeLeft, Running
  <1>2. TypeOK /\ [Next]_storeVars => [Lease!Next]_(Lease!leaseVars)
    <2> SUFFICES ASSUME TypeOK, [Next]_storeVars
                 PROVE  Lease!Next \/ UNCHANGED <<LeaseTable, TimeLeft>>
      BY DEF Lease!leaseVars
    <2>1. CASE \E p \in Partners, o \in Orders : ReserveGranted(p, o)
      BY <2>1, GrantStep DEF Lease!Next
    <2>2. CASE \E p \in Partners, o \in Orders : ReserveDenied(p, o)
      BY <2>2, DenyStep DEF Lease!Next
    <2>3. CASE \E p \in Partners, o \in Orders : Release(p, o)
      BY <2>3, ReleaseStep DEF Lease!Next
    <2>4. CASE \E p \in Partners : IsReserved(p)
      BY <2>4, ReadStep DEF IsReserved
    <2>5. CASE \E o \in Orders : ReleaseAllForOrder(o)
      BY <2>5, ReleaseAllStep DEF Lease!Next
    <2>6. CASE CurrentReservations
      BY <2>6, ReadStep DEF CurrentReservations
    <2>7. CASE Tick
      BY <2>7, TickStep DEF Lease!Next
    <2>8. CASE StepWallClock
      BY <2>8, LeaseUnchanged DEF StepWallClock
    <2>9. CASE UNCHANGED storeVars
      BY <2>9, LeaseUnchanged DEF storeVars
    <2> QED  BY <2>1, <2>2, <2>3, <2>4, <2>5, <2>6, <2>7, <2>8, <2>9 DEF Next
  <1> QED  BY <1>1, <1>2, StoreTypes, PTL DEF Spec, ImplementsLease, Lease!Spec

(* Each method, called with its arguments, is the lease operation of the   *)
(* same name: a release or an abort frees exactly the named order's        *)
(* running leases.                                                         *)
THEOREM CallsAreLeaseCalls == Spec => CallsImplementLease
  <1> DEFINE Calls ==
        /\ \A p \in Partners, o \in Orders :
              /\ ReserveGranted(p, o) => Lease!Grant(p, o)
              /\ ReserveDenied(p, o) => Lease!Deny(p)
              /\ Release(p, o) => Lease!Release(p, o)
        /\ \A o \in Orders : ReleaseAllForOrder(o) => Lease!ReleaseAllForOrder(o)
        /\ Tick => Lease!Elapse
  <1>1. TypeOK => Calls
    BY GrantStep, DenyStep, ReleaseStep, ReleaseAllStep, TickStep
  <1>2. TypeOK /\ [Next]_storeVars => [Calls]_storeVars
    BY <1>1
  <1> QED  BY <1>2, StoreTypes, PTL DEF Spec, CallsImplementLease

-----------------------------------------------------------------------------
LEMMA ListingStep ==
    ASSUME TypeOK, CurrentReservations
    PROVE  TruthfulReply'
  <1> DEFINE gone == Expired(DOMAIN reservations)
             listed == {<<p, reservations[p].order_id>> : p \in DOMAIN reservations \ gone}
  <1>1. \A p : p \in DOMAIN reservations \ gone <=> Running(p)
    BY DEF Expired, Running, TypeOK
  <1>2. {p \in Partners : LeaseTable[p] # NoOrder} = DOMAIN reservations \ gone
    BY <1>1, RunningOrder DEF TypeOK
  <1>3. \A p \in DOMAIN reservations \ gone : LeaseTable[p] = reservations[p].order_id
    BY <1>1, RunningOrder DEF TypeOK
  <1>4. listed = {<<p, LeaseTable[p]>> : p \in {q \in Partners : LeaseTable[q] # NoOrder}}
    BY <1>2, <1>3
  <1>5. reply' = [call |-> "current", listed |-> listed]
    BY DEF CurrentReservations
  <1>6. LeaseTable' = LeaseTable
    BY ReadStep DEF CurrentReservations
  <1> HIDE DEF listed
  <1>7. reply'.call = "current" /\ reply'.listed = listed
    BY <1>5
  <1> QED  BY <1>4, <1>6, <1>7 DEF TruthfulReply

(* Whatever the history, the answer of a call is the one the lease table   *)
(* gives at that instant.                                                  *)
THEOREM RepliesAreTruthful == Spec => []TruthfulReply
  <1>1. Init => TruthfulReply
    BY DEF Init, NoReply, TruthfulReply
  <1>2. TypeOK /\ TruthfulReply /\ [Next]_storeVars => TruthfulReply'
    <2> SUFFICES ASSUME TypeOK, TruthfulReply, [Next]_storeVars PROVE TruthfulReply'
      OBVIOUS
    <2>1. CASE \E p \in Partners, o \in Orders : ReserveGranted(p, o)
      <3> PICK p \in Partners, o \in Orders : ReserveGranted(p, o)
        BY <2>1
      <3>1. LeaseTable'[p] = o /\ TimeLeft'[p] = Ttl
        BY GrantStep
      <3>2. reply' = [call |-> "reserve", partner |-> p, order |-> o, answer |-> TRUE]
        BY DEF ReserveGranted
      <3> QED  BY <3>1, <3>2 DEF TruthfulReply
    <2>2. CASE \E p \in Partners, o \in Orders : ReserveDenied(p, o)
      <3> PICK p \in Partners, o \in Orders : ReserveDenied(p, o)
        BY <2>2
      <3>1. LeaseTable'[p] # NoOrder
        BY DenyStep DEF Lease!Deny, Lease!Free, Lease!leaseVars
      <3>2. reply' = [call |-> "reserve", partner |-> p, order |-> o, answer |-> FALSE]
        BY DEF ReserveDenied
      <3> QED  BY <3>1, <3>2 DEF TruthfulReply
    <2>3. CASE \E p \in Partners : IsReserved(p)
      <3> PICK p \in Partners : IsReserved(p)
        BY <2>3
      <3>1. LeaseTable'[p] = LeaseTable[p]
        BY ReadStep DEF IsReserved
      <3>2. Held(p) <=> LeaseTable'[p] # NoOrder
        BY <3>1, HeldIsRunning, RunningOrder
      <3>3. reply' = [call |-> "is_reserved", partner |-> p, answer |-> Held(p)]
        BY DEF IsReserved
      <3>4. reply'.call = "is_reserved" /\ reply'.partner = p /\ reply'.answer = Held(p)
        BY <3>3
      <3>5. Held(p) \in BOOLEAN
        BY DEF Held
      <3> QED  BY <3>2, <3>4, <3>5 DEF TruthfulReply
    <2>4. CASE CurrentReservations
      BY <2>4, ListingStep
    <2>5. CASE reply' = NoReply
      BY <2>5 DEF NoReply, TruthfulReply
    <2>6. CASE UNCHANGED storeVars
      <3>1. UNCHANGED <<LeaseTable, TimeLeft, reply>>
        BY <2>6, LeaseUnchanged DEF storeVars
      <3> QED  BY <3>1 DEF TruthfulReply
    <2> QED
      BY <2>1, <2>2, <2>3, <2>4, <2>5, <2>6
      DEF Next, Release, ReleaseAllForOrder, Tick, StepWallClock
  <1> QED  BY <1>1, <1>2, StoreTypes, PTL DEF Spec

(* What readers are shown parts from what the store acts on only when the   *)
(* wall clock is stepped, and by as much.                                   *)
THEOREM ReportedExpiry == Spec => ReportedExpiryIsReal
  <1> DEFINE Steady ==
          wall' - wall = now' - now =>
              \A p \in Partners : Running(p)' =>
                  Drift(p)' = 0 \/ (Running(p) /\ Drift(p)' = Drift(p))
  <1>1. TypeOK /\ TypeOK' /\ [Next]_storeVars => [Steady]_storeVars
    <2> SUFFICES ASSUME TypeOK, TypeOK', Next, wall' - wall = now' - now,
                        NEW p \in Partners, Running(p)'
                 PROVE  Drift(p)' = 0 \/ (Running(p) /\ Drift(p)' = Drift(p))
      OBVIOUS
    <2>0. /\ Ttl \in Nat /\ now \in Nat /\ wall \in Nat /\ now' \in Nat /\ wall' \in Nat
          /\ p \in DOMAIN reservations' /\ now' < expiry_deadlines'[p]
          /\ reservations'[p].expires_at \in Nat /\ expiry_deadlines'[p] \in Nat
      BY StoreAssumption DEF TypeOK, Record, Running
    <2>1. Drift(p)' = reservations'[p].expires_at - wall' - (expiry_deadlines'[p] - now')
      BY DEF Drift, TimeLeft
    <2>2. CASE /\ p \in DOMAIN reservations
               /\ reservations'[p] = reservations[p]
               /\ expiry_deadlines'[p] = expiry_deadlines[p]
               /\ now <= now'
      <3>1. Running(p)
        BY <2>0, <2>2 DEF Running, TypeOK
      <3>2. Drift(p) = reservations[p].expires_at - wall - (expiry_deadlines[p] - now)
        BY <3>1 DEF Drift, TimeLeft
      <3> QED
        BY <2>0, <2>1, <2>2, <3>1, <3>2
    <2>3. ASSUME NEW q \in Partners, NEW o \in Orders, ReserveGranted(q, o)
          PROVE  Drift(p)' = 0 \/ (Running(p) /\ Drift(p)' = Drift(p))
      <3>1. CASE p = q
        <4>1. /\ reservations'[p].expires_at = wall + Ttl /\ expiry_deadlines'[p] = now + Ttl
              /\ now' = now /\ wall' = wall
          BY <2>3, <3>1 DEF ReserveGranted, Put
        <4> QED
          BY <2>0, <2>1, <4>1
      <3>2. CASE p # q
        BY <2>0, <2>2, <2>3, <3>2 DEF ReserveGranted, Put, TypeOK
      <3> QED
        BY <3>1, <3>2
    <2>4. ASSUME NEW S, Drop(S), UNCHANGED <<now, wall>>
          PROVE  Drift(p)' = 0 \/ (Running(p) /\ Drift(p)' = Drift(p))
      BY <2>0, <2>2, <2>4 DEF Drop, Pop, TypeOK
    <2>5. CASE Tick
      BY <2>0, <2>2, <2>5 DEF Tick
    <2>6. CASE StepWallClock
      BY <2>0, <2>2, <2>6 DEF StepWallClock
    <2> QED
      BY <2>3, <2>4, <2>5, <2>6
      DEF Next, ReserveDenied, Release, IsReserved, ReleaseAllForOrder, CurrentReservations
  <1> QED  BY <1>1, StoreTypes, PTL DEF Spec, ReportedExpiryIsReal
=============================================================================
