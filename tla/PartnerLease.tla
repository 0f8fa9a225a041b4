---------------------------- MODULE PartnerLease ----------------------------
(***************************************************************************)
(* What PartnerReservationStore promises its callers: a table of leases.   *)
(* A partner is leased to at most one order, the lease ends by itself Ttl  *)
(* time units after it was granted, and until then only a release naming   *)
(* the same order takes it away.  The store keeps deadlines and evicts     *)
(* lazily (module ReservationStore, which implements this one); here a     *)
(* lease carries the time it has left and disappears the moment that time  *)
(* is up.                                                                  *)
(***************************************************************************)
EXTENDS Naturals

CONSTANTS
    Partners,   \* partner ids
    Orders,     \* order ids
    NoOrder,    \* the holder of a partner nobody has reserved
    Ttl         \* ttl_seconds, in clock ticks

(* What the modules that use the table assume of these. *)
LeaseAssumption ==
    /\ NoOrder \notin Orders
    /\ Ttl \in Nat \ {0}

VARIABLES
    lease,      \* lease[p]: the order partner p is reserved for, or NoOrder
    left        \* left[p]: ticks until the lease of p ends, 0 when there is none

leaseVars == <<lease, left>>

Init ==
    /\ lease = [p \in Partners |-> NoOrder]
    /\ left = [p \in Partners |-> 0]

Free(p) == lease[p] = NoOrder

(* reserve() answers True: the partner was free. *)
Grant(p, o) ==
    /\ Free(p)
    /\ lease' = [lease EXCEPT ![p] = o]
    /\ left' = [left EXCEPT ![p] = Ttl]

(* reserve() answers False: somebody, perhaps the same order, holds p. *)
Deny(p) ==
    /\ ~Free(p)
    /\ UNCHANGED leaseVars

(* The table once the partners in S are free. *)
Clear(S) ==
    /\ lease' = [p \in Partners |-> IF p \in S THEN NoOrder ELSE lease[p]]
    /\ left' = [p \in Partners |-> IF p \in S THEN 0 ELSE left[p]]

(* release(p, o) acts only when it is o that holds p. *)
Release(p, o) == Clear({q \in {p} : lease[q] = o})

ReleaseAllForOrder(o) == Clear({q \in Partners : lease[q] = o})

(* Mutant: a lease whose time is up is not evicted. *)
ElapseOnly ==
    /\ left' = [p \in Partners |-> IF left[p] > 1 THEN left[p] - 1 ELSE 0]
    /\ UNCHANGED lease

(* One tick of the monotonic clock. *)
Elapse ==
    /\ lease' = [p \in Partners |-> IF left[p] > 1 THEN lease[p] ELSE NoOrder]
    /\ left' = [p \in Partners |-> IF left[p] > 1 THEN left[p] - 1 ELSE 0]

(* The process that keeps the table in its memory is restarted. *)
Restart ==
    /\ lease' = [p \in Partners |-> NoOrder]
    /\ left' = [p \in Partners |-> 0]

Next ==
    \/ \E p \in Partners, o \in Orders : Grant(p, o) \/ Release(p, o)
    \/ \E p \in Partners : Deny(p)
    \/ \E o \in Orders : ReleaseAllForOrder(o)
    \/ Elapse

Spec == Init /\ [][Next]_leaseVars

-----------------------------------------------------------------------------
TypeOK ==
    /\ lease \in [Partners -> Orders \cup {NoOrder}]
    /\ left \in [Partners -> 0..Ttl]

(* A partner is leased exactly as long as its lease has time left. *)
LeaseIffTimeLeft == \A p \in Partners : Free(p) <=> left[p] = 0

(* A lease never passes from one order to another without the partner being *)
(* free in between, and never gets more time while it lasts.                *)
NoHandover ==
    [][\A p \in Partners :
          ~Free(p) /\ ~Free(p)' => lease'[p] = lease[p] /\ left'[p] <= left[p]]_leaseVars
=============================================================================
