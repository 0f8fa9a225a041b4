------------------------ MODULE PartnerLease_proofs ------------------------
(***************************************************************************)
(* Theorems about the lease table.  ReservationStore implements it, so     *)
(* they hold of the dictionaries of the store as well.                     *)
(***************************************************************************)
EXTENDS PartnerLease, TLAPS

LeaseInv == TypeOK /\ LeaseIffTimeLeft

LEMMA LeaseStep ==
  ASSUME LeaseAssumption
  PROVE  LeaseInv /\ [Next]_leaseVars => LeaseInv'
  <1> SUFFICES ASSUME LeaseInv, [Next]_leaseVars PROVE LeaseInv'
    OBVIOUS
  <1> USE DEF LeaseAssumption, LeaseInv, TypeOK, LeaseIffTimeLeft, Free
  <1>1. ASSUME NEW p \in Partners, NEW o \in Orders, Grant(p, o) PROVE LeaseInv'
    BY <1>1 DEF Grant
  <1>2. ASSUME NEW S, Clear(S) PROVE LeaseInv'
    BY <1>2 DEF Clear
  <1>3. CASE Elapse
    BY <1>3 DEF Elapse
  <1>4. CASE UNCHANGED leaseVars
    BY <1>4 DEF leaseVars
  <1> QED
    BY <1>1, <1>2, <1>3, <1>4 DEF Next, Deny, Release, ReleaseAllForOrder

(* A partner is leased exactly as long as its lease has time left: there    *)
(* is neither a lease without an end nor time running for nobody.           *)
THEOREM LeasesHaveTime ==
  ASSUME LeaseAssumption PROVE Spec => []LeaseIffTimeLeft
  <1>1. Init => LeaseInv
    BY DEF LeaseAssumption, Init, LeaseInv, TypeOK, LeaseIffTimeLeft, Free
  <1>2. LeaseInv => LeaseIffTimeLeft
    BY DEF LeaseInv
  <1> QED  BY <1>1, <1>2, LeaseStep, PTL DEF Spec

(* Between two orders a partner is free, and a lease is never prolonged.    *)
THEOREM LeasesPassThroughFree ==
  ASSUME LeaseAssumption PROVE Spec => NoHandover
  <1> DEFINE Kept == \A p \in Partners :
                ~Free(p) /\ ~Free(p)' => lease'[p] = lease[p] /\ left'[p] <= left[p]
  <1>1. Init => LeaseInv
    BY DEF LeaseAssumption, Init, LeaseInv, TypeOK, LeaseIffTimeLeft, Free
  <1>2. LeaseInv /\ [Next]_leaseVars => [Kept]_leaseVars
    <2> SUFFICES ASSUME LeaseInv, Next PROVE Kept
      OBVIOUS
    <2> USE DEF LeaseAssumption, LeaseInv, TypeOK, Free
    <2>1. ASSUME NEW p \in Partners, NEW o \in Orders, Grant(p, o) PROVE Kept
      BY <2>1 DEF Grant
    <2>2. ASSUME NEW S, Clear(S) PROVE Kept
      BY <2>2 DEF Clear
    <2>3. CASE Elapse
      BY <2>3 DEF Elapse
    <2>4. CASE UNCHANGED leaseVars
      BY <2>4 DEF leaseVars
    <2> QED
      BY <2>1, <2>2, <2>3, <2>4 DEF Next, Deny, Release, ReleaseAllForOrder
  <1> QED  BY <1>1, <1>2, LeaseStep, PTL DEF Spec, NoHandover
=============================================================================
