------------------------- MODULE StoreSingleton_proofs -------------------------
(***************************************************************************)
(* What the unsynchronised creation of the store does not break, for any   *)
(* number of callers.                                                      *)
(***************************************************************************)
EXTENDS StoreSingleton, TLAPS

(* With a store in place no caller creates another, and the one who is      *)
(* told True is the holder in it.                                           *)
LEMMA WarmInduction == Spec => []WarmInv
<1>1. Init => WarmInv
  BY SingletonAssumption DEF Init, WarmInv, TypeOK, Stores
<1>2. WarmInv /\ [Next]_vars => WarmInv'
  <2> SUFFICES ASSUME WarmInv, [Next]_vars PROVE WarmInv'
    OBVIOUS
  <2> USE SingletonAssumption DEF WarmInv, TypeOK, Stores, Goto
  <2>1. ASSUME NEW c \in Callers, Check(c) PROVE WarmInv'
    BY <2>1 DEF Check
  <2>2. ASSUME NEW c \in Callers, Create(c) PROVE WarmInv'
    BY <2>2 DEF Create
  <2>3. ASSUME NEW c \in Callers, Return(c) PROVE WarmInv'
    BY <2>3 DEF Return
  <2>4. ASSUME NEW c \in Callers, ReserveGranted(c) PROVE WarmInv'
    BY <2>4 DEF ReserveGranted
  <2>5. ASSUME NEW c \in Callers, ReserveDenied(c) PROVE WarmInv'
    BY <2>5 DEF ReserveDenied
  <2>6. ASSUME NEW c \in Callers, Refetch(c) PROVE WarmInv'
    BY <2>6 DEF Refetch
  <2>7. ASSUME NEW c \in Callers, Release(c) PROVE WarmInv'
    BY <2>7 DEF Release
  <2>8. CASE UNCHANGED vars
    BY <2>8 DEF vars
  <2> QED
    BY <2>1, <2>2, <2>3, <2>4, <2>5, <2>6, <2>7, <2>8 DEF Next
<1> QED
  BY <1>1, <1>2, PTL DEF Spec

(* Requests that come after the first call never share the partner.         *)
THEOREM LateRequestsExclude == Spec => []WarmExclusion
<1>1. WarmInv => WarmExclusion
  BY DEF WarmInv, WarmExclusion, PartnerHeldOnce
<1> QED
  BY <1>1, WarmInduction, PTL

-----------------------------------------------------------------------------
LEMMA CleanInductive == CleanInv /\ [Next]_vars => CleanInv'
<1> SUFFICES ASSUME CleanInv, [Next]_vars PROVE CleanInv'
  OBVIOUS
<1> USE SingletonAssumption DEF CleanInv, TypeOK, Stores, Goto
<1>1. ASSUME NEW c \in Callers, Check(c) PROVE CleanInv'
  BY <1>1 DEF Check
<1>2. ASSUME NEW c \in Callers, Create(c) PROVE CleanInv'
  BY <1>2 DEF Create
<1>3. ASSUME NEW c \in Callers, Return(c) PROVE CleanInv'
  BY <1>3 DEF Return
<1>4. ASSUME NEW c \in Callers, ReserveGranted(c) PROVE CleanInv'
  BY <1>4 DEF ReserveGranted
<1>5. ASSUME NEW c \in Callers, ReserveDenied(c) PROVE CleanInv'
  BY <1>5 DEF ReserveDenied
<1>6. ASSUME NEW c \in Callers, Refetch(c) PROVE CleanInv'
  BY <1>6 DEF Refetch
<1>7. ASSUME NEW c \in Callers, Release(c) PROVE CleanInv'
  BY <1>7 DEF Release
<1>8. CASE UNCHANGED vars
  BY <1>8 DEF vars
<1> QED
  BY <1>1, <1>2, <1>3, <1>4, <1>5, <1>6, <1>7, <1>8 DEF Next

(* However the first calls race, no request is handed None, and the store   *)
(* in use keeps no reservation that nobody will release.                    *)
THEOREM NothingLeftBehind == Spec => []LiveStoreIsClean
<1>1. Init => CleanInv
  BY SingletonAssumption DEF Init, CleanInv, TypeOK, Stores
<1>2. CleanInv => LiveStoreIsClean
  BY SingletonAssumption DEF CleanInv, LiveStoreIsClean, TypeOK, Stores
<1> QED
  BY <1>1, <1>2, CleanInductive, PTL DEF Spec
=============================================================================
