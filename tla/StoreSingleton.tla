---------------------------- MODULE StoreSingleton ----------------------------
(***************************************************************************)
(* reservation/store.py, get_reservation_store: the store all request      *)
(* threads share is created by the first call that finds none, and the     *)
(* check, the creation and the return read and write a module global       *)
(* without a lock.  A request calls it once before its reservations and    *)
(* again before it releases them (allocate.py).  The requests here want    *)
(* one and the same partner, each for an order of its own, and are over    *)
(* well within the ttl.                                                    *)
(***************************************************************************)
CONSTANTS
    Callers,    \* the requests
    NoStore,    \* _store_instance is None
    Nobody,     \* the partner is not reserved
    Early       \* the store made by a call before the requests came

ASSUME SingletonAssumption ==
    /\ {NoStore, Nobody, Early} \cap Callers = {}
    /\ NoStore # Early

VARIABLES
    warm,       \* was there such a call?
    instance,   \* _store_instance; a store is named after its creator
    holder,     \* holder[s]: who has the partner reserved in store s
    pc,         \* where caller c is
    store       \* the store that get_reservation_store returned to c

vars == <<warm, instance, holder, pc, store>>

Stores == Callers \cup {Early}

Init ==
    /\ warm \in BOOLEAN
    /\ instance = IF warm THEN Early ELSE NoStore
    /\ holder = [s \in Stores |-> Nobody]
    /\ pc = [c \in Callers |-> "start"]
    /\ store = [c \in Callers |-> NoStore]

Goto(c, from, to) == pc[c] = from /\ pc' = [pc EXCEPT ![c] = to]

(* Mutant: the store that is there is not looked for. *)
CheckNothing(c) ==
    /\ Goto(c, "start", "creating")
    /\ UNCHANGED <<warm, instance, holder, store>>

(* if _store_instance is None *)
Check(c) ==
    /\ Goto(c, "start", IF instance = NoStore THEN "creating" ELSE "returning")
    /\ UNCHANGED <<warm, instance, holder, store>>

(* _store_instance = PartnerReservationStore() *)
Create(c) ==
    /\ Goto(c, "creating", "returning")
    /\ instance' = c
    /\ UNCHANGED <<warm, holder, store>>

(* return _store_instance, whichever it is by now *)
Return(c) ==
    /\ Goto(c, "returning", "reserving")
    /\ store' = [store EXCEPT ![c] = instance]
    /\ UNCHANGED <<warm, instance, holder>>

(* reserve() answers True. *)
ReserveGranted(c) ==
    /\ Goto(c, "reserving", "granted")
    /\ holder[store[c]] = Nobody
    /\ holder' = [holder EXCEPT ![store[c]] = c]
    /\ UNCHANGED <<warm, instance, store>>

(* reserve() answers False. *)
ReserveDenied(c) ==
    /\ Goto(c, "reserving", "done")
    /\ holder[store[c]] # Nobody
    /\ UNCHANGED <<warm, instance, holder, store>>

(* get_reservation_store again, which finds a store. *)
Refetch(c) ==
    /\ Goto(c, "granted", "releasing")
    /\ store' = [store EXCEPT ![c] = instance]
    /\ UNCHANGED <<warm, instance, holder>>

(* Mutant: the release is forgotten. *)
ReleaseForgotten(c) ==
    /\ Goto(c, "releasing", "done")
    /\ UNCHANGED <<warm, instance, holder, store>>

(* release(), or release_all_for_order(): only the order's own reservation *)
(* goes, if it is in this store at all.                                    *)
Release(c) ==
    /\ Goto(c, "releasing", "done")
    /\ holder' = [holder EXCEPT ![store[c]] = IF @ = c THEN Nobody ELSE @]
    /\ UNCHANGED <<warm, instance, store>>

Next ==
    \E c \in Callers :
        \/ Check(c) \/ Create(c) \/ Return(c)
        \/ ReserveGranted(c) \/ ReserveDenied(c)
        \/ Refetch(c) \/ Release(c)

Spec == Init /\ [][Next]_vars

-----------------------------------------------------------------------------
TypeOK ==
    /\ warm \in BOOLEAN
    /\ instance \in Stores \cup {NoStore}
    /\ holder \in [Stores -> Callers \cup {Nobody}]
    /\ pc \in [Callers -> {"start", "creating", "returning", "reserving",
                           "granted", "releasing", "done"}]
    /\ store \in [Callers -> Stores \cup {NoStore}]

(* The partner is promised to one request at a time: of all the callers     *)
(* that were told True, at most one has not released it.                    *)
PartnerHeldOnce ==
    \A c, d \in Callers :
        pc[c] \in {"granted", "releasing"} /\ pc[d] \in {"granted", "releasing"} => c = d

(* After one call that nobody raced, all later requests share the store.    *)
WarmExclusion == warm => PartnerHeldOnce

(* A caller never gets None, and a reservation in the store in use will be  *)
(* released by its request: one that was made in a store replaced since, or *)
(* released in the wrong store, is never left where later requests look.    *)
LiveStoreIsClean ==
    /\ \A c \in Callers : pc[c] \in {"reserving", "granted", "releasing"} => store[c] # NoStore
    /\ \A c \in Callers :
          instance # NoStore /\ holder[instance] = c => pc[c] \in {"granted", "releasing"}

(* Inductive, and implies WarmExclusion. *)
WarmInv ==
    /\ TypeOK
    /\ warm => instance = Early
    /\ warm => \A c \in Callers :
          /\ pc[c] # "creating"
          /\ pc[c] \in {"reserving", "granted", "releasing"} => store[c] = Early
          /\ pc[c] \in {"granted", "releasing"} => holder[Early] = c

(* Inductive from either start, and implies LiveStoreIsClean: a store that   *)
(* was used is old, and the instance only moves on to new ones.             *)
CleanInv ==
    /\ TypeOK
    /\ \A c \in Callers :
          /\ pc[c] \notin {"start", "creating"} => instance # NoStore
          /\ pc[c] \in {"reserving", "granted", "releasing"} => store[c] # NoStore
          /\ pc[c] \in {"start", "creating"} => holder[c] = Nobody /\ instance # c
    /\ \A c, d \in Callers : pc[d] \in {"start", "creating"} => store[c] # d
    /\ \A c \in Callers, s \in Stores : holder[s] = c =>
          \/ pc[c] = "granted"
          \/ pc[c] = "releasing" /\ (s = store[c] \/ s # instance)
          \/ pc[c] = "done" /\ s # instance
=============================================================================
