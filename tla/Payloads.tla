------------------------------- MODULE Payloads -------------------------------
(***************************************************************************)
(* The forms an order and a partner take on their way: JSON of a request   *)
(* (api/schemas.py), domain object (_to_domain_* in allocate.py), row of   *)
(* the stored snapshot (engine/manifest.py), domain object again           *)
(* (engine/replay.py), and the payload of a partner_pool mutation          *)
(* (simulation/counterfactual.py).  Fields no rule reads are left out      *)
(* (names, amounts, dates, delivery locations, cities).  A latitude and    *)
(* longitude are one position; Fine positions make up one step of the      *)
(* eighth decimal place, to which the snapshot rounds.                     *)
(***************************************************************************)
EXTENDS Rules

CONSTANT Fine

CoreVehicles == {"bike", "scooter", "car"}
RawToCore == [MOTORCYCLE |-> "bike", SCOOTER |-> "scooter", ELECTRIC_SCOOTER |-> "scooter"]

ASSUME PayloadsAssumption == Fine \in Nat \ {0} /\ None \notin DOMAIN RawToCore

(* What the schemas take an order and a partner of a request to be, and a   *)
(* partner of a mutation.                                                   *)
IsOrderJson(json) ==
    json.pos \in Int \cup {None} /\ json.restaurant_location \in Int \cup {None}
IsPartnerJson(json) ==
    /\ json.pos \in Int \cup {None} /\ json.current_location \in Int \cup {None}
    /\ {json.id, json.rating, json.load, json.condition, json.avg_time} \subseteq Int
IsPartnerPayload(p) == {p.id, p.pos, p.rating} \subseteq Int

(* str(value).strip().upper(), for the spellings explored; a blank string   *)
(* is as good as None.                                                      *)
Upper(v) == Get([motorcycle |-> "MOTORCYCLE", scooter |-> "SCOOTER", bike |-> "BIKE"], v, v)

CoerceVehicle(v) == IF v \in CoreVehicles THEN v ELSE Get(RawToCore, Upper(v), None)
(* Mutant: as it is written. *)
CoerceRawAsSent(v) == IF v \in DOMAIN RawToCore THEN v ELSE None
CoerceRaw(v) == IF Upper(v) \in DOMAIN RawToCore THEN Upper(v) ELSE None

(* value or other *)
Or(v, other) == IF v = None THEN other ELSE v

(* OrderIn.normalize_payload, or None when it or the field types reject. *)
NormalizedOrder(json) ==
    LET pos == Or(json.pos, json.restaurant_location)
        vehicle == CoerceVehicle(Or(json.vehicle, Or(json.required, json.required_raw)))
    IN  IF pos = None \/ vehicle = None THEN None
        ELSE [id |-> json.id, pos |-> pos, vehicle |-> vehicle,
              weather |-> json.weather, traffic |-> json.traffic]

(* PartnerIn.normalize_payload: a raw_vehicle_type that is not one of the   *)
(* three known stays as it was sent.                                        *)
NormalizedPartner(json) ==
    LET pos == Or(json.pos, json.current_location)
        single == CoerceVehicle(Or(json.vehicle_type, json.raw))
        types == IF json.types = {} /\ single # None THEN {single} ELSE json.types
        raw == CoerceRaw(Or(json.raw, json.vehicle_type))
    IN  IF pos = None \/ types = {} \/ ~(types \subseteq CoreVehicles) THEN None
        ELSE [id |-> json.id, pos |-> pos, available |-> json.available,
              active |-> json.active, rating |-> json.rating, types |-> types,
              load |-> json.load, condition |-> json.condition,
              avg_time |-> json.avg_time, raw |-> Or(raw, json.raw)]

AllAccepted(normalized) == \A k \in DOMAIN normalized : normalized[k] # None

(* round(x, 8) *)
Kept(pos) == Fine * ((pos + Fine \div 2) \div Fine)

(* serialize_orders, serialize_partners, and back: snapshot_to_orders,      *)
(* snapshot_to_partners.  Both lists are sorted by id already.              *)
Restored(rows) == [k \in DOMAIN rows |-> [rows[k] EXCEPT !.pos = Kept(@)]]

(* PartnerPayload.model_dump(), read back by snapshot_to_partners: whatever *)
(* the payload has no field for gets its default.                           *)
RebuiltPartner(p) ==
    [id |-> p.id, pos |-> p.pos, available |-> p.available, active |-> p.active,
     rating |-> p.rating, types |-> p.types,
     load |-> 0, condition |-> 1, avg_time |-> 30, raw |-> None]

(* VehicleType(v) raises ValueError for anything else. *)
Restorable(partners) == \A k \in DOMAIN partners : partners[k].types \subseteq CoreVehicles
=============================================================================
