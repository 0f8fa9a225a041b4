-------------------------- MODULE MCAllocateRequest --------------------------
(***************************************************************************)
(* Instances of AllocateRequest.  Request first allocates two orders, and  *)
(* both want p1 best; retry is the same POST sent again under the same     *)
(* key; other comes from another client, for an order of its own, and      *)
(* competes for the same two partners.  Request empty carries no partners. *)
(***************************************************************************)
EXTENDS AllocateRequest

CONSTANTS first, retry, other, empty, p1, p2, o1, o2, o3, k1, k2, in1, in2, cfg1

ThreeRequests == {first, retry, other}
RacingRequests == {first, retry, empty}
FirstAndOther == {first, other}
FirstAndRetry == {first, retry}
MCKeys == {k1, k2}
MCPartners == {p1, p2}
MCOrders == {o1, o2, o3}
MCInputs == {in1, in2}
MCConfigs == {cfg1}

Ranked(o, s) == [order |-> o, ranked |-> s]
TwoOrders == <<Ranked(o1, <<p1, p2>>), Ranked(o2, <<p1, p2>>)>>
OneOrder == <<Ranked(o3, <<p2, p1>>)>>

(* One value per request of the instance, alone for the other client. *)
PerRequest(mine, others) ==
    [r \in Requests |-> IF r \in {first, retry} THEN mine ELSE others]

MCPlan == PerRequest(TwoOrders, OneOrder)
MCKeyOf == PerRequest(k1, k2)
MCInputOf == PerRequest(in1, in2)
MCConfigOf == PerRequest(cfg1, cfg1)

None == {}
OtherOnly == {other}
EmptyOnly == {empty}
=============================================================================
