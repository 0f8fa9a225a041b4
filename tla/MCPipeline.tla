------------------------------ MODULE MCPipeline ------------------------------
(***************************************************************************)
(* Instances of Pipeline: one or two orders, three partner rows of which   *)
(* two may carry one id, and every payload over small scores and loads.    *)
(***************************************************************************)
EXTENDS Pipeline

MCPartnerId == <<1, 2, 2>>

Payload(f, b, l) == [fails |-> f, base |-> b, load |-> l]

(* At most one pair is turned down whatever the load is. *)
Failing == {{}} \cup {{x} : x \in OrderRows \X PartnerRows}

(* Low scores, so that the fairness score often decides; a load below 0     *)
(* counts as 0.  The weighted scores come to 0, 3, 6 and 9, and with a       *)
(* Grain of 4 the last two are rounded to the same: near ties of different  *)
(* scores, in which the smaller id may have the lower one.                  *)
LowScores == [OrderRows \X PartnerRows -> {0, 3}]
MCPayloads == {Payload(f, b, l) : f \in Failing, b \in LowScores, l \in [Ids -> {-1, 1, 2}]}
=============================================================================
