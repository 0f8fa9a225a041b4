--------------------------- MODULE MCStoreSingleton ---------------------------
(***************************************************************************)
(* Instances of StoreSingleton with three callers: one of them may race    *)
(* the first call of another and meet the third, or come after both.       *)
(***************************************************************************)
EXTENDS StoreSingleton

CONSTANTS c1, c2, c3

ThreeCallers == {c1, c2, c3}
=============================================================================
