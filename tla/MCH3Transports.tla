--------------------------- MODULE MCH3Transports ---------------------------
(***************************************************************************)
(* Instances of H3Transports: requests of a mixed rule and of an HTTP/3    *)
(* only rule share the endpoint.                                           *)
(***************************************************************************)
EXTENDS H3Transports, TLC

CONSTANTS q1
MCRuleOf == [q \in Request |-> IF q = q1 THEN "mixed" ELSE "only"]
MCKindOf == [q \in Request |-> IF q = q1 THEN {"managed", "probation"} ELSE {"client"}]
SlotSymmetry == Permutations(Slot)
=============================================================================
