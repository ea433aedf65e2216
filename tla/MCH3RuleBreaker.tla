--------------------------- MODULE MCH3RuleBreaker ---------------------------
(***************************************************************************)
(* Instances of H3RuleBreaker: a request and the black holes of one rule.  *)
(***************************************************************************)
EXTENDS H3RuleBreaker

MCKeyOf == [g \in Gen |-> CHOOSE k \in Key : TRUE]
MCIPOf == [g \in Gen |-> "ip"]
MCSteps == <<1, 1>>

=============================================================================
