SPECIFICATION Spec
CONSTANTS
    Slot = {s1, s2}
    q1 = q1
    Request = {q1, q2}
    Rule = {"mixed", "only"}
    RuleOf <- MCRuleOf
    MixedRule = {"mixed"}
    KindOf <- MCKindOf
    Reason = {"hole"}
    None = None
    MaxTransports = 2
    Streams = 2
    MaxOld = 1
INVARIANTS
    RotationSound
    NoConnectionEscapes
    NeighbourSpared
CHECK_DEADLOCK FALSE
SYMMETRY SlotSymmetry
