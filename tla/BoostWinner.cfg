SPECIFICATION Spec
CONSTANTS
    Request = {r1, r2}
    Key = {k1, k2}
    Target = {a1, a2}
    NoTarget = NoTarget
    TTL = 1
    MaxEntries = 1
    MaxGen = 3
SYMMETRY Symmetry
INVARIANTS
    DecisionExact
    TokenExact
