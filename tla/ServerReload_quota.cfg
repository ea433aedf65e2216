SPECIFICATION Spec
CONSTANTS
    Conn = {c1, c2}
    Key = {k1, k2}
    Address = {i1}
    MaxGen = 3
    MaxRetired = 1
    GlobalLimit = 2
    RuleLimit = 1
    AddressLimit = 1
INVARIANTS
    QuotaPerAddress
CHECK_DEADLOCK FALSE
