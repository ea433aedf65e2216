SPECIFICATION Spec
CONSTANTS
    Request = {r1, r2, r3}
    Selector = {s1}
    Mixed = {}
    Protocols <- MCProtocols
    CooldownBase = 1
    CooldownMax = 1
    DegradedBase = 1
    DegradedMax = 1
    StrikeWindow = 1
    CanaryInterval = 1
    Fault = {"capacity", "transport"}
    MaxDegradations = 2
SYMMETRY Symmetry
INVARIANTS
    WindowNotOrphaned
    WindowExact
    OneProbe
PROPERTIES
    CooldownEarned
CHECK_DEADLOCK FALSE
