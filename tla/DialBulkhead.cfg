SPECIFICATION BulkheadFairSpec
CONSTANTS
    Dialer = {d1, d2, d3}
    Target = {t1, t2, t3}
    GlobalLimit = 2
    PerTargetLimit = 1
INVARIANTS
    SlotsExact
    NoGrantableWaiter
PROPERTIES
    NoOvertaking
    EveryCallSettles
CHECK_DEADLOCK TRUE
