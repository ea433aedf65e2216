SPECIFICATION FairSpec
CONSTANTS
    Request = {q1}
    Key = {k1}
    Gen = {g1, g2}
    KeyOf <- MCKeyOf
    IPOf <- MCIPOf
    None = None
    Steps <- MCSteps
    AbortDelay = 1
    Window = 1
    Grace = 1
    MinDuration = 1
    MaxDuration = 2
    HealthyCount = 2
    MaxToken = 3
INVARIANTS
    CohortExact
    ProbationOwned
PROPERTIES
    EvidenceIsOwn
    JoinedHoleKept
    RuleMovesOn
CHECK_DEADLOCK FALSE
