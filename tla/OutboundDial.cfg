SPECIFICATION FairSpec
CONSTANTS
    Client = {c1, c2}
    Worker = {w1, w2}
    Desired = 2
    MaxConcurrent = 2
    RetryMin = 2
    RetryMax = 3
    PermitLimit = 1
    Threshold = 2
    InitialCooldown = 1
    MaximumCooldown = 1
    MaxAttempts = 4
INVARIANTS
    PoolBounded
    PermitsBalanced
PROPERTIES
    ShutdownDrains
