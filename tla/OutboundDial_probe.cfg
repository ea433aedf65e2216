SPECIFICATION Spec
CONSTANTS
    Client = {c1, c2}
    Worker = {w1, w2}
    Desired = 2
    MaxConcurrent = 2
    RetryMin = 1
    RetryMax = 2
    PermitLimit = 2
    Threshold = 2
    InitialCooldown = 1
    MaximumCooldown = 2
    MaxAttempts = 5
INVARIANTS
    ProbeIsFreshDial
