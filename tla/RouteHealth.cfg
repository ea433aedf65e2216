SPECIFICATION RegistryFairSpec
CONSTANTS
    Client = {c1, c2, c3}
    Route = {r1}
    Setup = {g1}
    Private = private
    Threshold = 2
    InitialCooldown = 1
    MaximumCooldown = 2
    MaxAttempts = 4
INVARIANTS
    BreakerSound
    FenceSeparates
PROPERTIES
    NoPreRecoveryEvidence
    OnlyProbeDecides
    CircuitBecomesProbeable
