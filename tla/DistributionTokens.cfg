SPECIFICATION Spec
CONSTANTS
    KeyId = {k1, k2, k3, k4}
    Usage = {Auth}
    Signer = {signer}
    Verifier = {verifier}
    CacheTicks = 3
    RetryTicks = 2
    TokenTicks = 2
    LeewayTicks = 1
    RotationSeconds = 1
    TTLSeconds = 4
    BatchSize = 5
    JobPeriod = 1
    MaxLag = 0
    MaxDelay = 1
    MaxClock = 12
    MaxTokens = 1
    MaxRevoked = 0
    Rotation <- SameRotation
    TTL <- SameTTL
    Cache <- SameCache
    Retry <- SameRetry
    TokenTTL <- SameTokenTTL
    Leeway <- SameLeeway
SYMMETRY KeyIdSymmetry
INVARIANTS TypeOK TokenOutlivedByKey TurnedAwayForCause
