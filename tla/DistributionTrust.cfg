SPECIFICATION Spec
CONSTANTS
    KeyId = {k1, k2}
    Usage = {Auth}
    Signer = {signer}
    Verifier = {verifier}
    CacheTicks = 1
    RetryTicks = 1
    TokenTicks = 4
    LeewayTicks = 1
    RotationSeconds = 1
    TTLSeconds = 2
    BatchSize = 3
    JobPeriod = 3
    MaxLag = 0
    MaxDelay = 1
    MaxClock = 8
    MaxTokens = 1
    MaxRevoked = 1
    Rotation <- SameRotation
    TTL <- SameTTL
    Cache <- SameCache
    Retry <- SameRetry
    TokenTTL <- SameTokenTTL
    Leeway <- SameLeeway
SYMMETRY KeyIdSymmetry
INVARIANT TrustBounded
PROPERTIES SignedByRecentMain RingSpec
