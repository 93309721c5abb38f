\* Two usages, a key without a public half, a key sealed by another master key.
SPECIFICATION Spec
CONSTANTS
    auth = auth
    refresh = refresh
    k1 = k1
    k2 = k2
    k3 = k3
    k4 = k4
    c1 = c1
    KeyId = {k1, k2, k3, k4}
    Usage <- MCUsage
    Rotation <- MCRotation
    TTL <- MCTTL
    Client = {c1}
    Symmetric = {k1}
    Foreign = {k2}
    Unknown = unknown
    Malformed = malformed
    BatchSize = 2
    MaxClock = 7
    MaxRevoked = 1
INVARIANTS TypeOK PublicHalvesOnly FailureExplained
PROPERTIES DirectorySpec
CHECK_DEADLOCK FALSE
