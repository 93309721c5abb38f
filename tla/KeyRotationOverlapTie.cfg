SPECIFICATION Spec
CONSTANTS
    Auth = Auth
    Refresh = Refresh
    Cron = Cron
    Replica = Replica
    NoUsage = NoUsage
    KeyId = {k1, k2, k3}
    Usage = {Auth}
    Job = {Cron, Replica}
    Rotation <- ShortRotation
    TTL <- ShortTTL
    Skew <- NoSkew
    Overlap = TRUE
    RevokeLead = {}
    MaxRevoked = 0
    MaxClock = 2
INVARIANT SingleMainKey
