SPECIFICATION Spec
CONSTANTS
    Auth = Auth
    Refresh = Refresh
    Cron = Cron
    Replica = Replica
    NoUsage = NoUsage
    KeyId = {k1, k2}
    Usage = {Auth}
    Job = {Cron}
    Rotation <- ShortRotation
    TTL <- ShortTTL
    Skew <- NoSkew
    Overlap = FALSE
    RevokeLead = {0}
    MaxRevoked = 1
    MaxClock = 4
INVARIANT RevokedNotServed
