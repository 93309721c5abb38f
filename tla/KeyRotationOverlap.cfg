SPECIFICATION Spec
CONSTANTS
    Auth = Auth
    Refresh = Refresh
    Cron = Cron
    Replica = Replica
    NoUsage = NoUsage
    KeyId = {k1, k2, k3, k4}
    Usage = {Auth, Refresh}
    Job = {Cron, Replica}
    Rotation <- ShortRotation
    TTL <- ShortTTL
    Skew <- TwoWays
    Overlap = TRUE
    RevokeLead = {0}
    MaxRevoked = 1
    MaxClock = 3
SYMMETRY KeyIdSymmetry
INVARIANT AllOrNothing
PROPERTY SuccessEnsuresEveryUsage
