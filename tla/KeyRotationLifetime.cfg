SPECIFICATION FairSpec
CONSTANTS
    Auth = Auth
    Refresh = Refresh
    Cron = Cron
    Replica = Replica
    NoUsage = NoUsage
    KeyId = {1, 2, 3, 4, 5, 6}
    Usage = {Auth}
    Job = {Cron, Replica}
    Rotation <- ShortRotation
    TTL <- ShortTTL
    Skew <- TwoWays
    Overlap = FALSE
    RevokeLead = {4}
    MaxRevoked = 2
    MaxClock = 9
CONSTRAINT IdsInOrder
INVARIANTS TypeOK ActiveSpaced SingleMainKey ActiveBounded
PROPERTIES WithdrawnForGood RingSpec RotationResumes
