SPECIFICATION Spec
CONSTANTS
    Auth = Auth
    Refresh = Refresh
    KeyId = {k1, k2, k3, k4, k5, k6, k7, k8, k9}
    Usage = {Auth, Refresh}
    Server = {server}
    Master = {old, new}
    Rotation <- TwoPaces
    TTL <- TwoLives
    JobPeriod = 2
    MaxClock = 14
    MaxChanges = 2
    MaxRevoked = 1
INVARIANTS TypeOK ReissueBounded SigningRecovers
PROPERTIES SuccessMeansUsable RingSpec
