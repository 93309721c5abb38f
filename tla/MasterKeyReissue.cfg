SPECIFICATION Spec
CONSTANTS
    Auth = Auth
    Refresh = Refresh
    KeyId = {k1, k2, k3, k4, k5, k6}
    Usage = {Auth, Refresh}
    Server = {server}
    Master = {old, new}
    Rotation <- TwoPaces
    TTL <- TwoLives
    JobPeriod = 2
    MaxClock = 9
    MaxChanges = 1
    MaxRevoked = 0
INVARIANT ReissuedKeysSign
