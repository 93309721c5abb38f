\* A request may take two ticks, the driver one; one connection per replica.
SPECIFICATION Spec
CONSTANTS
    grpc = grpc
    later = later
    rest = rest
    auth = auth
    extra = extra
    g1 = g1
    r1 = r1
    r2 = r2
    Replica = {grpc, later, rest}
    RestReplica = {rest}
    Standalone = {grpc, later}
    Slot = {g1, r1, r2}
    Home <- MCHome
    Usage = {auth, extra}
    Release <- MCRelease
    RequestTimeout = 2
    HeaderTimeout = 1
    DriverTimeout = 1
    MaxOpenConns = 1
INVARIANTS TypeOK SeededBeforeServing SignersFitKeys
PROPERTIES ShutdownSparesEarlierCalls ShutdownEnds SupportedServes
