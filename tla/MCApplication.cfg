SPECIFICATION ApplicationSpec
CONSTANTS
    Svcs = {s1, s2}
    InfraKinds = {"redis", "s3"}
    BrokerKinds = {"nats"}
    ServiceKinds = {"standard", "interactive", "mcp"}
    Servers = {a, b}
    Jetstreams = {j}
    OtherBrokers = {n}
    Handlers = {h1, h2}
    MaxInputs = 2
    Kinds = {"tcp", "udp", "http", "grpc", "fiber", "websocket", "manager"}
    Callers = {c1, c2}
    MaxStarts = 3
    Ports = {1, 2}
    Elsewhere = 9
INVARIANTS
    DependenciesOutliveServices EntriesAreServed NilMeansReleased
    AllOrNothing ServingAddsUp AddressesLead
PROPERTIES StopEnds ExitEnds StopReturns
CHECK_DEADLOCK FALSE
