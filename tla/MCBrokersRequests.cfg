SPECIFICATION BrokersRequestsSpec
CONSTANTS
    Kinds = {"nats", "jetstream", "nsq"}
    Topics = {t1, t2}
    NoTopic = NoTopic
    Callers = {c1, c2}
    MaxConns = 2
    MaxSubs = 3
    NsqSubs = 2
    Providers = {ta}
    QueueSize = 2
    Makers = {"fiber", "client", "grpc"}
    r1 = r1
    r2 = r2
    Requests = {r1, r2}
    Contexts = {x, y}
    Nothing = Nothing
    Sendings <- SendingsDef
SYMMETRY Symmetries
INVARIANTS DeadHadItsConnectionClosed LiveIsRecorded DisconnectIsSafe
    IdsAreOwn LogsChain HandledOnce SpansAreKept
CHECK_DEADLOCK FALSE
