SPECIFICATION RunSpec
CONSTANTS
    Svcs = {s1, s2}
    InfraKinds = {"redis", "s3"}
    BrokerKinds = {"nats"}
INVARIANTS RequiredRegistryIsThere
CHECK_DEADLOCK FALSE
