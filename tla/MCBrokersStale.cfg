SPECIFICATION Spec
CONSTANTS
    Kinds = {"nats"}
    Topics = {t1, t2}
    NoTopic = NoTopic
    Callers = {c1, c2}
    MaxConns = 2
    MaxSubs = 3
INVARIANTS AlreadySubscribed
CHECK_DEADLOCK FALSE
