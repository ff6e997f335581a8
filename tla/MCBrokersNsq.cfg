SPECIFICATION Spec
CONSTANTS
    Kinds = {"nsq"}
    Topics = {t1, t2}
    NoTopic = NoTopic
    Callers = {c1, c2}
    MaxConns = 2
    MaxSubs = 3
INVARIANTS MessagesAreHandled
CHECK_DEADLOCK FALSE
