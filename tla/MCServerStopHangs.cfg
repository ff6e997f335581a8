SPECIFICATION FairSpec
CONSTANTS
    Kinds = {"grpc"}
    Callers = {c1, c2}
    MaxStarts = 4
PROPERTIES StopAlwaysReturns
CHECK_DEADLOCK FALSE
