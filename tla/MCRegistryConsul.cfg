SPECIFICATION FairSpec
CONSTANTS
    p1 = p1
    p2 = p2
    i1 = i1
    s1 = s1
    Procs = {p1, p2}
    Observers = {p1}
    Instances = {i1}
    Services = {s1}
    Owner <- MCOwner
    ServiceOf <- MCServiceOf
    MaxMishaps = 1
PROPERTIES Converges StopEndsRefills ImplementsView
CHECK_DEADLOCK FALSE
