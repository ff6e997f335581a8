SPECIFICATION LocalPoolSpec
CONSTANTS
    p1 = p1
    p2 = p2
    i1 = i1
    i2 = i2
    s1 = s1
    s2 = s2
    Procs = {p1, p2}
    Observers = {p1}
    Instances = {i1, i2}
    Services = {s1, s2}
    Owner <- MCOwner
    ServiceOf <- MCServiceOf
    MaxMishaps = 1
    Helpers = {h1, h2}
    Refillers = {f}
    Clients = {c}
    MaxPools = 2
    MaxCalls = 2
INVARIANTS RefillsAreSound ReadersAreSafe
PROPERTIES ImplementsView RetiredIsFrozen
CHECK_DEADLOCK FALSE
