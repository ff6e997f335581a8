SPECIFICATION BoundedSpec
CONSTANTS
    Conns = {k1, k2}
    Callers = {g1, g2}
    Alone = g1
    Links = {l1, l2}
    MaxDatagrams = 2
INVARIANTS OnlyCloseDelists LeaksOnlyInRace
PROPERTIES PoliteLeavesNothing StoppedAcceptsNothing
CHECK_DEADLOCK FALSE
