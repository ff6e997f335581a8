SPECIFICATION BackgroundSpec
CONSTANTS
    Tasks = {t1, t2, t3}
    Stoppers = {s1, s2}
    NoTask = NoTask
    NThreads = 1
    BufferSize = 1
    MaxStarts = 2
    Intevals = {0, 1, 2}
    MaxTasks = 2
    MaxTickers = 2
    MaxTicks = 3
INVARIANTS EachRunsOnce LostOnlyInRace CallsAreExact
PROPERTIES SentRuns WorkersEnd StoppedTakesNothing
CHECK_DEADLOCK FALSE
