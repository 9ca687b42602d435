CONSTANTS
    NaN = NaN
    Closer = {c1, c2}
    Writer = {w1, w2}
    ProcsSet = {6}
    Capacities = {0, 1000}
    Counts <- SomeCounts
    Loads <- SomeLoads
    Intervals <- SomeIntervals
    Chunks = {4}
    Expected <- SomeExpected
    MaxOptions = 2
SPECIFICATION FairSpec
INVARIANTS MapWellFormed RecommendedUseful ChannelsClosedOnce QuietAfterClose
PROPERTIES CloseReturns CleanerEnds LimitedEntryCollected
