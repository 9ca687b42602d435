CONSTANTS
    Thread = {t1, t2, t3}
    Depths = {0, 1, 2}
    MaxCalls = 4
SPECIFICATION FairSpec
INVARIANTS OwnNodes NodesInBounds
PROPERTIES NewBundleReturns
