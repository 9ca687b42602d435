CONSTANTS
    Jobs <- OneOrTwoCalls
    Procs = 1
    ParallelThreshold = 3
    MinPerWorker = 2
    Spare = 0
    ArrayCap = 1
SPECIFICATION FairSpec
INVARIANTS EachEntryOnce ArraysOwned StopIsPrompt
PROPERTIES NoVisitAfterFalse RangeReturns
