CONSTANTS
    Thread = {t1, t2, t3}
    ShardResizing = 16
SPECIFICATION FairSpec
INVARIANTS GateInv
PROPERTIES ImplementsWriteGate DrainEnds WriterEnters
