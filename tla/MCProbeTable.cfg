CONSTANTS
    Thread = {t1, t2}
    k1 = k1
    k2 = k2
    k3 = k3
    Key = {k1, k2, k3}
    Nil = nil
    Fp <- Fingerprint
    Sizes = {2, 4, 8, 16}
    Probe <- LinearProbe
    Calls <- AllCalls
    MaxTables = 3
    MaxCalls = 2
    MinTableSlots = 2
    LoadNum = 3
    LoadDen = 4
SPECIFICATION Spec
SYMMETRY ThreadSymmetry
INVARIANTS TablesSound LookupNeedsExcuse CountersExact
