CONSTANTS
    Call = {c1, c2, c3}
    k1 = k1
    k2 = k2
    f1 = f1
    f2 = f2
    f3 = f3
    Key = {k1, k2, f1, f2, f3}
    Nil = nil
    Tomb = tomb
    a1 = a1
    a2 = a2
    Value = {a1, a2}
    Hash <- Hashes
    MinSlots = 8
    Workloads <- TypedWorkloads
    MaxTime = 1
SPECIFICATION Spec
SYMMETRY CallSymmetry
INVARIANTS
    TypedTablesSound TypedLinearizable TypedHitBudget TypedNoExpiredAnswer
    TypedStoreStays RangeVisitsOnce
