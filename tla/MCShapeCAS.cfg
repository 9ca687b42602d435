CONSTANTS
    Call = {c1, c2}
    Zero = zero
    Nil = nil
    Dead = dead
    a1 = a1
    a2 = a2
    b1 = b1
    Value = {a1, a2, b1}
    TypeOf <- Types
    Bytes <- OneByte
    Faulty = {b1}
    Workloads <- ShapeWorkloads
    MaxTime = 0
SPECIFICATION Spec
SYMMETRY CallSymmetry
INVARIANTS Linearizable
