SPECIFICATION Spec
CONSTANTS
    p1 = p1
    p2 = p2
    p3 = p3
    a = a
    b = b
    v = v
    w = w
    NoEntry = NoEntry
    Proc <- TwoRuns
    Name <- Names
    Value <- Values
    Verbs <- AllVerbs
    Concurrent = TRUE
    Faults = TRUE
SYMMETRY TwoRunSymmetry
INVARIANT NoLossWithoutConflict
INVARIANT BystandersKept
