CONSTANTS
    s1 = s1
    s2 = s2
    p1 = p1
    p2 = p2
    w1 = w1
    w2 = w2
    k = k
    x = x
    y = y
    Shell <- TwoShells
    Pid <- TwoPids
    Ws <- OneWs
    Key <- Keys
    Val <- OneVal
    Unset = Unset
    NoWs = NoWs
    MaxTime = 2
SPECIFICATION Spec
SYMMETRY AlikeInTwo
INVARIANTS
    LaterUseTakesEffect
    OwnWorkspaceOnly
