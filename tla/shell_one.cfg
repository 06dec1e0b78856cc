CONSTANTS
    s1 = s1
    s2 = s2
    p1 = p1
    p2 = p2
    w1 = w1
    w2 = w2
    k = k
    x = x
    y = y
    Shell <- OneShell
    Pid <- OnePid
    Ws <- TwoWs
    Key <- Keys
    Val <- TwoVals
    Unset = Unset
    NoWs = NoWs
    MaxTime = 3
SPECIFICATION Spec
SYMMETRY AlikeInOne
INVARIANTS
    TypeOK
    LaterUseTakesEffect
    VariablesAccountedFor
PROPERTIES
    ExportsSurvivePrompts
