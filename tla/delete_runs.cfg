CONSTANTS
    a = a
    b = b
    b1 = b1
    b2 = b2
    i1 = i1
    i2 = i2
    Name <- Names
    Box <- Boxes
    NoBox = NoBox
    Item <- Items
    Entries <- CreatedEntries
    MaxFaults = 2
SPECIFICATION LiveSpec
INVARIANTS
    TypeOK
    FailedStaysListed
PROPERTIES
    NothingLeftBehind
    OnlyChosenGoes
    DeletedInTheEnd
