CONSTANTS
    Term = {t1, t2}
    Box = {b1}
    NoBox = NoBox
    MaxFaults = 2
SPECIFICATION LiveSpec
INVARIANTS
    TypeOK
    DoneMeansDone
PROPERTIES
    StartsWithCookie
    KeepsCookie
    ComesBack
