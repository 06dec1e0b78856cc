CONSTANTS
    foo = foo
    foo_bar = foo_bar
    foo_dash = foo_dash
    Name <- Names
    Covers <- LongerNames
    Wordlike <- PlainNames
    MaxSetup = 3
    MaxFaults = 1
    MaxUpdates = 2
SPECIFICATION Spec
INVARIANTS
    TypeOK
    LastSetUpIsPorted
    EveryVersionSaved
    LocalChangesReturn
    ReportIsTrue
CONSTRAINT AtMostThree
