SPECIFICATION Spec
CONSTANTS
    Interrupts = TRUE
    Others = TRUE
INVARIANT TypeOK
INVARIANT EntryHasHome
INVARIANT BothOrNeither
INVARIANT NoContainerLeft
INVARIANT CertificateRemoved
INVARIANT DeclinedLeavesNothing
INVARIANT OwnFilesKept
PROPERTY TheirsKept
