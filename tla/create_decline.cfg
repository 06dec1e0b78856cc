SPECIFICATION Spec
CONSTANTS
    Interrupts = FALSE
    Others = FALSE
INVARIANT OnlyCreatedDeleted
