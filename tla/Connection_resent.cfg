SPECIFICATION ConnectionSpec
CONSTANTS
    MaxMessage = 3
    MaxBytes = 6
    MaxWire = 12
INVARIANTS
    SentOnce
CHECK_DEADLOCK FALSE
