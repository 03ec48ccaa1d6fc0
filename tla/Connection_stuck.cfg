SPECIFICATION ConnectionSpec
CONSTANTS
    MaxMessage = 3
    MaxBytes = 6
    MaxWire = 12
PROPERTIES
    BufferDrains
CHECK_DEADLOCK FALSE
