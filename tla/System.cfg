CONSTANTS
    NumPresets = 2
    NumSections = 1
    NumComponents = 1
    NumSockets = 1
    TokenWords = 1
    QueueCapacity = 1
    MaxInputs = 5
    Kinds <- RequestKinds
    Causes = {"UsbInit"}
SPECIFICATION LiveSpec
INVARIANTS SystemSafe
PROPERTIES SessionKept WorkEnds
CHECK_DEADLOCK FALSE
