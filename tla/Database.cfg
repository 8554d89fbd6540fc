CONSTANTS
    NumPresets = 2
    Readers = {reader}
    reader = reader
    MaxInputs = 5
    MaxFaults = 1
    MaxLosses = 1
    Apart = TRUE
SPECIFICATION LiveSpec
INVARIANTS DatabaseSafe
PROPERTIES Starts
CHECK_DEADLOCK FALSE
