SPECIFICATION TransportSpec
CONSTANTS
    Depth = 6
    Reserve = 2
    Buffers = 3
    MaxSessions = 2
CHECK_DEADLOCK FALSE
INVARIANTS
    TransportSafe
PROPERTIES
    BuffersReturnedUnlessBlocked
