SPECIFICATION MCSpec
CONSTANTS
    Workers <- MCWorkers
    Count = 3
    Limit = 5
    ProbeInterval = 2
    Interval <- MCInterval
    AddressCount <- MCAddressCount
    Inputs <- MCInputs
    Writes <- MCWrites
    Messages <- MCMessages
    Presets <- MCPresets
    MaxCalm = 5
    FailureLimit = 3
    EdgeTimeout = 2
    GestureCooldown = 2
    ProximityMax = 5
    LightMax = 8
    Pads = {1, 2}
    OutputInterval = 2
    DistanceMax = 5
    GridWidth <- MCGridWidth
    HoldFrames <- MCHoldFrames
    OutputEvery <- MCOutputEvery
    RangeMax = 5
    RefreshTime = 1
INVARIANTS
    SensorsHeal
    SettingsReachDevice
    HostUpToDate
    ZonesAccounted
    ScreenShows
PROPERTIES
    GateWorks
CHECK_DEADLOCK FALSE
