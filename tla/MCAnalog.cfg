SPECIFICATION AnalogSpec
CONSTANTS
    Max7 = 3
    BpmMin = 2
    BpmMax = 4
    BpmDefault = 3
    DigitalInputs = {}
    OtherInputs = {10, 20, 21}
    SwitchSettings <- MCSwitchSettings
    DebounceBits = 1
    MaxChanges = 0
    AdcMax = 15
    PositionMax = 15
    GateMax = 15
    TurnGates = 3
    WakeGates = 4
    HoldGates = 2
    CounterWrap = 4
    ThresholdOff = 5
    ThresholdOn = 10
    FsrMin = 2
    FsrMax = 12
    AnalogIndices = {1}
    AnalogSettings <- MCAnalogSettings
    AnalogPresets <- MCPresets
    Levels = {0, 5, 6, 8, 13, 15}
    SwitchIndexOf <- MCSwitchIndexOf
    TouchSwitches = {20, 21}
    PageSwitches = {21}
    Max14 = 15
    Cc14MaxIndex = 2
    Budgets <- MCBudgets
    MaxSignals = 2
    SettleSamples = 7
INVARIANTS
    HostFollows
    RestsNear
PROPERTIES
    OutlierNeverReverses
CHECK_DEADLOCK FALSE
