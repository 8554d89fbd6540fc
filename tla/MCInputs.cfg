SPECIFICATION DigitalSpec
CONSTANTS
    Max7 = 3
    BpmMin = 2
    BpmMax = 4
    BpmDefault = 3
    DigitalInputs = {0, 1}
    OtherInputs = {}
    SwitchSettings <- MCSwitchSettings
    DebounceBits = 2
    MaxChanges = 1
    EncoderIndices = {0}
    EncoderSettings <- MCEncoderSettings
    Max14 = 5
    Center = 3
    Cc14MaxIndex = 2
    PulsesPerStep = 2
    DirectionCount = 2
    SpeedChange <- MCSpeedChange
    SpeedLimit <- MCSpeedLimit
    Columns = 1
    EncoderSections = {"mode"}
    SyncValues = {5}
    Databases <- MCDatabases
    MaxFreezes = 1
INVARIANTS
    InputsInRange
    SwitchReported
PROPERTIES
    RefreshChangesNothing
    DirectionHeld
CHECK_DEADLOCK FALSE
