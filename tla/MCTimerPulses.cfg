SPECIFICATION FeedbackFairSpec
CONSTANTS
    DigitalOutputs = {0}
    TouchOutputs = {1, 2}
    LevelMax = 100
    Max7 = 127
    OmniChannel = 17
    GroupSize = 6
    Speeds = 3
    TimerReset <- MCTimerReset
    ClockReset <- MCClockReset
    Dimmable = TRUE
    Presets <- MCTimerPresets
    Offset = 1
    Messages <- MCMessages
    OscValues <- MCOscValues
    Budgets <- MCTimerBudgets
    MaxUpdates = 6
    IconScreens <- MCIconScreens
    PageTargets = {0, 2}
    InitialScreen = 0
    TouchEnabled <- MCTouchEnabled
PROPERTY
    TimerPulses
CHECK_DEADLOCK FALSE
