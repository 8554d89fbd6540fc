SPECIFICATION FeedbackSpec
CONSTANTS
    DigitalOutputs = {0}
    TouchOutputs = {1, 2}
    LevelMax = 100
    Max7 = 127
    OmniChannel = 17
    GroupSize = 6
    Speeds = 3
    TimerReset <- MCTimerReset
    ClockReset <- MCClockReset
    Dimmable = TRUE
    Presets <- MCPresets
    Offset = 1
    Messages <- MCMessages
    OscValues <- MCOscValues
    Budgets <- MCBudgets
    MaxUpdates = 6
    IconScreens <- MCIconScreens
    PageTargets = {0, 2}
    InitialScreen = 0
    TouchEnabled <- MCTouchEnabled
INVARIANTS
    ShownIsHeld
    PulsesTogether
    IconsShown
    PageIsActive
CHECK_DEADLOCK FALSE
