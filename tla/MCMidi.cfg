SPECIFICATION MidiSpec
CONSTANTS
    Presets <- MCPresets
    RouteOrder <- MCRoutes
    Supported = {"usb", "din", "ble"}
    Writes <- MCWrites
    Channels = 2
    OmniChannel = 17
    MessageChannels = {1}
    Fragments = 2
    BurstCount = 3
    BurstSize = 4
    RxCapacity = 2
    Tempos = {1, 2}
    Budgets <- MCBudgets
INVARIANTS
    BurstDelivered
    PacketsRead
    SettingsApplied
    BleReadiness
CHECK_DEADLOCK FALSE
