SPECIFICATION Spec
CONSTANTS
    Byte <- MCByte
    StagedSectors <- MCStagedSectors
    SlotSectors <- MCSlotSectors
    Signed <- MCSigned
    Factory <- MCFactory
    Payloads <- MCPayloads
    Erased = Erased
    Corrupt = Corrupt
    StartWord = StartWord
    VersionWord = VersionWord
    UidWord = UidWord
    EndWord = EndWord
    Junk = Junk
    Sizes <- MCSizes
    Native = 1
    MaxBlock = 2
    HeaderSize = 4
    BufferSize = 2
    MaxFaults = 1
    MaxLosses = 1
INVARIANTS
    InstallSafe
PROPERTIES
    StagedUpdateInstalled
    ImplementsContract
