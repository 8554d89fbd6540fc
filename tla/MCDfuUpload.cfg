SPECIFICATION UploadSpec
CONSTANTS
    Byte <- MCByte
    Sectors <- MCSectors
    Erased = Erased
    Corrupt = Corrupt
    StartWord = StartWord
    VersionWord = VersionWord
    UidWord = UidWord
    EndWord = EndWord
    Junk = Junk
    Sizes <- MCSizes
    Native = 1
    MaxBlock = 2
    HeaderSize = 4
    Staged = TRUE
    MaxFaults = 2
INVARIANTS
    WriterSafe
    UploadConsistent
PROPERTIES
    CommandAnswered
