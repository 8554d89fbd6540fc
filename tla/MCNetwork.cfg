SPECIFICATION MCSpec
CONSTANTS
    Budgets <- MCBudgets
    Paths <- MCPaths
    PacketSize = 40
    MaxArguments = 8
    OscDatabases <- MCOscDatabases
    OscWrites <- MCOscWrites
    Signals <- MCSignals
    Datagrams <- MCDatagrams
    MaxPort = 2
    MaxHost = 3
    HighWatermark = 2
    SocketCount = 3
    RetryDelay = 2
    TimeModulus = 16
    Hostnames <- MCHostnames
    HostnameWrites <- MCHostnameWrites
    Addresses = {1, 2}
    Prefix <- MCPrefix
    Target <- MCTarget
    SerialNumbers <- MCSerialNumbers
    TargetUid <- MCTargetUid
    SuffixBytes = 2
    Indicated = {"NetworkIn", "NetworkOut"}
    Flashes = 1
    Clients = {1, 2, 3}
    ClientSockets = {1, 2}
    Fragments = 2
    TxCapacity = 2
INVARIANTS
    SenderSound
    ListensOnPort
    MessagesKept
    IdentityFollowed
    IndicatorsSettle
    ClientsKeptApart
CHECK_DEADLOCK FALSE
