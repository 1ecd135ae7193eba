\* main.c with two threads of the server, or another caller of cli.h.
SPECIFICATION ProgramSpec
CONSTANTS
    Null = Null
    None = None
    Nodes = {1, 2, 3, 4}
    Buckets = {1, 2}
    Hash <- HashOf
    MayFail = TRUE
    Addresses = {1, 2, 3, 4}
    OptionLists <- Lists
    ShortNames <- AllShort
    Tokens <- AllTokens
    MaxTokens = 4
    MaxCalls = 3
    Main = Main
    Acceptor = Acceptor
    Worker = Worker
    ServerThreads <- AcceptorThenWorker
    NoThread = NoThread
    Stderr = Stderr
    NoFile = NoFile
    Flags <- SomeFlags
    Builds <- AllBuilds
    LineLen = 39
    ServerLines = 2
    MainOpts <- OptsOfMain
INVARIANTS
    TablesAgree
    ShortNamesLead
    ArgsReleasedOnce
    LinesWhole
    ColourCleared
    MainReleasesAll
PROPERTIES
    TablesAreDictionaries
    MainTerminates
CHECK_DEADLOCK FALSE
