SPECIFICATION FairSpec
CONSTANTS
    Paths = {a}
    MaxFiles = 2
    NoFile = NoFile
    Blank = Blank
    HeaderSize = 1
    U16Max = 7
    U32Max = 15
    None = None
    Metadata <- MCAnyMetadata
    Tags <- MCTags
    Size <- MCSize
    Chunks = {c}
    Codecs = {none}
    Stored = none
    Garbage = Garbage
    Contents <- MCContents
    Tasks = {p1}
    MaxContent = 1
    Syncs = {FALSE, TRUE}
    LayoutChoices <- MCPacked
    DefaultOptions <- MCDefaultOptions
    RewriteReserve = 1
    ParentOpens = TRUE
    Faults = {"io"}
    Cancels = {"srcflush", "copying", "copyflush", "flush", "prefixflush", "syncing", "renaming", "syncdir", "reopen", "cleaning", "aborting"}
    GoOn = FALSE
INVARIANTS
    TempsOwned
    NothingLost
    TempsIInv
    SentArrives
PROPERTIES
    OrphansGo
    ImplementsAsyncRegister
