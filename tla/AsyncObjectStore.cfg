SPECIFICATION Spec
CONSTANTS
    Paths = {a}
    MaxFiles = 2
    NoFile = NoFile
    Blank = Blank
    HeaderSize = 1
    U16Max = 7
    U32Max = 15
    None = None
    Metadata <- MCMetadata
    Tags <- MCTags
    Size <- MCSize
    Chunks = {c}
    Codecs = {none}
    Stored = none
    Garbage = Garbage
    Contents <- MCContents
    Tasks = {p1, p2}
    MaxContent = 1
    Syncs = {TRUE}
    LayoutChoices <- MCPacked
    DefaultOptions <- MCNoReserve
    RewriteReserve = 1
    ParentOpens = TRUE
    Faults = {"io", "rename", "kill", "power"}
    Cancels = {"creating", "copying", "flush", "renaming", "reopen"}
    GoOn = FALSE
INVARIANTS
    TypeOK
    AsyncIInv
    PublishedComplete
    HandlesFaithful
SYMMETRY MCSymmetry
VIEW MCView
