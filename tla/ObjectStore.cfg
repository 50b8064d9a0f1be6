SPECIFICATION Spec
CONSTANTS
    Paths = {a}
    MaxFiles = 3
    NoFile = NoFile
    Blank = Blank
    HeaderSize = 1
    U16Max = 7
    U32Max = 15
    None = None
    Procs = {p1, p2}
    Metadata <- MCMetadata
    Tags <- MCTags
    Size <- MCSize
    WithLength <- MCWithLength
    Chunks = {c}
    MaxContent = 1
    Codecs = {none, zstd}
    Stored = none
    Syncs = {FALSE}
    LayoutChoices <- MCPacked
    DefaultOptions <- MCDefaultOptions
    RewriteReserve = 1
    ParentOpens = TRUE
    Faults = {"io"}
    Garbage = Garbage
    Contents <- MCContents
INVARIANTS
    TypeOK
    HandlesFaithful
    NoTempLeaks
    RewritesOnce
    PublishedComplete
PROPERTIES
    ReadersKeepTheirObject
    ImplementsRegister
SYMMETRY MCSymmetry
VIEW MCView
