SPECIFICATION Spec
CONSTANTS
    HeaderSize = 4
    U16Max = 8
    U32Max = 31
    None = None
    Handles = {h1, h2}
    AsyncHandles = {h1, h2}
    Writers = {h1, h2}
    Metadata <- MCMetadata
    Tags <- MCTags
    Size <- MCSize
    Empty = Empty
    Garbage = Garbage
    Content = 2
    ByteBase = 3
    DefaultOptions <- MCDefaultOptions
    Created <- MCCreated
    MaxFiles = 2
    MaxUpdates = 2
SYMMETRY MCSymmetry
VIEW MCView
INVARIANTS
    TypeOK
    ContentReachable
    SettledIsStored
    FreshHandlesAgree
    RangesExact
