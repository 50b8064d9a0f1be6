SPECIFICATION Spec
CONSTANTS
    HeaderSize = 4
    U16Max = 15
    U32Max = 47
    None = None
    RewriteReserve = 2
    OptionChoices <- MCOptionChoices
    DefaultOptions <- MCDefaultOptions
    MetadataSizes <- MCMetadataSizes
    TagsSizes <- MCTagsSizes
INVARIANTS
    TypeOK
    SectionsDisjoint
    ContentWhereWritten
    CopiedFits
PROPERTY
    NeverCreeps
