SPECIFICATION Spec
CONSTANTS
    MaxFed = 3
    MaxEncoders = 2
    MaxFrame = 3
    Room <- MCRoom
    MaxGrowth = 1
    None = None
INVARIANTS
    TypeOK
    LengthIsTrue
    ReadsBack
