SPECIFICATION Spec
CONSTANTS
    MaxPrefix = 2
    BadByte = 255
    MaxItems = 2
    Capacity = 3
    Items <- MCItems
    Keys <- MCKeys
INVARIANTS TypeOK FramedInOrder FailsForAReason SectionsMeasured FindsWhatWasWritten DrainedMeansRead StreamIInv
CHECK_DEADLOCK FALSE
