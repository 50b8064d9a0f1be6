SPECIFICATION Spec
CONSTANTS
    MaxPrefix = 2
    BadByte = 255
    MaxItems = 2
    Capacity = 3
    Items <- MCItems
    Keys <- MCKeys
INVARIANT SizesAgree
CHECK_DEADLOCK FALSE
