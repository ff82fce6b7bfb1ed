SPECIFICATION Spec
CONSTANTS
    name = name
    spaced = spaced
    long = long
    None = None
    Text <- MCText
    Norm <- MCNorm
    TooLong = {long}
    Blank = name
    MaxEvents = 3
    MaxVersion = 2
INVARIANT RetrySettles
CHECK_DEADLOCK FALSE
