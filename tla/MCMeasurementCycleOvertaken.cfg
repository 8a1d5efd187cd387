SPECIFICATION FairSpec
CONSTANTS
    Links = {1, 2}
    BaseDelays <- MCBaseDelays
    NoOwd = NoOwd
    Never = Never
    MaxDelayChangePerTSU = 3
    MaxMeasureInterval = 3
    Bounds <- MCBounds
PROPERTY EventuallyEqualised
CHECK_DEADLOCK FALSE
