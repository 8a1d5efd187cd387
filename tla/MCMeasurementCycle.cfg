SPECIFICATION FairSpec
CONSTANTS
    Links = {1, 2}
    BaseDelays <- MCBaseDelays
    NoOwd = NoOwd
    Never = Never
    MaxDelayChangePerTSU = 3
    MaxMeasureInterval = 3
    Bounds <- MCBounds
INVARIANT CycleTypeOK
INVARIANT NoStaleSample
PROPERTY EqualisedUnlessOvertaken
CHECK_DEADLOCK FALSE
