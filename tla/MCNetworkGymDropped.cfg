SPECIFICATION Spec
CONSTANTS
    Clients = {1, 2, 3}
    Slice <- MCSlice
    Rates = {0, 1, 3}
    Subscribed = {"rate", "cell_id", "slice_rate"}
    TotalSteps = 3
    MaxEarly = 1
    MaxRepeats = 1
INVARIANT AppendedMeasurementsAreSent
CHECK_DEADLOCK FALSE
