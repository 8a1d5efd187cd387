SPECIFICATION Spec
CONSTANTS
    Links <- TwoLinks
    MaxDelayChangePerTSU = 2
    OwdValues = {0, 1, 3}
    NoOwd = 255
    PreferLargeCidValue = TRUE
    TicksPerMs = 2
    MaxEmulatedDelay = 3
INVARIANT TypeOK
INVARIANT TsaOffsetInRange
INVARIANT SomeLinkNotSkipped
INVARIANT SyncedKeepsOrder
