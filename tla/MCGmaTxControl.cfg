SPECIFICATION Spec
CONSTANTS
    CidList <- ThreeLinks
    ShareValues <- MCShares
    Bursts = {4, 8, 16, 32, 64, 128}
    MaxTests = 2
INVARIANT TypeOK
INVARIANT EveryWindowHonoursShares
INVARIANT BurstIsSpreadEvenly
PROPERTY SteeringIsSticky
