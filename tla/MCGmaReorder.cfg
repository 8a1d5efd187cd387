SPECIFICATION FairSpec
CONSTANTS
    LinkSeq <- MCLinkSeq
    MAX_GMA_SN = 63
    MAX_GMA_LSN = 7
    UseLsnReordering = TRUE
    Scenarios <- AnyScenarios
CHECK_DEADLOCK FALSE
INVARIANT TypeOK
INVARIANT ForwardedInOrder
INVARIANT OnlyLostPacketsAreSkipped
INVARIANT QueuedPacketsHaveTimer
INVARIANT NoPacketTwice
PROPERTY QueuesDrain
