SPECIFICATION FairSpec
CONSTANTS
    c1 = c1
    c2 = c2
    Clients <- TwoClients
    Steered <- OneClient
    Channels <- OneChannel
    ChannelOf <- SameAp
    Duration = 2
    GuardTime = 2
    MaxLatency = 1
    MaxRequests = 2
    MaxActions = 1
CHECK_DEADLOCK FALSE
INVARIANT TypeOK
INVARIANT OneTestPerChannel
INVARIANT NoTestRestarted
PROPERTY ChannelsAreFreed
PROPERTY SessionEndsUnlessNotifyLost
