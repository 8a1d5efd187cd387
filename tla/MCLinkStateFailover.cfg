SPECIFICATION Spec
CONSTANTS
    Cids <- MCCids
    DefaultLinkCid = 0
    FixDefaultLink = FALSE
PROPERTY FailoverToBestUpLink
