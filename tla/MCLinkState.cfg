SPECIFICATION Spec
CONSTANTS
    Cids <- MCCids
    DefaultLinkCid = 0
    FixDefaultLink = FALSE
INVARIANT TypeOK
INVARIANT NoUpLinkOutranksDefault
PROPERTY DefaultMovesToUpLink
