CONSTANTS
    Players = {p, q}
    MaxBridges = 2
    Timeout = 2
SPECIFICATION FairSpec
PROPERTY OriginClosesBridges
CHECK_DEADLOCK FALSE
