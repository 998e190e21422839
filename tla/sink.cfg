CONSTANTS
    Wakers = {p,q}
    Publisher = p
    Batch = 2
    WakeFirst = 2
    WakeEvery = 2
    MaxPkts = 6
    MaxHeaders = 1
    MaxCloses = 2
SPECIFICATION FairSpec
INVARIANTS  BoundedBacklog
PROPERTIES CloseCompletes NoSendAfterClose
CHECK_DEADLOCK FALSE
