CONSTANTS
    Sessions = {a, b}
    Null = Null
SPECIFICATION FairSpec
INVARIANTS SingleFeeder FeederIsBound FedStaysOpen
 
CHECK_DEADLOCK FALSE
