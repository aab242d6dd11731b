SPECIFICATION FairSpec
CONSTANTS
    reserve = reserve
    release = release
    other = other
    b1 = b1
    b2 = b2
    Events = {reserve, release, other}
    Cause <- MCCause
    Batches = {b1, b2}
    BatchLimit = 2
    MaxFaults = 2
CHECK_DEADLOCK FALSE
PROPERTY EveryRowIsMarked
