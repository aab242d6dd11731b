SPECIFICATION Spec
CONSTANTS
    reserve = reserve
    release = release
    other = other
    b1 = b1
    b2 = b2
    Events = {reserve, release, other}
    Cause <- MCCause
    Batches = {b1, b2}
    BatchLimit = 2
    MaxFaults = 1
CHECK_DEADLOCK FALSE
SYMMETRY Sym
INVARIANTS
    RelayInv
    MarkedIsInLog
PROPERTIES
    PublishedStaysQuiet
    ImplementsBus
