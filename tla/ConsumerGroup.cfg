SPECIFICATION FairSpec
CONSTANTS
    m1 = m1
    m2 = m2
    Members = {m1, m2}
    RoutingKeys = {"inventory.reserve.requested", "inventory.reserved"}
    Handled = {"inventory.reserve.requested"}
    MaxLog = 4
    MaxFaults = 3
CHECK_DEADLOCK FALSE
INVARIANTS
    GroupInv
    NoSkip
    StaysOrdered
PROPERTIES
    EveryMessageIsHandled
