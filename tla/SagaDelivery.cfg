SPECIFICATION DeliverySpec
CONSTANTS
    o1 = o1
    o2 = o2
    u1 = u1
    k1 = k1
    k2 = k2
    OrderIds = {o1, o2}
    Users = {u1}
    Keys = {k1, k2}
    Currencies = {"USD"}
    Skus <- MCSkus
    Upper <- MCUpper
    Bodies <- MCBodies
    InitialStock <- MCInitialStock
    PaymentLimit = 8
    Cent = 4
    MaxStuck = 1
    MaxMissed = 1
CHECK_DEADLOCK FALSE
PROPERTIES
    EveryOrderSettles
    FailedOrderLetsGo
