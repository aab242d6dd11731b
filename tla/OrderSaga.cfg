SPECIFICATION Spec
CONSTANTS
    o1 = o1
    o2 = o2
    u1 = u1
    k1 = k1
    k2 = k2
    OrderIds = {o1, o2}
    Users = {u1}
    Keys = {k1, k2}
    Currencies = {"usd", "USD"}
    Skus <- MCSkus
    Upper <- MCUpper
    Bodies <- MCBodies
    InitialStock <- MCInitialStock
    PaymentLimit = 8
    Cent = 4
CHECK_DEADLOCK FALSE
SYMMETRY SymOrders
INVARIANTS
    SagaIInv
    EachStepOnce
    StockConserved
    ReservedMatchesReservations
    NothingLeftBehind
    VerdictMatchesEffects
    EffectsMatchOrder
PROPERTIES
    StatusMovesForward
    ImplementsLifecycle
