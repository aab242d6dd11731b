SPECIFICATION FairSpec
CONSTANTS
    u1 = u1
    k1 = k1
    r1 = r1
    r2 = r2
    r3 = r3
    r4 = r4
    r5 = r5
    id1 = id1
    a1 = a1
    a2 = a2
    OrderIds = {r1, r2, r3, r4, r5}
    Users = {u1}
    Subjects = {u1}
    UserIds = {id1}
    Keys = {k1}
    Currencies = {"usd", "USD"}
    Skus = {"stocked"}
    Upper <- MCUpper
    Cent = 2
    Bodies <- MCBodies
    Codes = {"ADMIN", "admin"}
    UpperCode <- MCUpperCode
    Assignments = {a1, a2}
    Seeds = {a1}
    Intents <- MCIntents
    MaxFaults = 1
CHECK_DEADLOCK FALSE
INVARIANTS
    PathInv
    SuccessNamesTheOrder
    OrdersAreAuthorised
PROPERTIES
    GrantIsEffective
    EveryIntentIsSettled
