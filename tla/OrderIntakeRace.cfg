SPECIFICATION IntakeSpec
CONSTANTS
    r1 = r1
    r2 = r2
    r3 = r3
    u1 = u1
    u2 = u2
    k1 = k1
    k2 = k2
    OrderIds = {r1, r2, r3}
    Users = {u1, u2}
    Keys = {k1, k2}
    Currencies = {"usd", "USD"}
    Skus = {"stocked"}
    Upper <- MCUpper
    Cent = 2
    Bodies <- MCBodies
SYMMETRY Sym
CHECK_DEADLOCK FALSE
INVARIANT RepeatIsReplayed
