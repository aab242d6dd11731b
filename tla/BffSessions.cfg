SPECIFICATION Spec
CONSTANTS
    s1 = s1
    r1 = r1
    r2 = r2
    r3 = r3
    r4 = r4
    Sessions = {s1}
    Requests = {r1, r2, r3, r4}
SYMMETRY Sym
CHECK_DEADLOCK FALSE
INVARIANTS
    SessionsInv
    NewestTokenIsKept
PROPERTIES
    TokensMoveForward
    LogoutIsFinal
