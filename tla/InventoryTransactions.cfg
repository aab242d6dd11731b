SPECIFICATION FairSpec
CONSTANTS
    o1 = o1
    o2 = o2
    o3 = o3
    o4 = o4
    sku1 = sku1
    unknown = unknown
    usd = usd
    w1 = w1
    w2 = w2
    OrderIds = {o1, o2, o3, o4}
    Skus = {sku1, unknown}
    Currencies = {usd}
    Upper <- Identity
    Cent = 2
    InitialStock <- Stock
    Workers = {w1, w2}
    Commands <- MCCommands
    MaxFaults = 1
INVARIANTS
    TransactionsInv
    ReadsStayTrue
PROPERTIES
    ImplementsAtomic
    EverySentIsHandled
