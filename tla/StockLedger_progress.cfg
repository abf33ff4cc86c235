SPECIFICATION FairSpec
CONSTANTS
    Request = {r1, r2, r3}
    Item = {i1}
    Txn = {x1}
    Tenant <- OneTenant
    NoTenant = NoTenant
    t1 = t1
    Sku = {s1}
    Invoice = {v1}
    Opening <- NoStock
    Quantity <- TwentyFour
    Operation <- WaitingOperations
    MaxStock <- SmallCapacity
    PoolMax = 2
    Null = Null
    Free = Free
INVARIANTS
    
    NothingLeaks
PROPERTIES
    AtomicSpec
    EveryRequestAnswered
