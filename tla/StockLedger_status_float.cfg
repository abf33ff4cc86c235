SPECIFICATION Spec
CONSTANTS
    Request = {r1}
    Item = {i1}
    Txn = {x1}
    Tenant <- OneTenant
    NoTenant = NoTenant
    t1 = t1
    Sku = {s1}
    Invoice = {v1}
    Opening <- SixteenOhEight
    Quantity <- SixOhEight
    Operation <- AllOperations
    MaxStock <- Capacity
    PoolMax = 2
    Null = Null
    Free = Free
INVARIANT StatusMatchesStock
