SPECIFICATION Spec
CONSTANTS
    Request = {r1, r2}
    Item = {i1}
    Txn = {x1, x2}
    Tenant <- OneTenant
    NoTenant = NoTenant
    t1 = t1
    Sku = {s1}
    Invoice = {v1}
    Opening <- NoStock
    Quantity <- NoAmounts
    Operation <- WaitingOperations
    MaxStock <- Capacity
    PoolMax = 2
    Null = Null
    Free = Free
INVARIANT InvoiceUniqueEverywhere
