SPECIFICATION Spec
CONSTANTS
    Request = {r1, r2}
    Item = {i1, i2}
    Txn = {x1, x2}
    Tenant <- TwoTenants
    NoTenant = NoTenant
    t1 = t1
    Sku = {s1, s2}
    Invoice = {v1}
    Opening <- ThirtyUnits
    Quantity <- TwentyFour
    Operation <- AllOperations
    MaxStock <- SmallCapacity
    PoolMax = 2
    Null = Null
    Free = Free
SYMMETRY Ids
INVARIANTS
    TypeOK
    StockInRange
    StatusMatchesStock
    InvoiceUnique
    SkuUnique
    ReadIsCurrent
