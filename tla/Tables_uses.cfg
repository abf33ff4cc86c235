SPECIFICATION UseSpec
CONSTANTS
    Id = {i1, i2, i3, i4}
    Owner = {t1, t2}
    Caller = t1
    Limit = {1, 2, 3}
    MaxLimit = 3
    Overtaken = 1
    Record = {x1, x2}
    Company = {t1, t2}
    Reader = t1
    Amount = {2}
    Status = {"paid", "pending"}
    Clock = {2, 5, 6}
    Date = {1, 4}
    DaysPerMonth = 3
    SeriesDays = 2
    WeekDays = 1
    TrendMonths = 2
    None = None
    RowId = {i1, i2, i3, i4}
    NoTenant = NoTenant
    Tenant = {NoTenant, t1}
    Value = {v1, v2}
    TransferNo = {n1}
    Request = {x1, x2}
    Null = Null
SYMMETRY Ids
CONSTRAINT WorthReading
INVARIANTS
    TypeOK
    ReferencesResolve
    TransferNoUnique
    AttendanceOnOneList
    NothingMissed
    NothingTwice
    PagesAddUp
    QuietDashboard
    QuietFinance
    LaterSelectsKnowMore
PROPERTIES
    TenantsApart
