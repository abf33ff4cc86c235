SPECIFICATION FairSpec
CONSTANTS
    Runner = {m1, m2}
    LastFile = 3
    Client = {c1}
    Turns = 2
    MaxSignals = 2
INVARIANTS
    RecordedIffApplied
    AppliedInOrder
    SuccessMeansComplete
    PoolOutlivesRequests
    CleanExitCutsNothing
PROPERTIES
    EveryRunEnds
    SignalEndsServer
