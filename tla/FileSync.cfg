CONSTANTS
    f1 = f1
    f2 = f2
    File = {f1, f2}
    Order <- MCOrder
    SizeOf <- MCSizeOf
    Addr = {1, 2, 3, 4}
    ListSize = 3
    LocalSize = 2
    MaxEdits = 1
    MaxCuts = 1
    MaxRestarts = 1
    MaxUpdates = 1
    MaxWipes = 1
    MaxEvents = 3
SPECIFICATION FairSpec
INVARIANT SkippedFilesAreThere
INVARIANT RecordsAreRows
INVARIANT TransfersKnown
INVARIANT RingIsQueue
PROPERTY MirrorsAgain
CHECK_DEADLOCK FALSE
