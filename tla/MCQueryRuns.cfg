SPECIFICATION Spec
CONSTANTS
    t1 = t1
    t2 = t2
    a = a
    b = b
    None = None
    Tabs <- MCTabs
    Cells <- MCCells
    CellsOf <- MCCellsOf
    MaxRuns = 2
INVARIANTS
    TypeOK
    RegistryIsExact
    EveryFetchHasItsHandle
    MarkHasItsFetch
PROPERTIES
    StoppedRunNeverShows
    ImplementsCellRuns
    StopEndsExecutingQuery
