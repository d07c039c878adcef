SPECIFICATION Spec
CONSTANTS
    Sites <- TwoProjects
    Lists <- EachItsOwn
    MaxTables = 5
    MaxHydrated = 1
    Concurrency = 1
    MaxRefusals = 1
    Unlisted = Unlisted
INVARIANTS
    ListsAreOfTheConnection
