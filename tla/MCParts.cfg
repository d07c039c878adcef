SPECIFICATION Spec
VIEW Moving
CONSTANTS
    n1 = n1
    n2 = n2
    n3 = n3
    n4 = n4
    Notebooks = {n1, n2, n3, n4}
    Cells <- CellsOf
    OnServer = {n1}
    Slots = 2
    MaxSent = 3
    MaxEdits = 1
    Absent = Absent
    Connections = {c1, c2}
    Calls = 2
    MaxCalls = 3
    MaxTyped = 1
    Nil = Nil
    MaxAsks = 3
    Books = {book1, book2}
    Titles = {"sales", "kb: sales"}
    MaxCreates = 2
    MaxRenames = 1
    Knowledges = {k1, k2}
    Nobody = Nobody
    Samples = {s1, s2}
    Listers = {t1, t2}
    MaxOwn = 2
    MaxLists = 4
    Reqs = {r1, r2, r3}
    Seeds = {seed}
    Bases = {b1, b2}
    MaxSuffix = 4
    Truncated = Truncated
    Garbled = Garbled
    Refused = Refused
    None = None
    MaxActive = 2
    MaxCrashes = 1
    NaN = NaN
    NoChart = NoChart
    Parse <- ParseOf
    Results <- SomeResults
    Dates = {"2024-01-01", "2024-01-02"}
    ChartTypes = {"kpi"}
    Aggregations = {"max"}
    Captions = {}
    IdRows = 2
    LowCategory = 2
    MidCategory = 3
    DonutMost = 2
    HistogramMost = 1
    PageSize = 4
    Sites <- TwoUsers
    Lists <- EachItsOwn
    MaxTables = 4
    MaxHydrated = 2
    Concurrency = 2
    MaxRefusals = 1
    Unlisted = Unlisted
    Admins = {a1, a2}
    Keys = {key}
    Plain = {plain}
    MaxSaves = 2
    MaxTouch = 2
    Empty = Empty
    MaxThings = 2
    MaxChanges = 2
    Unknown = Unknown
    MaxSignings = 1
    Stay = Stay
INVARIANTS
    TypeOK
    OnlyKnownLosses
    DeletedStaysDeleted
    ActiveIsSaved
    QuestionsKeepTheirPlace
    AnsweredUnderItsName
    SamplesComeOnce
    HoldsWhatWasApplied
    UnpublishIsFinal
    RecordsHaveTheirFile
    TableNamesDistinct
    ChartAddsUp
    ContextIsRight
    ChoicesStand
    ListingsAreRight
    SettledIsRight
\* Requests, questions and listings are bounded: a behaviour ends when they are used up.
CHECK_DEADLOCK FALSE
