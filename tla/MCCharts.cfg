SPECIFICATION Spec
CONSTANTS
    NaN = NaN
    NoChart = NoChart
    Parse <- ParseOf
    Results <- SomeResults
    Dates = {"2024-01-01", "2024-01-02"}
    ChartTypes = {"kpi"}
    Aggregations = {"max"}
    Captions = {}
    IdRows = 2
    LowCategory = 2
    MidCategory = 3
    DonutMost = 2
    HistogramMost = 1
    PageSize = 4
INVARIANTS
    CountsTheRows
