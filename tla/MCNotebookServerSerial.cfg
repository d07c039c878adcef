SPECIFICATION Spec
CONSTANTS
    n1 = n1
    n2 = n2
    c1 = c1
    c2 = c2
    Absent = Absent
    Empty = Empty
    Torn = Torn
    None = None
    Notebooks = {n1, n2}
    Texts = {c1, c2}
    MaxRequests = 5
    MaxActive = 1
    MaxCrashes = 1
\* The model ends when its requests are used up; RequestsEnd (MCNotebookServer.cfg) is about blocking.
CHECK_DEADLOCK FALSE
INVARIANTS
    EverySaveLands
    SnapshotsAreRestorable
PROPERTIES
    ImplementsHistory
