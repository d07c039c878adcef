SPECIFICATION Spec
CONSTANTS
    n1 = n1
    n2 = n2
    c1 = c1
    c2 = c2
    Absent = Absent
    Empty = Empty
    Torn = Torn
    None = None
    Notebooks = {n1, n2}
    Texts = {c1, c2}
    MaxRequests = 3
    MaxActive = 2
    MaxCrashes = 1
\* The run ends when its requests are used up; RequestsEnd is about a thread that blocks.
CHECK_DEADLOCK FALSE
INVARIANTS
    TypeOK
    DiskIsLastAcknowledged
    OneIndexWriter
PROPERTIES
    RequestsEnd
