SPECIFICATION Spec
CONSTANTS
    n1 = n1
    n2 = n2
    None = None
    Notebooks = {n1, n2}
    MaxEdits = 3
    MaxAbandoned = 1
    Reverts = FALSE
INVARIANTS
    TypeOK
    NoSilentlyUnsavedWork
    SilentCloseIsSafe
PROPERTIES
    ServerNeverRegresses
    WorkIsSavedEventually
