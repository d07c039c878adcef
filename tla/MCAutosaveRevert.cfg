SPECIFICATION SafetySpec
CONSTANTS
    n1 = n1
    n2 = n2
    None = None
    Notebooks = {n1, n2}
    MaxEdits = 3
    MaxAbandoned = 0
    Reverts = TRUE
INVARIANTS
    SavedMeansSaved
