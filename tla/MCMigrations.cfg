SPECIFICATION Spec
CONSTANTS
    r1 = r1
    r2 = r2
    Runs <- MCRuns
    Goals = {0, 1, 3}
    MaxFaults = 2
SYMMETRY Symmetry
CHECK_DEADLOCK FALSE
INVARIANTS
    RecordedMeansApplied
    HistoryTrue
    LeftoversWereFailures
