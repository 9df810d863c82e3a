SPECIFICATION FairWebSpec
CONSTANTS
    Tabs = {t1}
    MaxUser = 3
    MaxApi = 1
    MaxFaults = 1
INVARIANTS
    PageInv
PROPERTIES
    RefusedCallResolves
CHECK_DEADLOCK FALSE
