SPECIFICATION WebSpec
CONSTANTS
    Tabs = {t1}
    MaxUser = 3
    MaxApi = 1
    MaxFaults = 0
PROPERTIES
    PageRefreshRestores
CHECK_DEADLOCK FALSE
