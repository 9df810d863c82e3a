SPECIFICATION ListSpec
CONSTANTS
    MaxMessages = 4
    Old = 2
    PageSize = 2
    MaxSends = 1
    MaxCalls = 2
    MaxTheirs = 1
    MaxActs = 3
CHECK_DEADLOCK FALSE
INVARIANTS
    ListInv
    QuietShowsHistory
PROPERTIES
    EntriesStay
