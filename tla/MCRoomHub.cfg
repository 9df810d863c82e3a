SPECIFICATION Spec
CONSTANTS
    Users = {u1, u2}
    Socks = {s1, s2}
    Rooms = {r1}
    Mended <- MCMended
    Limit = 1
    MaxFaults = 1
    None = None
INVARIANTS
    HubInv
    PresenceTold
PROPERTIES
    NewerKept
CHECK_DEADLOCK FALSE

SYMMETRY Symmetry
