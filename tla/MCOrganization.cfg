SPECIFICATION Spec
CONSTANTS
    Calls = {c1, c2}
    Users = {u1, u2}
    Ids = {i1, i2}
    Things = {t1, t2}
    Names = {n1, n2}
    Perms = {p1}
    InvIds = {v1, v2}
    None = None
    Mended = {"createOrganization", "newWorkspace", "invite", "cleanup", "check"}
    MaxCalls = 3
SYMMETRY Symmetry
INVARIANTS
    OrgInv
    HonouredOnce
    CacheFresh
    TeamsKept
CHECK_DEADLOCK FALSE
