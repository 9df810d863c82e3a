SPECIFICATION Spec
CONSTANTS
    Users = {u1}
    Orgs = {o1}
    Requests = {r1, r2}
    RefreshLife = 1
    AccessLife = 0
    MaxTime = 2
    None = None
SYMMETRY Symmetry
INVARIANTS
    SessionInv
    CleanLogoutEndsSession
    MembershipFresh
PROPERTIES
    RevokedTokenRefused
