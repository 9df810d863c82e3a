SPECIFICATION RegistrationFairSpec
CONSTANTS
    Registrations = {r1, r2}
    Emails = {e1, e2}
    Slugs = {s1, s2}
    MaxFaults = 2
INVARIANTS
    VerifiedIsComplete
    AccountsUnique
    ConflictLeavesNothing
    OwnerRemains
PROPERTIES
    AnsweredIsUsable
CHECK_DEADLOCK FALSE
