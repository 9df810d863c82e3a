SPECIFICATION FairPSpec
CONSTANTS
    Msgs = {m1, m2, m3}
    Complete = {m2}
    Unreadable = {m3}
    BatchSize = 2
    MaxPush <- MCMaxPush
    MaxSent = 1
    MaxPushes = 2
    MaxFaults = 1
    Users = {u1, u2}
    Chat = {m1, m2}
    CallbackFits = TRUE
    FramesPlain = TRUE
    None = None
    m1 = m1
    m2 = m2
    m3 = m3
INVARIANTS
    WorkerInv
    ToldIsStored
PROPERTIES
    KeepsLog
    MembersHear
    ShownIsKept
CHECK_DEADLOCK FALSE
