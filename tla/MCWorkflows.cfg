SPECIFICATION MCSpec
CONSTANTS
    Events = {1, 2, 3, 4, 5, 6}
    Consumers = {w1, w2}
    NoEvent = NoEvent
    Handlers = 1
    MaxRetries = 1
    MaxManual = 1
    MaxFaults = 2
    Flows = {f1, f2}
    Members = {m}
    None = None
INVARIANTS EventInv FlowInv NothingForgotten
PROPERTY Drains
CHECK_DEADLOCK FALSE
