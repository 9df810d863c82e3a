SPECIFICATION Spec
CONSTANTS
    Calls = {c1, c2}
    Members = {m1, m2}
    LabelIds = {l1, l2}
    Names = {n1, n2}
    Providers = {p1}
    None = None
    Mended = {"create", "status", "assign", "send", "edit", "delete", "draft", "undraft", "identity", "unidentify"}
    Indexed = {"participant"}
    MaxCalls = 4
SYMMETRY Symmetry
INVARIANTS
    ConvInv
    CountExact
    LabelsKept
CHECK_DEADLOCK FALSE
