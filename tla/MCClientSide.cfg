SPECIFICATION Spec
CONSTANTS
    w1 = w1
    None = None
    Window = {w1}
    Watched = w1
    Tag = {1, 2}
    FixedSize = {}
    Events = {"decoration", "unmap"}
    MaxSent = 1
INVARIANT ServerSideForced
CHECK_DEADLOCK FALSE
