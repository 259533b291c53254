SPECIFICATION ClientsSpec
CONSTANTS
    w1 = w1
    w2 = w2
    r = r
    c = c
    d = d
    None = None
    Window = {w1, w2}
    Watched = w1
    Tag = {1, 2}
    FixedSize = {w1}
    Events = {"decoration", "unmap"}
    MaxSent = 1
INVARIANTS
    NothingUnsent
    AlwaysConfigured
    FencesHonoured
    SubtreesTogether
    OutOfPlaceIsSliding
PROPERTIES
    ArrangeReachesClient
    VisibleStaysMapped
    QueueDrains
CHECK_DEADLOCK FALSE
