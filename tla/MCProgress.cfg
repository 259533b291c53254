SPECIFICATION ProgressSpec
CONSTANTS
    a = a
    b = b
    c1 = c1
    c2 = c2
    t1 = t1
    t2 = t2
    gpu = gpu
    crtc1 = crtc1
    edp = edp
    w1 = w1
    w2 = w2
    Char <- MCChar
    Width <- MCWidth
    PasswordCap = 2
    Right <- MCRight
    Client <- TwoClients
    Timer <- TwoTimers
    MaxTyped = 2
    None = None
INVARIANTS
    InFlight
    TimersNamed
PROPERTIES
    ImplementsGuard
    ChecksEnd
    FailureFades
    Shown
    ResizesEnd
    HiddenLeavesTheSpace
