SPECIFICATION ConcernSpec
CONSTANTS
    w1 = w1
    w2 = w2
    w3 = w3
    o1 = o1
    o2 = o2
    o3 = o3
    Concerns = {"scratch", "hotplug", "pointer", "parents", "swallow"}
    None = None
    LockSurface = LockSurface
    Window = {w1, w2}
    Output = {o1, o2, o3}
    TagCount = 2
    HistoryCap = 1
    Follow = TRUE
    AutoBack = FALSE
    MouseFocus = FALSE
    Rules <- PlainRules
    Lineage <- NoLineage
    FixedSize = {}
    ScratchApps = {}
    Masks <- SecondTag
    Bindings = {}
    Events = {}
SYMMETRY OutputSymmetry
INVARIANTS StackedUnlessHidden ShownIffVisible MonitorIndices SwallowPairs
PROPERTIES HotplugKeepsOutputs UnplugHidesNothing FocusStaysOnScreen ClosingChildRestoresTerminal
