SPECIFICATION ConcernSpec
CONSTANTS
    w1 = w1
    w2 = w2
    w3 = w3
    o1 = o1
    o2 = o2
    o3 = o3
    Concerns = {"tags"}
    None = None
    LockSurface = LockSurface
    Window = {w1, w2}
    Output = {o1}
    TagCount = 3
    HistoryCap = 2
    Follow = TRUE
    AutoBack = TRUE
    MouseFocus = FALSE
    Rules <- TagRules
    Lineage <- NoLineage
    FixedSize = {}
    ScratchApps = {}
    Masks <- WideMasks
    Bindings = {"View", "ViewPrev", "ViewNextOccTag", "Tag"}
    Events = {"lock"}
SYMMETRY FreeSymmetry
INVARIANTS HistorySound ViewsNonEmpty KeyboardOnFocusedWindow
PROPERTIES AutoBackFindsWindows LockHoldsKeyboard
