SPECIFICATION Spec
CONSTANTS
    w1 = w1
    w2 = w2
    w3 = w3
    None = None
    LockSurface = LockSurface
    Window = {w1, w3}
    Output = {o1}
    TagCount = 2
    HistoryCap = 2
    Follow = TRUE
    AutoBack = FALSE
    MouseFocus = FALSE
    Rules <- FloatRules
    Lineage <- OneChild
    FixedSize = {}
    ScratchApps = {}
    Masks <- OneTagMasks
    Bindings = {}
    Events = {}
INVARIANTS SwallowedUnmapped
