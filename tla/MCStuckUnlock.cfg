SPECIFICATION Spec
CONSTANTS
    super = super
    shift = shift
    key = key
    term = term
    None = None
    Key <- MCKey
    ModOf <- MCModOf
    ModKey = "M"
    Sym <- MCSym
    NoSymbol = "NoSymbol"
    Escape = "Esc"
    Arrows = {"Left"}
    App = {term}
    Action <- MCAction
    Keybinds <- MCKeybinds
    RepeatOn = TRUE
    HasLock = TRUE
    HasSession = FALSE
INVARIANT
    NoStuckKey
