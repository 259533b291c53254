SPECIFICATION Spec
CONSTANTS
  p1 = p1
  p2 = p2
  e1 = e1
  e2 = e2
  None = None
  Pixel = {p1, p2}
  Element = {e1, e2}
  Opaque = {e1}
  Places <- ElementPlaces
  MaxChanges = 2
  Events = {"flip"}
INVARIANT NothingLeftBehind
CHECK_DEADLOCK FALSE
