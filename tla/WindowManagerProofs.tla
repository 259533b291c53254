------------------------ MODULE WindowManagerProofs ------------------------
(***************************************************************************)
(* Safety of WindowManager for any windows, outputs, tags, rules and       *)
(* bindings: the window list, the focus stack and the space agree, a       *)
(* screen lock keeps the keyboard from every client, the state keeps its   *)
(* types, no monitor shows or remembers the empty tag set, and each tag    *)
(* history is free of duplicates and bounded.  Through hotplug,            *)
(* scratchpads and swallowing every index names a monitor, the space holds *)
(* what the monitors show, every window that is not hidden can be focused  *)
(* again, and every hidden terminal comes back.  The keyboard is handed to *)
(* windows on screen, and follows focused_window().                        *)
(***************************************************************************)
EXTENDS WindowManager, StacksLemmas, FiniteSetTheorems

-----------------------------------------------------------------------------
(***************************************************************************)
(* The lists.  Sound is WindowLists for lists in the middle of a handler.  *)
(***************************************************************************)

Sound(ws, stack, mapped) ==
    /\ ws \in Seq(Window) /\ stack \in Seq(Window)
    /\ Distinct(ws) /\ Distinct(stack)
    /\ Elements(stack) \subseteq Elements(ws)
    /\ mapped \subseteq Elements(ws)

ListInv == Sound(windows, focusStack, space)

LEMMA InitLists == Init => ListInv
<1> SUFFICES ASSUME Init PROVE ListInv
  OBVIOUS
<1>1. windows = <<>> /\ focusStack = <<>> /\ space = {}
  BY DEF Init
<1>2. <<>> \in Seq(Window) /\ Distinct(<<>>) /\ Elements(<<>>) = {}
  BY EmptySeq DEF Distinct, Elements
<1> QED
  BY <1>1, <1>2 DEF ListInv, Sound

\* focus_window raises a listed window, or nothing.
LEMMA StackAfterSound ==
    ASSUME NEW ws, NEW stack, NEW mapped, Sound(ws, stack, mapped),
           NEW w \in Elements(ws) \cup {None}
    PROVE  Sound(ws, StackAfter(stack, w), mapped)
<1>1. CASE w = None
  BY <1>1 DEF StackAfter
<1>2. CASE w # None
  <2>1. w \in Elements(ws) /\ w \in Window
    BY <1>2, ElementsOf DEF Sound
  <2>2. /\ Raise(stack, w) \in Seq(Window) /\ Distinct(Raise(stack, w))
        /\ Elements(Raise(stack, w)) = Elements(stack) \cup {w}
    BY <2>1, RaiseElements DEF Sound
  <2>3. StackAfter(stack, w) = Raise(stack, w)
    BY <1>2 DEF StackAfter
  <2> QED
    BY <2>1, <2>2, <2>3 DEF Sound
<1> QED
  BY <1>1, <1>2

\* focused_window() is a window of the stack, or none.
LEMMA FocusedListed ==
    ASSUME NEW ws, NEW stack, NEW mapped, Sound(ws, stack, mapped),
           NEW wn, NEW ms, NEW sel
    PROVE  FocusedIn(stack, wn, ms, sel) \in Elements(ws) \cup {None}
<1> DEFINE T == OwnedBy(wn, ms, sel)
<1>1. FirstIn(stack, T, None) = None \/ FirstIn(stack, T, None) \in Elements(stack) \cap T
  <2> HIDE DEF T
  <2> QED
    BY FirstInFinds DEF Sound
<1> QED
  BY <1>1 DEF FocusedIn, Sound

\* arrange() maps only windows of the list.
LEMMA ArrangedListed ==
    ASSUME NEW mapped, NEW ws, NEW wn, NEW ms, NEW I, mapped \subseteq Elements(ws)
    PROVE  /\ Arranged(mapped, ws, wn, ms, I) \subseteq Elements(ws)
           /\ ArrangedAll(mapped, ws, wn, ms) \subseteq Elements(ws)
<1>1. \A J : Arranged(mapped, ws, wn, ms, J) \subseteq Elements(ws)
  BY DEF Arranged
<1> QED
  BY <1>1 DEF ArrangedAll

\* So do the arrange() calls of focus_window().
LEMMA FocusArrangedListed ==
    ASSUME NEW mapped, NEW stack, NEW wn, NEW w, mapped \subseteq Elements(windows)
    PROVE  FocusArranged(mapped, stack, wn, w) \subseteq Elements(windows)
<1> DEFINE old == Top(stack, None)
           touched == {wn[w].mon} \cup (IF old = None THEN {} ELSE {wn[old].mon})
           I == touched \cap DOMAIN monitors
<1>1. FocusArranged(mapped, stack, wn, w) \in {mapped, Arranged(mapped, windows, wn, monitors, I)}
  BY DEF FocusArranged
<1> HIDE DEF I
<1> QED
  BY <1>1, ArrangedListed

\* The end of most handlers.
LEMMA SettleSound ==
    ASSUME NEW ws, NEW stack, NEW wn, NEW ms, NEW sel,
           Sound(ws, stack, space), SettleOn(stack, ws, wn, ms, sel)
    PROVE  Sound(ws, focusStack', space')
<1> DEFINE f == FocusedIn(stack, wn, ms, sel)
<1>1. f \in Elements(ws) \cup {None}
  BY FocusedListed
<1>2. focusStack' = StackAfter(stack, f) /\ space' = ArrangedAll(space, ws, wn, ms)
  BY DEF SettleOn, FocusWindow
<1> HIDE DEF f
<1>3. Sound(ws, StackAfter(stack, f), space)
  BY <1>1, StackAfterSound
<1>4. space' \subseteq Elements(ws)
  BY <1>2, ArrangedListed DEF Sound
<1> QED
  BY <1>2, <1>3, <1>4 DEF Sound

\* The lists change only in what the space holds, which arrange() decides.
LEMMA ArrangeKeeps ==
    ASSUME ListInv, UNCHANGED <<windows, focusStack>>, NEW wn, NEW ms, NEW I,
           \/ space' = ArrangedAll(space, windows, wn, ms)
           \/ space' = Arranged(space, windows, wn, ms, I)
           \/ space' = space
    PROVE  ListInv'
<1>1. space' \subseteq Elements(windows)
  BY ArrangedListed DEF ListInv, Sound
<1> QED
  BY <1>1 DEF ListInv, Sound

\* focus_window(w) on its own, with the arrange() calls it makes.
LEMMA FocusKeeps ==
    ASSUME ListInv, windows' = windows, NEW wn, NEW sel, NEW w \in Elements(windows) \cup {None},
           FocusWindow(focusStack, wn, sel, w),
           NEW ms, NEW mapped, mapped \subseteq Elements(windows),
           \/ space' = ArrangedAll(space, windows, wn, ms) \cup mapped
           \/ space' = FocusArranged(space, focusStack, wn, w)
    PROVE  ListInv'
<1>1. Sound(windows, StackAfter(focusStack, w), space)
  BY StackAfterSound DEF ListInv
<1>2. focusStack' = StackAfter(focusStack, w)
  BY DEF FocusWindow
<1>3. space \subseteq Elements(windows)
  BY DEF ListInv, Sound
<1>4. /\ ArrangedAll(space, windows, wn, ms) \subseteq Elements(windows)
      /\ FocusArranged(space, focusStack, wn, w) \subseteq Elements(windows)
  BY <1>3, ArrangedListed, FocusArrangedListed
<1>5. space' \subseteq Elements(windows)
  BY <1>4
<1> QED
  BY <1>1, <1>2, <1>5 DEF ListInv, Sound

LEMMA SettleKeeps ==
    ASSUME ListInv, windows' = windows, NEW wn, NEW ms, NEW sel,
           SettleOn(focusStack, windows, wn, ms, sel)
    PROVE  ListInv'
<1>1. Sound(windows, focusStack', space')
  BY SettleSound DEF ListInv
<1> QED
  BY <1>1 DEF ListInv, Sound

\* View, ViewPrev, ViewNextOccTag, ToggleView, Tag and ToggleTag.
LEMMA TagActionsKeep ==
    ASSUME ListInv, View \/ ViewPrev \/ ViewNextOccTag \/ ToggleView \/ Tag \/ ToggleTag
    PROVE  ListInv'
<1>1. ASSUME NEW m, NEW target, SwitchView(m, target) PROVE ListInv'
  BY <1>1, SettleKeeps DEF SwitchView
<1>2. CASE View
  BY <1>1, <1>2 DEF View
<1>3. CASE ViewPrev
  BY <1>1, <1>3 DEF ViewPrev
<1>4. CASE ViewNextOccTag
  BY <1>1, <1>4 DEF ViewNextOccTag
<1>5. CASE ToggleView
  BY <1>1, <1>5 DEF ToggleView
<1>6. CASE Tag
  <2>1. windows' = windows
    BY <1>6 DEF Tag
  <2>2. \E wn, ms : SettleOn(focusStack, windows, wn, ms, selMon)
    BY <1>6, Zenon DEF Tag
  <2> QED
    BY <2>1, <2>2, SettleKeeps
<1>7. CASE ToggleTag
  <2>1. UNCHANGED <<windows, focusStack>> /\ space' = ArrangedAll(space, windows, win', monitors)
    BY <1>7 DEF ToggleTag
  <2> QED
    BY <2>1, ArrangeKeeps
<1> QED
  BY <1>2, <1>3, <1>4, <1>5, <1>6, <1>7

\* FocusStack goes to a window of the list.
LEMMA FocusStepListed ==
    ASSUME windows \in Seq(Window), NEW forward \in BOOLEAN
    PROVE  FocusStep(forward) \in Elements(windows) \cup {None}
<1> DEFINE on == {i \in DOMAIN windows :
                      windows[i] \in OwnedBy(win, monitors, selMon)
                        /\ win[windows[i]].rulesApplied}
           cur == {i \in on : windows[i] = FocusedWindow}
           after == {i \in on : \A c \in cur : i > c}
           before == {i \in on : \A c \in cur : i < c}
           ahead == IF forward THEN after ELSE before
           c == IF ahead # {} /\ cur # {} THEN ahead ELSE on
           first == CHOOSE i \in c : \A j \in c : i <= j
           last == CHOOSE i \in c : \A j \in c : j <= i
<1>1. FocusStep(forward) = IF on = {} THEN None
                           ELSE IF forward THEN windows[first] ELSE windows[last]
  BY DEF FocusStep
<1>2. on \in SUBSET (1 .. Len(windows)) /\ DOMAIN windows = 1 .. Len(windows)
  OBVIOUS
<1>3. c \in SUBSET on /\ (on # {} => c # {})
  OBVIOUS
<1> HIDE DEF on, c
<1>4. ASSUME on # {} PROVE first \in c /\ last \in c
  <2>1. c \in SUBSET (1 .. Len(windows)) /\ c \in SUBSET Nat /\ c # {} /\ Len(windows) \in Nat
    BY <1>2, <1>3, <1>4
  <2> QED
    BY <2>1, FirstPosition, LastPosition
<1>5. on # {} => first \in DOMAIN windows /\ last \in DOMAIN windows
  BY <1>2, <1>3, <1>4
<1> HIDE DEF first, last
<1> QED
  BY <1>1, <1>5, Zenon DEF Elements

LEMMA FocusStackKeeps == ListInv /\ FocusStack => ListInv'
<1> SUFFICES ASSUME ListInv, FocusStack PROVE ListInv'
  OBVIOUS
<1>1. PICK forward \in BOOLEAN :
         /\ space' = FocusArranged(space, focusStack, win, FocusStep(forward))
         /\ FocusWindow(focusStack, win, selMon, FocusStep(forward))
         /\ windows' = windows
  BY Zenon DEF FocusStack
<1>2. FocusStep(forward) \in Elements(windows) \cup {None}
  BY FocusStepListed DEF ListInv, Sound
<1>3. {} \subseteq Elements(windows)
  OBVIOUS
<1> QED
  BY <1>1, <1>2, <1>3, FocusKeeps

\* Zoom promotes a listed window.
LEMMA ZoomPromotes ==
    ASSUME ListInv, Zoom
    PROVE  \E p \in Elements(windows) :
              /\ windows' = Raise(windows, p) /\ focusStack' = StackAfter(focusStack, p)
              /\ space' = ArrangedAll(space, windows', win, monitors)
              /\ selMon' = SelectedAfter(focusStack, win, selMon, p)
<1> DEFINE f == FocusedWindow
           tiled == {w \in OwnedBy(win, monitors, selMon) :
                         ~win[w].floating /\ win[w].rulesApplied}
           c == FirstIn(windows, tiled \ {f}, None)
           promoted == IF FirstIn(windows, tiled, None) = f THEN c ELSE f
           ws == Raise(windows, promoted)
<1>1. /\ f # None /\ c # None /\ windows' = ws
      /\ space' = ArrangedAll(space, ws, win, monitors)
      /\ focusStack' = StackAfter(focusStack, promoted)
      /\ selMon' = SelectedAfter(focusStack, win, selMon, promoted)
  BY DEF Zoom, FocusWindow
<1>2. Sound(windows, focusStack, space)
  BY DEF ListInv
<1>3. f \in Elements(windows)
  BY <1>1, <1>2, FocusedListed DEF FocusedWindow
<1>4. c \in Elements(windows)
  <2> DEFINE T == tiled \ {f}
  <2>1. FirstIn(windows, T, None) = None \/ FirstIn(windows, T, None) \in Elements(windows) \cap T
    <3> HIDE DEF T
    <3> QED
      BY <1>2, FirstInFinds DEF Sound
  <2>2. c = FirstIn(windows, T, None)
    OBVIOUS
  <2> HIDE DEF T, c
  <2> QED
    BY <1>1, <2>1, <2>2
<1>5. promoted \in Elements(windows)
  BY <1>3, <1>4
<1> HIDE DEF promoted
<1> QED
  BY <1>1, <1>5

LEMMA ZoomKeeps == ListInv /\ Zoom => ListInv'
<1> SUFFICES ASSUME ListInv, Zoom PROVE ListInv'
  OBVIOUS
<1>1. PICK p \in Elements(windows) :
         /\ windows' = Raise(windows, p) /\ focusStack' = StackAfter(focusStack, p)
         /\ space' = ArrangedAll(space, windows', win, monitors)
  BY ZoomPromotes
<1>2. Sound(windows, focusStack, space) /\ p \in Window
  BY ElementsOf DEF ListInv, Sound
<1>3. /\ windows' \in Seq(Window) /\ Distinct(windows')
      /\ Elements(windows') = Elements(windows)
  <2>1. windows \in Seq(Window) /\ Distinct(windows)
    BY <1>2 DEF Sound
  <2>2. /\ Raise(windows, p) \in Seq(Window) /\ Distinct(Raise(windows, p))
        /\ Elements(Raise(windows, p)) = Elements(windows) \cup {p}
    BY <1>2, <2>1, RaiseElements
  <2> QED
    BY <1>1, <2>2
<1>4. Sound(windows, focusStack', space)
  BY <1>1, <1>2, StackAfterSound
<1>5. space' \subseteq Elements(windows')
  BY <1>1, <1>2, <1>3, ArrangedListed DEF Sound
<1> QED
  BY <1>3, <1>4, <1>5 DEF ListInv, Sound

\* Floating, fullscreen and client requests about them only arrange.
LEMMA StateActionsKeep ==
    ASSUME ListInv, \/ ToggleFloating \/ ToggleFullscreen
                    \/ \E w \in Window : FullscreenRequest(w) \/ ParentChanged(w) \/ DialogHint(w)
    PROVE  ListInv'
<1>1. UNCHANGED <<windows, focusStack>>
  BY DEF ToggleFloating, ToggleFullscreen, ChangeFocused, FullscreenRequest, ParentChanged,
         DialogHint
<1>2. space' = ArrangedAll(space, windows, win', monitors) \/ space' = space
  BY DEF ToggleFloating, ToggleFullscreen, ChangeFocused, FullscreenRequest, ParentChanged,
         DialogHint
<1> QED
  BY <1>1, <1>2, ArrangeKeeps

\* Focusing a listed window, then arranging everything.
LEMMA FocusThenArrange ==
    ASSUME ListInv, windows' = windows, NEW wn, NEW wn2, NEW ms, NEW sel,
           NEW w \in Elements(windows) \cup {None},
           FocusWindow(focusStack, wn, sel, w), space' = ArrangedAll(space, windows, wn2, ms)
    PROVE  ListInv'
<1>1. Sound(windows, StackAfter(focusStack, w), space)
  BY StackAfterSound DEF ListInv
<1>2. focusStack' = StackAfter(focusStack, w)
  BY DEF FocusWindow
<1>3. space' \subseteq Elements(windows)
  BY ArrangedListed DEF ListInv, Sound
<1> QED
  BY <1>1, <1>2, <1>3 DEF ListInv, Sound

LEMMA MonitorActionsKeep ==
    ASSUME ListInv, FocusMon \/ TagMon
    PROVE  ListInv'
<1>1. Sound(windows, focusStack, space)
  BY DEF ListInv
<1>2. CASE FocusMon
  <2>1. PICK next \in Neighbours(selMon) :
           /\ FocusWindow(focusStack, win, next, FocusedIn(focusStack, win, monitors, next))
           /\ space' = ArrangedAll(space, windows, win, monitors)
           /\ windows' = windows
    BY <1>2 DEF FocusMon
  <2>2. FocusedIn(focusStack, win, monitors, next) \in Elements(windows) \cup {None}
    BY <1>1, FocusedListed
  <2> QED
    BY <2>1, <2>2, FocusThenArrange
<1>3. CASE TagMon
  <2>1. PICK next \in Neighbours(selMon) :
           /\ space' = ArrangedAll(space, windows, win', monitors)
           /\ \/ FocusWindow(focusStack, win', next, FocusedWindow)
              \/ focusStack' = focusStack
           /\ windows' = windows
    BY <1>3, Zenon DEF TagMon
  <2>2. FocusedWindow \in Elements(windows) \cup {None}
    BY <1>1, FocusedListed DEF FocusedWindow
  <2>3. CASE FocusWindow(focusStack, win', next, FocusedWindow)
    BY <2>1, <2>2, <2>3, FocusThenArrange
  <2>4. CASE focusStack' = focusStack
    BY <2>1, <2>4, ArrangeKeeps
  <2> QED
    BY <2>1, <2>3, <2>4
<1> QED
  BY <1>2, <1>3

\* A hidden scratchpad leaves the stack, a shown one is raised.
LEMMA HideOrShowKeeps ==
    ASSUME ListInv, NEW w \in Elements(windows), NEW hide, HideOrShow(w, hide)
    PROVE  ListInv'
<1>1. CASE HideScratch(w)
  <2> DEFINE stack == Without(focusStack, w)
  <2>1. windows' = windows /\ \E wn : SettleOn(stack, windows, wn, monitors, selMon)
    BY <1>1, Zenon DEF HideScratch
  <2>2. Sound(windows, stack, space)
    BY WithoutElements DEF ListInv, Sound
  <2> HIDE DEF stack
  <2>3. Sound(windows, focusStack', space')
    BY <2>1, <2>2, SettleSound
  <2> QED
    BY <2>1, <2>3 DEF ListInv
<1>2. CASE ShowScratch(w)
  <2>1. /\ windows' = windows
        /\ space' = ArrangedAll(space, windows, win', monitors)
        /\ FocusWindow(focusStack, win', selMon, w)
    BY <1>2, Zenon DEF ShowScratch
  <2> QED
    BY <2>1, FocusThenArrange
<1> QED
  BY <1>1, <1>2 DEF HideOrShow

LEMMA ScratchActionsKeep ==
    ASSUME ListInv, ToggleScratch \/ FocusOrToggleScratch \/ FocusOrToggleMatchingScratch
    PROVE  ListInv'
<1>1. windows \in Seq(Window)
  BY DEF ListInv, Sound
<1>2. \A T : FirstIn(windows, T, None) \in Elements(windows) \cup {None}
  BY <1>1, FirstInFinds
<1>3. ScratchWindow \in Elements(windows) \cup {None}
  BY <1>2 DEF ScratchWindow
<1>4. CASE ToggleScratch \/ FocusOrToggleScratch
  <2>1. ScratchWindow \in Elements(windows)
    BY <1>3, <1>4 DEF ToggleScratch, FocusOrToggleScratch
  <2> QED
    BY <1>4, <2>1, HideOrShowKeeps, Zenon DEF ToggleScratch, FocusOrToggleScratch
<1>5. CASE FocusOrToggleMatchingScratch
  <2> DEFINE T == {v \in Window : win[v].scratch \/ (v \in ScratchApps /\ win[v].named)}
             w == FirstIn(windows, T, None)
  <2>1. w # None /\ HideOrShow(w, VisibleHere(w))
    BY <1>5, Zenon DEF FocusOrToggleMatchingScratch
  <2>2. w \in Elements(windows) \cup {None}
    BY <1>2
  <2> HIDE DEF w
  <2> QED
    BY <2>1, <2>2, HideOrShowKeeps
<1> QED
  BY <1>4, <1>5

\* new_toplevel puts a new window in front of the list and on top of the stack.
LEMMA NewToplevelKeeps ==
    ASSUME ListInv, NEW w \in Window, NewToplevel(w)
    PROVE  ListInv'
<1>1. Sound(windows, focusStack, space)
  BY DEF ListInv
<1>2. w \notin Elements(windows)
  BY DEF NewToplevel
<1>3. windows' = <<w>> \o windows /\ focusStack' = Raise(focusStack, w)
  BY Zenon DEF NewToplevel
<1>4. windows' = Raise(windows, w)
  BY <1>2, <1>3 DEF Raise, Without
<1>5. /\ windows' \in Seq(Window) /\ Distinct(windows')
      /\ Elements(windows') = Elements(windows) \cup {w}
  <2>1. windows \in Seq(Window) /\ Distinct(windows)
    BY <1>1 DEF Sound
  <2> QED
    BY <1>4, <2>1, RaiseElements
<1>6. /\ focusStack' \in Seq(Window) /\ Distinct(focusStack')
      /\ Elements(focusStack') = Elements(focusStack) \cup {w}
  <2>1. focusStack \in Seq(Window) /\ Distinct(focusStack)
    BY <1>1 DEF Sound
  <2> QED
    BY <1>3, <2>1, RaiseElements
<1>7. \E wn, I : space' = Arranged(space \cup {w}, windows', wn, monitors, I)
  BY Zenon DEF NewToplevel
<1>8. space' \subseteq Elements(windows')
  <2>1. space \cup {w} \subseteq Elements(windows')
    BY <1>1, <1>5 DEF Sound
  <2> QED
    BY <1>7, <2>1, ArrangedListed
<1> QED
  BY <1>1, <1>5, <1>6, <1>8 DEF ListInv, Sound

\* commit(): the rules of the first commit settle the focus, the centring of a buffer maps
\* the window that committed.
LEMMA CentredListed ==
    ASSUME NEW w \in Elements(windows), NEW wn, NEW ms
    PROVE  CentredSpace(wn, ms, w) \subseteq Elements(windows)
BY DEF CentredSpace

LEMMA CommitRuledKeeps ==
    ASSUME ListInv, NEW w \in Elements(windows), NEW s, NEW ms, NEW sized,
           CommitRuled(w, s, ms, sized)
    PROVE  ListInv'
<1> DEFINE ruled == Swallow([win EXCEPT ![w] = s], w)
           target == FocusedIn(focusStack, ruled, ms, selMon)
           mapped == IF sized THEN CentredSpace(ruled, ms, w) ELSE {}
<1>1. /\ windows' = windows
      /\ space' = ArrangedAll(space, windows, win', ms) \cup mapped
      /\ FocusWindow(focusStack, ruled, selMon, target)
  BY DEF CommitRuled
<1>2. target \in Elements(windows) \cup {None}
  BY FocusedListed DEF ListInv
<1>3. mapped \subseteq Elements(windows)
  BY CentredListed
<1> HIDE DEF target, mapped, ruled
<1>4. Sound(windows, StackAfter(focusStack, target), space)
  BY <1>2, StackAfterSound DEF ListInv
<1>5. focusStack' = StackAfter(focusStack, target)
  BY <1>1 DEF FocusWindow
<1>6. ArrangedAll(space, windows, win', ms) \subseteq Elements(windows)
  BY ArrangedListed DEF ListInv, Sound
<1>7. space' \subseteq Elements(windows)
  BY <1>1, <1>3, <1>6
<1> QED
  BY <1>1, <1>4, <1>5, <1>7 DEF ListInv, Sound

LEMMA CommitsKeep ==
    ASSUME ListInv, NEW w \in Window, CommitFirst(w) \/ CommitBuffer(w)
    PROVE  ListInv'
<1>1. w \in Elements(windows)
  BY DEF CommitFirst, CommitBuffer
<1>2. CASE CommitFirst(w)
  <2>1. \E s, ms, sized : CommitRuled(w, s, ms, sized)
    BY <1>2, Zenon DEF CommitFirst
  <2> QED
    BY <1>1, <2>1, CommitRuledKeeps
<1>3. CASE CommitBuffer(w)
  <2>1. UNCHANGED <<windows, focusStack>>
    BY <1>3 DEF CommitBuffer
  <2>2. /\ ArrangedAll(space, windows, win', monitors) \subseteq Elements(windows)
        /\ CentredSpace(win, monitors, w) \subseteq Elements(windows)
        /\ space \subseteq Elements(windows)
    BY <1>1, ArrangedListed, CentredListed DEF ListInv, Sound
  <2>3. \/ space' = ArrangedAll(space, windows, win', monitors) \cup CentredSpace(win, monitors, w)
        \/ space' = space \cup CentredSpace(win, monitors, w)
    BY <1>3 DEF CommitBuffer
  <2>4. space' \subseteq Elements(windows)
    BY <2>2, <2>3
  <2> QED
    BY <2>1, <2>4 DEF ListInv, Sound
<1> QED
  BY <1>2, <1>3

\* toplevel_destroyed takes the window off every list, and every window it raises is left.
LEMMA DestroyKeeps ==
    ASSUME ListInv, NEW w \in Window, Destroy(w)
    PROVE  ListInv'
<1> DEFINE ws == Without(windows, w)
           stack == Without(focusStack, w)
           restored == IF win[w].swallowing \in Elements(ws) THEN win[w].swallowing ELSE None
<1>1. Sound(ws, stack, space \ {w})
  <2>1. windows \in Seq(Window) /\ Distinct(windows) /\ focusStack \in Seq(Window)
        /\ Distinct(focusStack)
    BY DEF ListInv, Sound
  <2>2. ws \in Seq(Window) /\ Distinct(ws) /\ Elements(ws) = Elements(windows) \ {w}
    BY <2>1, WithoutElements
  <2>3. stack \in Seq(Window) /\ Distinct(stack) /\ Elements(stack) = Elements(focusStack) \ {w}
    BY <2>1, WithoutElements
  <2> HIDE DEF ws, stack
  <2> QED
    BY <2>2, <2>3 DEF ListInv, Sound
<1> DEFINE i == win[w].mon
           backs == AutoBacks(w, ws)
           ms == IF backs
                 THEN MonitorsWith(i, Reassigned(monitors[i],
                                                 AutoBackTarget(ws, i, win[w].switchToTag)))
                 ELSE monitors
           moved == backs /\ ms # monitors
           refocused == FocusedIn(stack, win, ms, selMon)
           stack1 == IF moved THEN StackAfter(stack, refocused) ELSE stack
           sel == IF moved THEN SelectedAfter(stack, win, selMon, refocused) ELSE selMon
           wn == Unswallowed(w, ws)
           master(tiling) == IF tiling /\ win[w].bufferMapped
                             THEN TileMaster(ws, wn, ms, sel) ELSE None
           topWhen(tiling) == IF restored # None THEN restored
                              ELSE IF master(tiling) # None THEN master(tiling)
                              ELSE FocusedIn(stack1, wn, ms, sel)
<1>2. PICK tiling \in BOOLEAN :
         /\ windows' = ws
         /\ focusStack' = StackAfter(stack1, topWhen(tiling))
         /\ space' = ArrangedAll(space \ {w}, ws, wn, ms)
  BY Zenon DEF Destroy
<1> DEFINE top == topWhen(tiling)
<1>3. Sound(ws, stack1, space \ {w})
  <2> HIDE DEF ws, stack
  <2>1. refocused \in Elements(ws) \cup {None}
    BY <1>1, FocusedListed
  <2> HIDE DEF refocused
  <2>2. Sound(ws, StackAfter(stack, refocused), space \ {w})
    BY <1>1, <2>1, StackAfterSound
  <2> QED
    BY <1>1, <2>2
<1>4. /\ windows' = ws /\ focusStack' = StackAfter(stack1, top)
      /\ space' = ArrangedAll(space \ {w}, ws, wn, ms)
  BY <1>2
<1>5. top \in Elements(ws) \cup {None}
  <2>1. FocusedIn(stack1, wn, ms, sel) \in Elements(ws) \cup {None}
    <3> HIDE DEF stack1, ws
    <3> QED
      BY <1>3, FocusedListed
  <2>2. TileMaster(ws, wn, ms, sel) \in Elements(ws) \cup {None}
    <3>1. \A T : FirstIn(ws, T, None) \in Elements(ws) \cup {None}
      <4> HIDE DEF ws
      <4> QED
        BY <1>1, FirstInFinds DEF Sound
    <3> HIDE DEF ws
    <3> QED
      BY <3>1 DEF TileMaster
  <2>3. restored \in Elements(ws) \cup {None}
    OBVIOUS
  <2> HIDE DEF restored, ws
  <2> QED
    BY <1>2, <2>1, <2>2, <2>3
<1> HIDE DEF stack1, ws
<1>6. Sound(ws, StackAfter(stack1, top), space \ {w})
  BY <1>3, <1>5, StackAfterSound
<1>7. space' \subseteq Elements(ws)
  BY <1>3, <1>4, ArrangedListed DEF Sound
<1> QED
  BY <1>4, <1>6, <1>7 DEF ListInv, Sound

\* Activation, the pointer and the command socket.
LEMMA ActivateKeeps ==
    ASSUME ListInv, NEW w \in Window, Activate(w)
    PROVE  ListInv'
<1>1. w \in Elements(windows) /\ windows' = windows
  BY DEF Activate
<1>2. \E ms, sel : /\ space' = ArrangedAll(space, windows, win, ms)
                   /\ FocusWindow(focusStack, win, sel, w)
  BY Zenon DEF Activate
<1> QED
  BY <1>1, <1>2, FocusThenArrange

LEMMA PointerKeeps ==
    ASSUME ListInv, PointerMotion \/ Click
    PROVE  ListInv'
<1>1. windows' = windows /\ space \subseteq Elements(windows)
  BY DEF PointerMotion, Click, ListInv, Sound
<1>2. ASSUME NEW w \in Elements(windows), NEW sel, FocusWindow(focusStack, win, sel, w),
             space' = FocusArranged(space, focusStack, win, w)
      PROVE  ListInv'
  <2>1. {} \subseteq Elements(windows)
    OBVIOUS
  <2> QED
    BY <1>1, <1>2, <2>1, FocusKeeps
<1>3. CASE PointerMotion
  <2>1. \/ UNCHANGED <<focusStack, space>>
        \/ \E w \in space \cup {None} : \E sel :
              /\ w # None
              /\ FocusWindow(focusStack, win, sel, w)
              /\ space' = FocusArranged(space, focusStack, win, w)
    BY <1>3, Zenon DEF PointerMotion
  <2>2. CASE UNCHANGED <<focusStack, space>>
    BY <1>1, <2>2, ArrangeKeeps
  <2> QED
    BY <1>1, <1>2, <2>1, <2>2
<1>4. CASE Click
  <2>1. \E w \in space : /\ FocusWindow(focusStack, win, selMon, w)
                        /\ space' = FocusArranged(space, focusStack, win, w)
    BY <1>4 DEF Click
  <2> QED
    BY <1>1, <1>2, <2>1
<1> QED
  BY <1>3, <1>4

LEMMA IpcViewKeeps == ListInv /\ IpcView => ListInv'
<1> SUFFICES ASSUME ListInv, IpcView PROVE ListInv'
  OBVIOUS
<1>1. windows' = windows
  BY DEF IpcView
<1>2. \E ms : \/ SettleOn(focusStack, windows, win, ms, selMon)
             \/ /\ space' = ArrangedAll(space, windows, win, ms)
                /\ focusStack' = focusStack
  BY Zenon DEF IpcView
<1> QED
  BY <1>1, <1>2, SettleKeeps, ArrangeKeeps

\* Outputs come and go, and the locks: the lists stay as they are, the space is arranged.
LEMMA OutputsAndLocksKeep ==
    ASSUME ListInv, \/ \E o \in Output : OutputAdded(o)
                    \/ \E i \in DOMAIN monitors : OutputRemoved(i)
                    \/ LockEvent
    PROVE  ListInv'
<1>1. UNCHANGED <<windows, focusStack>>
  BY DEF OutputAdded, OutputRemoved, LockEvent, LockNative, LockExt, NewLockSurface, Unlock
<1>2. \/ space' = ArrangedAll(space, windows, win, monitors')
      \/ space' = ArrangedAll(space, windows, win', monitors')
      \/ space' = space
  BY DEF OutputAdded, OutputRemoved, LockEvent, LockNative, LockExt, NewLockSurface, Unlock
<1> QED
  BY <1>1, <1>2, ArrangeKeeps

LEMMA NextLists == ListInv /\ [Next]_vars => ListInv'
<1> SUFFICES ASSUME ListInv, [Next]_vars PROVE ListInv'
  OBVIOUS
<1>1. CASE UNCHANGED vars
  BY <1>1 DEF vars, ListInv, Sound
<1>2. CASE BoundAction
  BY <1>2, TagActionsKeep, FocusStackKeeps, ZoomKeeps, StateActionsKeep, MonitorActionsKeep,
     ScratchActionsKeep DEF BoundAction
<1>3. CASE \E w \in Window : ClientEvent(w)
  BY <1>3, NewToplevelKeeps, CommitsKeep, DestroyKeeps, StateActionsKeep, ActivateKeeps
     DEF ClientEvent
<1>4. CASE DeviceEvent \/ LockEvent
  BY <1>4, PointerKeeps, IpcViewKeeps, OutputsAndLocksKeep DEF DeviceEvent
<1> QED
  BY <1>1, <1>2, <1>3, <1>4 DEF Next

\* The window list, the focus stack and the space agree in every reachable state: no
\* handler lists a window twice, and nothing of a destroyed window stays behind
\* (toplevel_destroyed, focus_window, arrange).
THEOREM ListsAgree == Spec => []WindowLists
<1>1. Init => ListInv
  BY InitLists
<1>2. ListInv /\ [Next]_vars => ListInv'
  BY NextLists
<1>3. ListInv => WindowLists
  BY DEF ListInv, Sound, WindowLists
<1> QED
  BY <1>1, <1>2, <1>3, PTL DEF Spec

-----------------------------------------------------------------------------
(***************************************************************************)
(* The keyboard behind a screen lock.                                      *)
(***************************************************************************)

\* focus_window() and the handlers built on it leave the keyboard alone while locked.
LEMMA FocusWindowLocked ==
    ASSUME locked # "no", NEW stack, NEW wn, NEW sel, NEW w, FocusWindow(stack, wn, sel, w)
    PROVE  focus' = focus
BY DEF FocusWindow, FocusAfter

LEMMA SettleLocked ==
    ASSUME locked # "no", NEW stack, NEW ws, NEW wn, NEW ms, NEW sel,
           SettleOn(stack, ws, wn, ms, sel)
    PROVE  focus' = focus
BY FocusWindowLocked DEF SettleOn

LEMMA BoundLocked ==
    ASSUME locked # "no", BoundAction
    PROVE  locked' = locked /\ focus' = focus
<1>1. ASSUME NEW m, NEW target, SwitchView(m, target)
      PROVE  locked' = locked /\ focus' = focus
  BY <1>1, SettleLocked DEF SwitchView
<1>2. CASE View \/ ViewPrev \/ ViewNextOccTag \/ ToggleView
  BY <1>1, <1>2 DEF View, ViewPrev, ViewNextOccTag, ToggleView
<1>3. CASE Tag
  <2>1. locked' = locked /\ \E wn, ms : SettleOn(focusStack, windows, wn, ms, selMon)
    BY <1>3, Zenon DEF Tag
  <2> QED
    BY <2>1, SettleLocked
<1>4. CASE ToggleTag \/ ToggleFloating \/ ToggleFullscreen
  BY <1>4 DEF ToggleTag, ToggleFloating, ToggleFullscreen, ChangeFocused
<1>5. CASE FocusStack \/ Zoom \/ FocusMon \/ TagMon
  BY <1>5, FocusWindowLocked DEF FocusStack, Zoom, FocusMon, TagMon
<1>6. CASE ToggleScratch \/ FocusOrToggleScratch \/ FocusOrToggleMatchingScratch
  BY <1>6 DEF ToggleScratch, FocusOrToggleScratch, FocusOrToggleMatchingScratch
<1> QED
  BY <1>2, <1>3, <1>4, <1>5, <1>6 DEF BoundAction

LEMMA ClientLocked ==
    ASSUME locked # "no", NEW w \in Window, ClientEvent(w)
    PROVE  locked' = locked /\ (focus' = focus \/ focus' = None)
<1>1. CASE NewToplevel(w)
  BY <1>1, Zenon DEF NewToplevel
<1>2. CASE CommitFirst(w)
  <2>1. \E s, ms, sized : CommitRuled(w, s, ms, sized)
    BY <1>2, Zenon DEF CommitFirst
  <2> QED
    BY <2>1, FocusWindowLocked DEF CommitRuled
<1>3. CASE CommitBuffer(w) \/ FullscreenRequest(w) \/ ParentChanged(w) \/ DialogHint(w)
  BY <1>3 DEF CommitBuffer, FullscreenRequest, ParentChanged, DialogHint
<1>4. CASE Destroy(w)
  BY <1>4 DEF Destroy
<1>5. CASE Activate(w)
  <2>1. locked' = locked /\ \E sel : FocusWindow(focusStack, win, sel, w)
    BY <1>5, Zenon DEF Activate
  <2> QED
    BY <2>1, FocusWindowLocked
<1> QED
  BY <1>1, <1>2, <1>3, <1>4, <1>5 DEF ClientEvent

LEMMA DeviceLocked ==
    ASSUME locked # "no", DeviceEvent
    PROVE  locked' = locked /\ focus' = focus
<1>1. CASE PointerMotion \/ Click
  BY <1>1, FocusWindowLocked DEF PointerMotion, Click
<1>2. CASE IpcView
  <2>1. locked' = locked /\ (\/ focus' = focus
                            \/ \E ms : SettleOn(focusStack, windows, win, ms, selMon))
    BY <1>2, Zenon DEF IpcView
  <2> QED
    BY <2>1, SettleLocked
<1>3. CASE \/ \E o \in Output : OutputAdded(o)
           \/ \E i \in DOMAIN monitors : OutputRemoved(i)
  BY <1>3 DEF OutputAdded, OutputRemoved
<1> QED
  BY <1>1, <1>2, <1>3 DEF DeviceEvent

\* What a step may do to the lock and the keyboard.
LEMMA LockSteps ==
    ASSUME [Next]_vars, locked # "no"
    PROVE  \/ locked' = locked /\ focus' \in {focus, None}
           \/ locked' = locked /\ locked = "ext" /\ focus' = LockSurface
           \/ locked' = "no"
<1>1. CASE UNCHANGED vars
  BY <1>1 DEF vars
<1>2. CASE BoundAction
  BY <1>2, BoundLocked
<1>3. CASE \E w \in Window : ClientEvent(w)
  BY <1>3, ClientLocked
<1>4. CASE DeviceEvent
  BY <1>4, DeviceLocked
<1>5. CASE LockEvent
  BY <1>5 DEF LockEvent, LockNative, LockExt, NewLockSurface, Unlock
<1> QED
  BY <1>1, <1>2, <1>3, <1>4, <1>5 DEF Next

\* Only the lock handlers touch `locked`.
LEMMA LockedElsewhere ==
    ASSUME BoundAction \/ (\E w \in Window : ClientEvent(w)) \/ DeviceEvent
    PROVE  locked' = locked
<1>1. CASE BoundAction
  BY <1>1, Zenon DEF BoundAction, View, ViewPrev, ViewNextOccTag, ToggleView, SwitchView, Tag, ToggleTag,
                     FocusStack, Zoom, ToggleFloating, ToggleFullscreen, ChangeFocused,
                     FocusMon, TagMon, ToggleScratch, FocusOrToggleScratch,
                     FocusOrToggleMatchingScratch, HideOrShow, HideScratch, ShowScratch
<1>2. CASE \E w \in Window : ClientEvent(w)
  <2>1. PICK w \in Window : ClientEvent(w)
    BY <1>2
  <2>2. CASE CommitFirst(w)
    <3>1. \E s, ms, sized : CommitRuled(w, s, ms, sized)
      BY <2>2, Zenon DEF CommitFirst
    <3> QED
      BY <3>1 DEF CommitRuled
  <2>3. CASE NewToplevel(w) \/ Destroy(w)
    BY <2>3, Zenon DEF NewToplevel, Destroy
  <2>4. CASE CommitBuffer(w) \/ FullscreenRequest(w) \/ ParentChanged(w) \/ DialogHint(w)
               \/ Activate(w)
    BY <2>4, Zenon DEF CommitBuffer, FullscreenRequest, ParentChanged, DialogHint, Activate
  <2> QED
    BY <2>1, <2>2, <2>3, <2>4 DEF ClientEvent
<1>3. CASE DeviceEvent
  BY <1>3, Zenon DEF DeviceEvent, PointerMotion, Click, IpcView, OutputAdded, OutputRemoved
<1> QED
  BY <1>1, <1>2, <1>3

LEMMA Engaging ==
    ASSUME [Next]_vars, locked = "no"
    PROVE  locked' \in {"no", "ext"} \/ (locked' = "native" /\ focus' = None)
<1>1. CASE UNCHANGED vars
  BY <1>1 DEF vars
<1>2. CASE LockEvent
  BY <1>2 DEF LockEvent, LockNative, LockExt, NewLockSurface, Unlock
<1> QED
  BY <1>1, <1>2, LockedElsewhere DEF Next

\* While the native locker is up no surface has the keyboard (lock.rs, focus_window).
THEOREM NativeLockKeepsSilence == Spec => []NativeLockSilent
<1>1. Init => NativeLockSilent
  BY DEF Init, NativeLockSilent
<1>2. NativeLockSilent /\ [Next]_vars => NativeLockSilent'
  BY LockSteps, Engaging DEF NativeLockSilent
<1> QED
  BY <1>1, <1>2, PTL DEF Spec

\* Behind either lock no handler hands the keyboard to a window: not the commit, the
\* activation, the end or the first frame of a client, nor a binding or a hotplug.
THEOREM LockKeepsKeyboard == Spec => LockHoldsKeyboard
<1>1. [Next]_vars
        => [locked # "no" /\ locked' # "no" /\ focus' # focus => focus' \notin Window]_vars
  BY LockSteps, WindowAssumption
<1> QED
  BY <1>1, PTL DEF Spec, LockHoldsKeyboard

-----------------------------------------------------------------------------
(***************************************************************************)
(* Types, views and tag histories.                                         *)
(***************************************************************************)

\* Tag sets a monitor may show, deques of them, and monitors that show one.
Views == TagSets \ {{}}
Histories == {h \in Seq(Views) : Distinct(h) /\ Len(h) <= HistoryCap}
ShowingMonitors == [output : Output, tagset : [{0, 1} -> Views], selTags : {0, 1}]

-----------------------------------------------------------------------------
(***************************************************************************)
(* The operations of struct Monitor.                                       *)
(***************************************************************************)

LEMMA NewMonitorShows ==
    ASSUME NEW o \in Output
    PROVE  NewMonitor(o) \in ShowingMonitors
<1>1. {1} \in Views
  BY TagCountAssumption DEF Views, TagSets, Tags
<1> QED
  BY <1>1 DEF NewMonitor, ShowingMonitors

LEMMA TagsOfShow ==
    ASSUME NEW m \in ShowingMonitors
    PROVE  TagsOf(m) \in Views /\ PreviousTagsOf(m) \in Views
BY DEF TagsOf, PreviousTagsOf, ShowingMonitors

LEMMA FlippedShows ==
    ASSUME NEW m \in ShowingMonitors, NEW shown \in Views
    PROVE  Flipped(m, shown) \in ShowingMonitors
<1>1. m.selTags \in {0, 1} /\ m.tagset \in [{0, 1} -> Views] /\ m.output \in Output
  BY DEF ShowingMonitors
<1> DEFINE other == 1 - m.selTags
           slots == [m.tagset EXCEPT ![other] = shown]
<1>2. other \in {0, 1}
  BY <1>1
<1> HIDE DEF other
<1>3. slots \in [{0, 1} -> Views]
  BY <1>1, <1>2
<1> HIDE DEF slots
<1>4. [m EXCEPT !.selTags = other, !.tagset = slots] \in ShowingMonitors
  BY <1>2, <1>3 DEF ShowingMonitors
<1> QED
  BY <1>4 DEF Flipped, other, slots

\* view, toggle_view and view_prev, for any mask.
LEMMA ViewsShow ==
    ASSUME NEW m \in ShowingMonitors, NEW mask
    PROVE  /\ ViewOf(m, mask) \in ShowingMonitors
           /\ ToggleViewOf(m, mask) \in ShowingMonitors
           /\ ViewPrevOf(m) \in ShowingMonitors
<1>1. \A shown : shown \subseteq Tags /\ shown # {} => shown \in Views
  BY DEF Views, TagSets
<1>2. ViewOf(m, mask) \in ShowingMonitors
  <2> DEFINE shown == mask \cap Tags
  <2>1. ViewOf(m, mask) = IF shown = {} \/ shown = TagsOf(m) THEN m ELSE Flipped(m, shown)
    BY DEF ViewOf
  <2>2. shown # {} => shown \in Views
    BY <1>1
  <2> HIDE DEF shown
  <2> QED
    BY <2>1, <2>2, FlippedShows
<1>3. ToggleViewOf(m, mask) \in ShowingMonitors
  <2> DEFINE shown == Xor(TagsOf(m), mask) \cap Tags
  <2>1. ToggleViewOf(m, mask) = IF shown = {} THEN m ELSE Flipped(m, shown)
    BY DEF ToggleViewOf
  <2>2. shown # {} => shown \in Views
    BY <1>1
  <2> HIDE DEF shown
  <2> QED
    BY <2>1, <2>2, FlippedShows
<1>4. ViewPrevOf(m) \in ShowingMonitors
  BY DEF ViewPrevOf, ShowingMonitors
<1> QED
  BY <1>2, <1>3, <1>4

LEMMA ReassignedShows ==
    ASSUME NEW m \in ShowingMonitors, NEW shown \in Views
    PROVE  Reassigned(m, shown) \in ShowingMonitors
BY DEF Reassigned, ShowingMonitors

\* A deque loses a mask, or gets the one being left at its end.
LEMMA HistoryForgets ==
    ASSUME NEW h \in Histories, NEW mask
    PROVE  Without(h, mask) \in Histories
<1>1. h \in Seq(Views) /\ Distinct(h) /\ Len(h) <= HistoryCap
  BY DEF Histories
<1>2. /\ Without(h, mask) \in Seq(Views) /\ Distinct(Without(h, mask))
      /\ Len(Without(h, mask)) <= Len(h)
  BY <1>1, WithoutElements
<1>3. Len(Without(h, mask)) \in Nat /\ Len(h) \in Nat
  BY <1>1, <1>2, LenProperties
<1>4. Len(Without(h, mask)) <= HistoryCap
  BY <1>1, <1>2, <1>3, HistoryCapAssumption
<1> QED
  BY <1>2, <1>4 DEF Histories

LEMMA HistoryRecords ==
    ASSUME NEW h \in Histories, NEW left \in Views, NEW target
    PROVE  Recorded(h, left, target) \in Histories
<1> DEFINE rest == Without(h, left)
           grown == Append(rest, left)
<1>1. rest \in Histories
  BY HistoryForgets
<1>2. left \notin Elements(rest)
  BY WithoutElements DEF Histories
<1> HIDE DEF rest
<1>3. /\ rest \in Seq(Views) /\ Distinct(rest) /\ Len(rest) \in Nat /\ Len(rest) <= HistoryCap
  BY <1>1, LenProperties DEF Histories
<1>4. /\ grown \in Seq(Views) /\ Len(grown) = Len(rest) + 1
      /\ \A i \in 1 .. Len(grown) : grown[i] = IF i = Len(grown) THEN left ELSE rest[i]
  BY <1>3
<1> HIDE DEF grown
<1>5. Distinct(grown)
  <2> SUFFICES ASSUME NEW i \in 1 .. Len(grown), NEW j \in 1 .. Len(grown),
                      grown[i] = grown[j], i < j
               PROVE  FALSE
    BY <1>4 DEF Distinct
  <2>1. i \in DOMAIN rest /\ grown[i] = rest[i]
    BY <1>3, <1>4
  <2>2. CASE j = Len(grown)
    <3>1. grown[j] = left
      BY <1>4, <2>2
    <3> QED
      BY <1>2, <2>1, <3>1 DEF Elements
  <2>3. CASE j # Len(grown)
    <3>1. j \in DOMAIN rest /\ grown[j] = rest[j]
      BY <1>3, <1>4, <2>3
    <3>2. i = j
      BY <1>3, <2>1, <3>1, Zenon DEF Distinct
    <3> QED
      BY <3>2
  <2> QED
    BY <2>2, <2>3
<1>6. CASE Len(grown) > HistoryCap
  <2> DEFINE tail == Tail(grown)
  <2>1. grown # <<>>
    BY <1>3, <1>4
  <2>2. /\ tail \in Seq(Views) /\ Len(tail) = Len(grown) - 1
        /\ \A i \in 1 .. Len(tail) : tail[i] = grown[i + 1]
    BY <1>4, <2>1, HeadTailProperties
  <2> HIDE DEF tail
  <2>3. Distinct(tail)
    <3> SUFFICES ASSUME NEW i \in 1 .. Len(tail), NEW j \in 1 .. Len(tail), tail[i] = tail[j]
                 PROVE  i = j
      BY <2>2 DEF Distinct
    <3>1. i + 1 \in 1 .. Len(grown) /\ j + 1 \in 1 .. Len(grown) /\ grown[i + 1] = grown[j + 1]
      BY <1>3, <1>4, <2>2
    <3>2. i + 1 = j + 1
      BY <1>4, <1>5, <3>1 DEF Distinct
    <3> QED
      BY <3>2
  <2>4. Len(tail) <= HistoryCap
    BY <1>3, <1>4, <2>2
  <2>5. tail \in Histories
    BY <2>2, <2>3, <2>4 DEF Histories
  <2> QED
    BY <1>6, <2>5 DEF Recorded, tail, grown, rest
<1>7. CASE ~(Len(grown) > HistoryCap)
  <2>1. Len(grown) <= HistoryCap
    BY <1>3, <1>4, <1>7, HistoryCapAssumption
  <2>2. grown \in Histories
    BY <1>4, <1>5, <2>1 DEF Histories
  <2> QED
    BY <1>7, <2>2 DEF Recorded, grown, rest
<1> QED
  BY <1>6, <1>7

-----------------------------------------------------------------------------
(***************************************************************************)
(* The inductive invariant, and the changes a handler makes to a window.   *)
(***************************************************************************)

WinStates == {s \in WindowState : s.switchToTag # {}}

TagInv ==
    /\ win \in [Window -> WinStates]
    /\ monitors \in Seq(ShowingMonitors)
    /\ tagHistory \in Seq(Histories)
    /\ Len(tagHistory) = Len(monitors)
    /\ selMon \in Nat \ {0}

LEMMA NewWindowTyped == NewWindow \in WinStates
BY NoneAssumption DEF NewWindow, WinStates, WindowState, TagSets

LEMMA Moved ==
    ASSUME NEW s \in WinStates, NEW tags \in TagSets, NEW mon \in Nat \ {0}
    PROVE  /\ [s EXCEPT !.tags = tags] \in WinStates
           /\ [s EXCEPT !.tags = tags, !.mon = mon] \in WinStates
BY DEF WinStates, WindowState

LEMMA Flagged ==
    ASSUME NEW s \in WinStates, NEW b \in BOOLEAN, NEW c \in BOOLEAN
    PROVE  /\ [s EXCEPT !.floating = b, !.needsCentering = c] \in WinStates
           /\ [s EXCEPT !.fullscreen = b] \in WinStates
           /\ [s EXCEPT !.rulesApplied = b] \in WinStates
           /\ [s EXCEPT !.swallowed = b] \in WinStates
           /\ [s EXCEPT !.swallowing = None] \in WinStates
           /\ [s EXCEPT !.bufferMapped = TRUE, !.floating = b, !.needsCentering = c]
                  \in WinStates
BY DEF WinStates, WindowState

LEMMA Linked ==
    ASSUME NEW s \in WinStates, NEW tags \in TagSets, NEW mon \in Nat \ {0},
           NEW b \in BOOLEAN, NEW t \in Window
    PROVE  /\ [s EXCEPT !.tags = tags, !.mon = mon, !.floating = b, !.needsCentering = b,
                        !.swallowing = t] \in WinStates
           /\ [s EXCEPT !.swallowed = b, !.tags = tags, !.mon = mon] \in WinStates
BY DEF WinStates, WindowState

LEMMA RuledByRule ==
    ASSUME NEW s \in WinStates, NEW tags \in TagSets, NEW mon \in Nat \ {0},
           NEW b \in BOOLEAN, NEW c \in BOOLEAN, NEW left \in Views \cup {None}
    PROVE  [s EXCEPT !.rulesApplied = TRUE, !.named = TRUE, !.tags = tags, !.mon = mon,
                     !.floating = b, !.needsCentering = b, !.scratch = c,
                     !.switchToTag = left] \in WinStates
<1>1. left \in TagSets \cup {None} /\ left # {}
  BY NoneAssumption DEF Views
<1> DEFINE u == [s EXCEPT !.rulesApplied = TRUE, !.named = TRUE, !.tags = tags, !.mon = mon]
<1>2. u \in WindowState
  BY DEF WinStates, WindowState
<1> DEFINE v == [u EXCEPT !.floating = b, !.needsCentering = b, !.scratch = c]
<1>3. v \in WindowState
  <2> HIDE DEF u
  <2> QED
    BY <1>2 DEF WindowState
<1>4. [v EXCEPT !.switchToTag = left] \in WinStates
  <2> HIDE DEF v
  <2> QED
    BY <1>1, <1>3 DEF WinStates, WindowState
<1> QED
  BY <1>4

LEMMA RuledByParent ==
    ASSUME NEW s \in WinStates, NEW tags \in TagSets, NEW mon \in Nat \ {0}
    PROVE  [s EXCEPT !.rulesApplied = TRUE, !.named = TRUE, !.floating = TRUE,
                     !.needsCentering = TRUE, !.tags = tags, !.mon = mon] \in WinStates
BY DEF WinStates, WindowState

LEMMA PlacementShows ==
    ASSUME NEW ms \in Seq(ShowingMonitors), NEW i
    PROVE  PlacementTags(ms, i) \in TagSets
<1>1. {1} \in TagSets
  BY TagCountAssumption DEF TagSets, Tags
<1>2. i \in DOMAIN ms => TagsOf(ms[i]) \in TagSets
  <2> SUFFICES ASSUME i \in DOMAIN ms PROVE TagsOf(ms[i]) \in TagSets
    OBVIOUS
  <2>1. ms[i] \in ShowingMonitors
    OBVIOUS
  <2> QED
    BY <2>1, TagsOfShow DEF Views
<1> QED
  BY <1>1, <1>2 DEF PlacementTags

LEMMA MonitorShows ==
    ASSUME TagInv, NEW i \in DOMAIN monitors
    PROVE  /\ monitors[i] \in ShowingMonitors
           /\ TagsOf(monitors[i]) \in Views /\ PreviousTagsOf(monitors[i]) \in Views
           /\ i \in Nat \ {0} /\ i \in DOMAIN tagHistory /\ tagHistory[i] \in Histories
<1>1. monitors[i] \in ShowingMonitors
  BY DEF TagInv
<1>2. i \in Nat \ {0} /\ i \in DOMAIN tagHistory
  BY DEF TagInv
<1>3. tagHistory[i] \in Histories
  BY <1>2 DEF TagInv
<1> QED
  BY <1>1, <1>2, <1>3, TagsOfShow

LEMMA MonitorsWithShow ==
    ASSUME TagInv, NEW i, NEW m, i \in DOMAIN monitors => m \in ShowingMonitors
    PROVE  /\ MonitorsWith(i, m) \in Seq(ShowingMonitors)
           /\ Len(MonitorsWith(i, m)) = Len(monitors)
<1>1. CASE i \in DOMAIN monitors
  <2>1. monitors \in Seq(ShowingMonitors) /\ i \in 1 .. Len(monitors) /\ m \in ShowingMonitors
    BY <1>1 DEF TagInv
  <2>2. /\ [monitors EXCEPT ![i] = m] \in Seq(ShowingMonitors)
        /\ Len([monitors EXCEPT ![i] = m]) = Len(monitors)
    BY <2>1, ExceptSeq
  <2> QED
    BY <1>1, <2>2 DEF MonitorsWith
<1>2. CASE i \notin DOMAIN monitors
  BY <1>2 DEF MonitorsWith, TagInv
<1> QED
  BY <1>1, <1>2

\* A history entry replaced by another one.
LEMMA HistoryReplaced ==
    ASSUME TagInv, NEW i \in DOMAIN monitors, NEW h \in Histories
    PROVE  /\ [tagHistory EXCEPT ![i] = h] \in Seq(Histories)
           /\ Len([tagHistory EXCEPT ![i] = h]) = Len(monitors)
<1>1. tagHistory \in Seq(Histories) /\ i \in 1 .. Len(tagHistory) /\ Len(tagHistory) = Len(monitors)
  BY MonitorShows DEF TagInv
<1>2. /\ [tagHistory EXCEPT ![i] = h] \in Seq(Histories)
      /\ Len([tagHistory EXCEPT ![i] = h]) = Len(tagHistory)
  BY <1>1, ExceptSeq
<1> QED
  BY <1>1, <1>2

LEMMA HistoryAfterKeeps ==
    ASSUME TagInv, NEW i, NEW target
    PROVE  /\ HistoryAfter(i, target) \in Seq(Histories)
           /\ Len(HistoryAfter(i, target)) = Len(monitors)
<1>1. CASE i \in DOMAIN monitors
  <2> DEFINE h == Recorded(tagHistory[i], TagsOf(monitors[i]), target)
  <2>1. h \in Histories
    BY <1>1, MonitorShows, HistoryRecords
  <2>2. HistoryAfter(i, target) = [tagHistory EXCEPT ![i] = h]
    BY <1>1 DEF HistoryAfter
  <2> HIDE DEF h
  <2> QED
    BY <1>1, <2>1, <2>2, HistoryReplaced
<1>2. CASE i \notin DOMAIN monitors
  BY <1>2 DEF HistoryAfter, TagInv
<1> QED
  BY <1>1, <1>2

\* sel_mon follows a window's monitor or stays.
LEMMA Selects ==
    ASSUME NEW wn \in [Window -> WinStates], NEW sel \in Nat \ {0}, NEW stack,
           NEW w \in Window \cup {None}
    PROVE  SelectedAfter(stack, wn, sel, w) \in Nat \ {0}
<1>1. w # None => wn[w].mon \in Nat \ {0}
  BY DEF WinStates, WindowState
<1> QED
  BY <1>1 DEF SelectedAfter

LEMMA FocusedTyped ==
    ASSUME NEW stack \in Seq(Window), NEW wn, NEW ms, NEW sel
    PROVE  FocusedIn(stack, wn, ms, sel) \in Window \cup {None}
<1> DEFINE T == OwnedBy(wn, ms, sel)
<1>1. FirstIn(stack, T, None) = None \/ FirstIn(stack, T, None) \in Elements(stack) \cap T
  <2> HIDE DEF T
  <2> QED
    BY FirstInFinds
<1> QED
  BY <1>1, ElementsOf DEF FocusedIn

LEMMA SettleSelects ==
    ASSUME NEW wn \in [Window -> WinStates], NEW sel \in Nat \ {0}, NEW stack \in Seq(Window),
           NEW ws, NEW ms, SettleOn(stack, ws, wn, ms, sel)
    PROVE  selMon' \in Nat \ {0}
<1>1. FocusedIn(stack, wn, ms, sel) \in Window \cup {None}
  BY FocusedTyped
<1> QED
  BY <1>1, Selects DEF SettleOn, FocusWindow

-----------------------------------------------------------------------------
(***************************************************************************)
(* The actions.                                                            *)
(***************************************************************************)

\* What the actions may take for granted.
Known == ListInv /\ TagInv

LEMMA KnownTypes ==
    ASSUME Known
    PROVE  /\ windows \in Seq(Window) /\ focusStack \in Seq(Window)
           /\ Elements(windows) \subseteq Window /\ Elements(focusStack) \subseteq Window
           /\ FocusedWindow \in Window \cup {None}
           /\ win \in [Window -> WinStates] /\ selMon \in Nat \ {0}
           /\ monitors \in Seq(ShowingMonitors)
<1>1. windows \in Seq(Window) /\ focusStack \in Seq(Window)
  BY DEF Known, ListInv, Sound
<1>2. Elements(windows) \subseteq Window /\ Elements(focusStack) \subseteq Window
  BY <1>1, ElementsOf
<1>3. FocusedWindow \in Window \cup {None}
  BY <1>1, FocusedTyped DEF FocusedWindow
<1> QED
  BY <1>1, <1>2, <1>3 DEF Known, TagInv

LEMMA SwitchTyped ==
    ASSUME Known, NEW m, selMon \in DOMAIN monitors => m \in ShowingMonitors, NEW target,
           SwitchView(m, target)
    PROVE  TagInv'
<1>1. win' = win /\ monitors' = MonitorsWith(selMon, m) /\ tagHistory' = HistoryAfter(selMon, target)
  BY DEF SwitchView
<1>2. monitors' \in Seq(ShowingMonitors) /\ Len(monitors') = Len(monitors)
  BY <1>1, MonitorsWithShow DEF Known
<1>3. tagHistory' \in Seq(Histories) /\ Len(tagHistory') = Len(monitors)
  BY <1>1, HistoryAfterKeeps DEF Known
<1>4. selMon' \in Nat \ {0}
  BY KnownTypes, SettleSelects DEF SwitchView
<1> QED
  BY <1>1, <1>2, <1>3, <1>4 DEF TagInv, Known

LEMMA ViewTyped ==
    ASSUME Known, View \/ ViewPrev \/ ViewNextOccTag \/ ToggleView
    PROVE  TagInv'
<1>1. selMon \in DOMAIN monitors
  BY DEF View, ViewPrev, ViewNextOccTag, ToggleView
<1> DEFINE m == monitors[selMon]
<1>2. m \in ShowingMonitors
  BY <1>1, MonitorShows DEF Known
<1>3. \A mask : /\ ViewOf(m, mask) \in ShowingMonitors
                /\ ToggleViewOf(m, mask) \in ShowingMonitors
                /\ ViewPrevOf(m) \in ShowingMonitors
  <2> HIDE DEF m
  <2> QED
    BY <1>2, ViewsShow
<1>4. \E mask, target : \/ SwitchView(ViewOf(m, mask), target)
                        \/ SwitchView(ToggleViewOf(m, mask), target)
                        \/ SwitchView(ViewPrevOf(m), target)
  <2>1. CASE View
    BY <2>1, Zenon DEF View
  <2>2. CASE ViewPrev
    BY <2>2, Zenon DEF ViewPrev
  <2>3. CASE ViewNextOccTag
    BY <2>3, Zenon DEF ViewNextOccTag
  <2>4. CASE ToggleView
    BY <2>4, Zenon DEF ToggleView
  <2> QED
    BY <2>1, <2>2, <2>3, <2>4
<1> HIDE DEF m
<1> QED
  BY <1>3, <1>4, SwitchTyped

\* A window gets other tags: Tag and ToggleTag.
LEMMA Retagged ==
    ASSUME Known, NEW w \in Window, NEW tags \in TagSets, NEW mon \in Nat \ {0}
    PROVE  /\ [win EXCEPT ![w].tags = tags] \in [Window -> WinStates]
           /\ [win EXCEPT ![w].tags = tags, ![w].mon = mon] \in [Window -> WinStates]
<1>1. win \in [Window -> WinStates] /\ win[w] \in WinStates
  BY DEF Known, TagInv
<1>2. [win[w] EXCEPT !.tags = tags] \in WinStates
  BY <1>1, Moved
<1>3. [win[w] EXCEPT !.tags = tags, !.mon = mon] \in WinStates
  BY <1>1, Moved
<1>4. [win EXCEPT ![w].tags = tags] = [win EXCEPT ![w] = [win[w] EXCEPT !.tags = tags]]
  BY <1>1
<1>5. [win EXCEPT ![w].tags = tags, ![w].mon = mon]
         = [win EXCEPT ![w] = [win[w] EXCEPT !.tags = tags, !.mon = mon]]
  BY <1>1
<1> QED
  BY <1>1, <1>2, <1>3, <1>4, <1>5

LEMMA OnlyWindows ==
    ASSUME Known, UNCHANGED <<monitors, tagHistory>>,
           win' \in [Window -> WinStates], selMon' \in Nat \ {0}
    PROVE  TagInv'
BY DEF Known, TagInv

LEMMA TagTyped == Known /\ Tag => TagInv'
<1> SUFFICES ASSUME Known, Tag PROVE TagInv'
  OBVIOUS
<1> DEFINE w == FocusedWindow
           follows == w # None /\ Follow /\ selMon \in DOMAIN monitors
           moved(mask) == IF w = None THEN win ELSE [win EXCEPT ![w].tags = mask]
           ms(mask) == IF follows THEN MonitorsWith(selMon, ViewOf(monitors[selMon], mask))
                       ELSE monitors
<1>1. PICK mask \in TagSets :
         /\ win' = moved(mask) /\ monitors' = ms(mask)
         /\ tagHistory' = IF follows THEN HistoryAfter(selMon, mask) ELSE tagHistory
         /\ SettleOn(focusStack, windows, moved(mask), ms(mask), selMon)
  <2>1. \A k : k \cap Tags \in TagSets
    BY DEF TagSets
  <2> QED
    BY <2>1, Zenon DEF Tag
<1>2. win' \in [Window -> WinStates]
  <2>1. win \in [Window -> WinStates] /\ w \in Window \cup {None}
    BY KnownTypes
  <2>2. w \in Window => [win EXCEPT ![w].tags = mask] \in [Window -> WinStates]
    <3> HIDE DEF w
    <3>1. 1 \in Nat \ {0}
      OBVIOUS
    <3> QED
      BY <3>1, Retagged
  <2> HIDE DEF w
  <2> QED
    BY <1>1, <2>1, <2>2
<1>3. monitors' \in Seq(ShowingMonitors) /\ Len(monitors') = Len(monitors)
  <2>1. selMon \in DOMAIN monitors => ViewOf(monitors[selMon], mask) \in ShowingMonitors
    BY MonitorShows, ViewsShow DEF Known
  <2>2. /\ MonitorsWith(selMon, ViewOf(monitors[selMon], mask)) \in Seq(ShowingMonitors)
        /\ Len(MonitorsWith(selMon, ViewOf(monitors[selMon], mask))) = Len(monitors)
    BY <2>1, MonitorsWithShow DEF Known
  <2> HIDE DEF follows
  <2> QED
    BY <1>1, <2>2, KnownTypes
<1>4. tagHistory' \in Seq(Histories) /\ Len(tagHistory') = Len(monitors)
  <2>1. /\ HistoryAfter(selMon, mask) \in Seq(Histories)
        /\ Len(HistoryAfter(selMon, mask)) = Len(monitors)
    BY HistoryAfterKeeps DEF Known
  <2> HIDE DEF follows
  <2> QED
    BY <1>1, <2>1 DEF Known, TagInv
<1>5. selMon' \in Nat \ {0}
  <2>1. moved(mask) \in [Window -> WinStates]
    BY <1>1, <1>2
  <2> HIDE DEF moved, ms
  <2> QED
    BY <1>1, <2>1, KnownTypes, SettleSelects
<1> QED
  BY <1>2, <1>3, <1>4, <1>5 DEF TagInv

\* One window gets another state.
LEMMA Replaced ==
    ASSUME Known, NEW w \in Window, NEW s \in WinStates
    PROVE  [win EXCEPT ![w] = s] \in [Window -> WinStates]
BY DEF Known, TagInv

\* ToggleTag, ToggleFloating, ToggleFullscreen
LEMMA FocusedStateTyped ==
    ASSUME Known, ToggleTag \/ ToggleFloating \/ ToggleFullscreen
    PROVE  TagInv'
<1> DEFINE w == FocusedWindow
<1>1. w \in Window /\ win[w] \in WinStates /\ 1 \in Nat \ {0}
  BY KnownTypes DEF ToggleTag, ToggleFloating, ToggleFullscreen
<1>2. UNCHANGED <<monitors, tagHistory, selMon>> /\ selMon \in Nat \ {0}
  BY KnownTypes DEF ToggleTag, ToggleFloating, ToggleFullscreen, ChangeFocused
<1>3. CASE ToggleTag
  <2>1. PICK tags \in TagSets : win' = [win EXCEPT ![w].tags = tags]
    <3>1. \A S : S \cap Tags \in TagSets
      BY DEF TagSets
    <3> QED
      BY <1>3, <3>1, Zenon DEF ToggleTag
  <2> HIDE DEF w
  <2>2. [win EXCEPT ![w].tags = tags] \in [Window -> WinStates]
    BY <1>1, Retagged
  <2>3. win' \in [Window -> WinStates]
    BY <2>1, <2>2
  <2> QED
    BY <1>2, <2>3, OnlyWindows
<1>4. CASE ToggleFloating
  <2> DEFINE b == ~win[w].floating
             c == win[w].needsCentering \/ ~win[w].floating
             s == [win[w] EXCEPT !.floating = b, !.needsCentering = c]
  <2>1. win' = [win EXCEPT ![w] = s]
    BY <1>4 DEF ToggleFloating, ChangeFocused
  <2>2. b \in BOOLEAN /\ c \in BOOLEAN
    OBVIOUS
  <2> HIDE DEF b, c, w
  <2>3. s \in WinStates
    BY <1>1, <2>2, Flagged
  <2> HIDE DEF s
  <2> QED
    BY <1>1, <1>2, <2>1, <2>3, Replaced, OnlyWindows
<1>5. CASE ToggleFullscreen
  <2> DEFINE b == ~win[w].fullscreen
             s == [win[w] EXCEPT !.fullscreen = b]
  <2>1. win' = [win EXCEPT ![w] = s]
    BY <1>5 DEF ToggleFullscreen, ChangeFocused
  <2>2. b \in BOOLEAN
    OBVIOUS
  <2> HIDE DEF b, w
  <2>3. s \in WinStates
    BY <1>1, <2>2, Flagged
  <2> HIDE DEF s
  <2> QED
    BY <1>1, <1>2, <2>1, <2>3, Replaced, OnlyWindows
<1> QED
  BY <1>3, <1>4, <1>5

\* FocusStack, Zoom, Click, PointerMotion: the window states stay.
LEMMA FocusTyped ==
    ASSUME Known, UNCHANGED <<win, monitors, tagHistory>>,
           NEW sel \in Nat \ {0}, NEW w \in Window \cup {None},
           FocusWindow(focusStack, win, sel, w)
    PROVE  TagInv'
<1>1. selMon' \in Nat \ {0}
  BY KnownTypes, Selects DEF FocusWindow
<1> QED
  BY <1>1, KnownTypes, OnlyWindows

LEMMA FocusActionsFocus ==
    ASSUME Known, FocusStack \/ Zoom \/ FocusMon
    PROVE  \E sel \in Nat \ {0}, w \in Window \cup {None} :
               FocusWindow(focusStack, win, sel, w)
<1>1. CASE FocusStack
  <2>1. PICK forward \in BOOLEAN : FocusWindow(focusStack, win, selMon, FocusStep(forward))
    BY <1>1, Zenon DEF FocusStack
  <2>2. FocusStep(forward) \in Window \cup {None}
    BY FocusStepListed, KnownTypes
  <2> QED
    BY <2>1, <2>2, KnownTypes
<1>2. CASE Zoom
  <2> DEFINE T == {w \in OwnedBy(win, monitors, selMon) : ~win[w].floating /\ win[w].rulesApplied}
             c == FirstIn(windows, T \ {FocusedWindow}, None)
             promoted == IF FirstIn(windows, T, None) = FocusedWindow THEN c ELSE FocusedWindow
  <2>1. FocusWindow(focusStack, win, selMon, promoted)
    BY <1>2 DEF Zoom
  <2>2. c \in Window \cup {None}
    <3> DEFINE U == T \ {FocusedWindow}
    <3>1. FirstIn(windows, U, None) = None \/ FirstIn(windows, U, None) \in Elements(windows) \cap U
      <4> HIDE DEF U
      <4> QED
        BY KnownTypes, FirstInFinds
    <3>2. c = FirstIn(windows, U, None)
      OBVIOUS
    <3> HIDE DEF U, c
    <3> QED
      BY <3>1, <3>2, KnownTypes
  <2> HIDE DEF c
  <2>3. promoted \in Window \cup {None}
    BY <2>2, KnownTypes
  <2> HIDE DEF promoted
  <2> QED
    BY <2>1, <2>3, KnownTypes
<1>3. CASE FocusMon
  <2>1. PICK next \in Neighbours(selMon) :
           FocusWindow(focusStack, win, next, FocusedIn(focusStack, win, monitors, next))
    BY <1>3 DEF FocusMon
  <2>2. FocusedIn(focusStack, win, monitors, next) \in Window \cup {None}
    BY KnownTypes, FocusedTyped
  <2>3. next \in DOMAIN monitors /\ next \in Nat \ {0}
    BY KnownTypes DEF Neighbours
  <2> QED
    BY <2>1, <2>2, <2>3
<1> QED
  BY <1>1, <1>2, <1>3

LEMMA FocusActionsTyped ==
    ASSUME Known, FocusStack \/ Zoom \/ FocusMon
    PROVE  TagInv'
<1>1. UNCHANGED <<win, monitors, tagHistory>>
  BY DEF FocusStack, Zoom, FocusMon
<1> QED
  BY <1>1, FocusActionsFocus, FocusTyped

LEMMA NeighbourMonitors ==
    ASSUME Known, NEW next \in Neighbours(selMon)
    PROVE  next \in DOMAIN monitors /\ next \in Nat \ {0} /\ TagsOf(monitors[next]) \in TagSets
<1>1. next \in DOMAIN monitors /\ next \in Nat \ {0}
  BY KnownTypes DEF Neighbours
<1>2. TagsOf(monitors[next]) \in Views
  BY <1>1, MonitorShows DEF Known
<1> QED
  BY <1>1, <1>2 DEF Views

LEMMA TagMonTyped == Known /\ TagMon => TagInv'
<1> SUFFICES ASSUME Known, TagMon PROVE TagInv'
  OBVIOUS
<1> DEFINE w == FocusedWindow
<1>1. PICK next \in Neighbours(selMon) :
         /\ win' = [win EXCEPT ![w].tags = TagsOf(monitors[next]), ![w].mon = next]
         /\ \/ FocusWindow(focusStack, win', next, w)
            \/ selMon' = selMon
  BY Zenon DEF TagMon
<1>2. UNCHANGED <<monitors, tagHistory>> /\ w \in Window
  BY KnownTypes DEF TagMon
<1> HIDE DEF w
<1>3. win' \in [Window -> WinStates]
  <2> DEFINE tags == TagsOf(monitors[next])
  <2>1. next \in Nat \ {0} /\ tags \in TagSets
    BY NeighbourMonitors
  <2> HIDE DEF tags
  <2>2. [win EXCEPT ![w].tags = tags, ![w].mon = next] \in [Window -> WinStates]
    BY <1>2, <2>1, Retagged
  <2> QED
    BY <1>1, <2>2 DEF tags
<1>4. selMon' \in Nat \ {0}
  <2>1. next \in Nat \ {0}
    BY NeighbourMonitors
  <2>2. SelectedAfter(focusStack, win', next, w) \in Nat \ {0}
    BY <1>2, <1>3, <2>1, Selects
  <2> QED
    BY <1>1, <1>2, <1>3, <2>1, <2>2, KnownTypes DEF FocusWindow
<1> QED
  BY <1>2, <1>3, <1>4, OnlyWindows

\* The scratchpads.
LEMMA HideOrShowTyped ==
    ASSUME Known, NEW w \in Elements(windows), NEW hide, HideOrShow(w, hide)
    PROVE  TagInv'
<1>1. w \in Window /\ 1 \in Nat \ {0}
  BY KnownTypes
<1>2. UNCHANGED <<monitors, tagHistory>>
  BY DEF HideOrShow, HideScratch, ShowScratch
<1>3. CASE HideScratch(w)
  <2> DEFINE stack == Without(focusStack, w)
  <2>1. /\ win' = [win EXCEPT ![w].tags = {}]
        /\ SettleOn(stack, windows, win', monitors, selMon)
    BY <1>3, Zenon DEF HideScratch
  <2>2. win' \in [Window -> WinStates]
    <3>1. {} \in TagSets
      BY DEF TagSets
    <3> QED
      BY <1>1, <2>1, <3>1, Retagged
  <2>3. stack \in Seq(Window)
    BY WithoutElements DEF Known, ListInv, Sound
  <2> HIDE DEF stack
  <2>4. selMon' \in Nat \ {0}
    BY <2>1, <2>2, <2>3, KnownTypes, SettleSelects
  <2> QED
    BY <1>2, <2>2, <2>4, OnlyWindows
<1>4. CASE ShowScratch(w)
  <2> DEFINE tags == PlacementTags(monitors, selMon)
  <2>1. /\ win' = [win EXCEPT ![w].tags = tags]
        /\ FocusWindow(focusStack, win', selMon, w)
    BY <1>4, Zenon DEF ShowScratch
  <2>2. tags \in TagSets
    BY PlacementShows, KnownTypes
  <2> HIDE DEF tags
  <2>3. [win EXCEPT ![w].tags = tags] \in [Window -> WinStates]
    BY <1>1, <2>2, Retagged
  <2>4. win' \in [Window -> WinStates]
    BY <2>1, <2>3
  <2>5. selMon' \in Nat \ {0}
    BY <1>1, <2>1, <2>4, KnownTypes, Selects DEF FocusWindow
  <2> QED
    BY <1>2, <2>4, <2>5, OnlyWindows
<1> QED
  BY <1>3, <1>4 DEF HideOrShow

LEMMA ScratchTargets ==
    ASSUME Known, ToggleScratch \/ FocusOrToggleScratch \/ FocusOrToggleMatchingScratch
    PROVE  \E w \in Elements(windows) : \E hide : HideOrShow(w, hide)
<1>1. \A T : FirstIn(windows, T, None) \in Elements(windows) \cup {None}
  BY KnownTypes, FirstInFinds
<1>2. CASE ToggleScratch \/ FocusOrToggleScratch
  <2>1. ScratchWindow \in Elements(windows)
    BY <1>1, <1>2 DEF ToggleScratch, FocusOrToggleScratch, ScratchWindow
  <2> QED
    BY <1>2, <2>1, Zenon DEF ToggleScratch, FocusOrToggleScratch
<1>3. CASE FocusOrToggleMatchingScratch
  <2> DEFINE T == {v \in Window : win[v].scratch \/ (v \in ScratchApps /\ win[v].named)}
             w == FirstIn(windows, T, None)
  <2>1. w # None /\ HideOrShow(w, VisibleHere(w))
    BY <1>3, Zenon DEF FocusOrToggleMatchingScratch
  <2>2. w \in Elements(windows) \cup {None}
    BY <1>1
  <2> HIDE DEF w
  <2> QED
    BY <2>1, <2>2
<1> QED
  BY <1>2, <1>3

LEMMA ScratchTyped ==
    ASSUME Known, ToggleScratch \/ FocusOrToggleScratch \/ FocusOrToggleMatchingScratch
    PROVE  TagInv'
BY ScratchTargets, HideOrShowTyped

LEMMA NewToplevelTyped ==
    ASSUME Known, NEW w \in Window, NewToplevel(w)
    PROVE  TagInv'
<1> DEFINE tags == PlacementTags(monitors, selMon)
           s == [NewWindow EXCEPT !.tags = tags, !.mon = selMon]
<1>1. win' = [win EXCEPT ![w] = s] /\ UNCHANGED <<monitors, selMon, tagHistory>>
  BY Zenon DEF NewToplevel
<1>2. tags \in TagSets /\ selMon \in Nat \ {0}
  BY PlacementShows, KnownTypes
<1> HIDE DEF tags
<1>3. s \in WinStates
  BY <1>2, NewWindowTyped, Moved
<1> HIDE DEF s
<1> QED
  BY <1>1, <1>2, <1>3, Replaced, OnlyWindows

\* Requests that set a flag.
LEMMA RequestsTyped ==
    ASSUME Known, NEW w \in Window, FullscreenRequest(w) \/ ParentChanged(w) \/ DialogHint(w)
    PROVE  TagInv'
<1>1. UNCHANGED <<monitors, selMon, tagHistory>> /\ selMon \in Nat \ {0}
  BY KnownTypes DEF FullscreenRequest, ParentChanged, DialogHint
<1>2. win \in [Window -> WinStates] /\ win[w] \in WinStates
  BY KnownTypes
<1>3. CASE FullscreenRequest(w)
  <2>1. PICK b \in BOOLEAN : win' = [win EXCEPT ![w].fullscreen = b]
    BY <1>3 DEF FullscreenRequest
  <2>2. win' = [win EXCEPT ![w] = [win[w] EXCEPT !.fullscreen = b]]
    BY <1>2, <2>1
  <2>3. [win[w] EXCEPT !.fullscreen = b] \in WinStates
    BY <1>2, Flagged
  <2> QED
    BY <1>1, <2>2, <2>3, Replaced, OnlyWindows
<1>4. CASE ParentChanged(w)
  <2>1. win' = [win EXCEPT ![w] = [win[w] EXCEPT !.rulesApplied = FALSE]]
    BY <1>2, <1>4 DEF ParentChanged
  <2>2. [win[w] EXCEPT !.rulesApplied = FALSE] \in WinStates
    BY <1>2, Flagged
  <2> QED
    BY <1>1, <2>1, <2>2, Replaced, OnlyWindows
<1>5. CASE DialogHint(w)
  <2>1. win' = [win EXCEPT ![w] = [win[w] EXCEPT !.floating = TRUE, !.needsCentering = TRUE]]
    BY <1>2, <1>5 DEF DialogHint
  <2>2. [win[w] EXCEPT !.floating = TRUE, !.needsCentering = TRUE] \in WinStates
    BY <1>2, Flagged
  <2> QED
    BY <1>1, <2>1, <2>2, Replaced, OnlyWindows
<1> QED
  BY <1>3, <1>4, <1>5

LEMMA ActivateTyped ==
    ASSUME Known, NEW w \in Window, Activate(w)
    PROVE  TagInv'
<1> DEFINE i == win[w].mon
           m == ViewOf(monitors[i], win[w].tags)
<1>1. /\ monitors' = MonitorsWith(i, m) \/ monitors' = monitors
      /\ FocusWindow(focusStack, win, i, w)
      /\ UNCHANGED <<win, tagHistory>>
  BY DEF Activate
<1>2. i \in Nat \ {0}
  BY KnownTypes DEF WinStates, WindowState
<1>3. i \in DOMAIN monitors => m \in ShowingMonitors
  BY MonitorShows, ViewsShow DEF Known
<1> HIDE DEF i, m
<1>4. monitors' \in Seq(ShowingMonitors) /\ Len(monitors') = Len(monitors)
  BY <1>1, <1>3, MonitorsWithShow, KnownTypes DEF Known
<1>5. selMon' \in Nat \ {0}
  BY <1>1, <1>2, KnownTypes, Selects DEF FocusWindow
<1> QED
  BY <1>1, <1>4, <1>5 DEF Known, TagInv

LEMMA PointerTyped ==
    ASSUME Known, PointerMotion \/ Click
    PROVE  TagInv'
<1>1. UNCHANGED <<win, monitors, tagHistory>>
  BY DEF PointerMotion, Click
<1>2. space \subseteq Window
  BY KnownTypes DEF Known, ListInv, Sound
<1>3. CASE PointerMotion
  <2>1. PICK i \in DOMAIN monitors \cup {selMon}, w \in space \cup {None} :
           FocusWindow(focusStack, win, i, w) \/ selMon' = i
    BY <1>3, Zenon DEF PointerMotion
  <2>2. i \in Nat \ {0} /\ w \in Window \cup {None}
    BY <1>2, KnownTypes
  <2>3. CASE FocusWindow(focusStack, win, i, w)
    BY <1>1, <2>2, <2>3, FocusTyped
  <2>4. CASE selMon' = i
    BY <1>1, <2>2, <2>4, KnownTypes, OnlyWindows
  <2> QED
    BY <2>1, <2>3, <2>4
<1>4. CASE Click
  <2>1. PICK w \in space : FocusWindow(focusStack, win, selMon, w)
    BY <1>4 DEF Click
  <2>2. w \in Window \cup {None}
    BY <1>2
  <2> QED
    BY <1>1, <2>1, <2>2, KnownTypes, FocusTyped
<1> QED
  BY <1>3, <1>4

\* The command socket changes each of the chosen monitors.
LEMMA IpcViewTyped == Known /\ IpcView => TagInv'
<1> SUFFICES ASSUME Known, IpcView PROVE TagInv'
  OBVIOUS
<1>1. PICK I, mask, toggles, target :
         /\ monitors' = IpcViews(I, mask, toggles)
         /\ tagHistory' \in {tagHistory, HistoryAfter(selMon, target)}
         /\ \/ SettleOn(focusStack, windows, win, monitors', selMon)
            \/ selMon' = selMon
  BY Zenon DEF IpcView
<1>2. monitors' \in Seq(ShowingMonitors) /\ Len(monitors') = Len(monitors)
  <2>1. \A i \in DOMAIN monitors :
           /\ monitors[i] \in ShowingMonitors
           /\ ToggleViewOf(monitors[i], mask) \in ShowingMonitors
           /\ ViewOf(monitors[i], mask) \in ShowingMonitors
    BY MonitorShows, ViewsShow DEF Known
  <2>2. DOMAIN monitors = 1 .. Len(monitors) /\ Len(monitors) \in Nat
    BY KnownTypes
  <2>3. \A i \in DOMAIN monitors : IpcViews(I, mask, toggles)[i] \in ShowingMonitors
    BY <2>1 DEF IpcViews
  <2>4. monitors' = [i \in 1 .. Len(monitors) |-> IpcViews(I, mask, toggles)[i]]
    BY <1>1, <2>2, Zenon DEF IpcViews
  <2>5. monitors' \in [1 .. Len(monitors) -> ShowingMonitors]
    BY <2>2, <2>3, <2>4
  <2> QED
    BY <2>2, <2>5
<1>3. tagHistory' \in Seq(Histories) /\ Len(tagHistory') = Len(monitors)
  BY <1>1, HistoryAfterKeeps DEF Known, TagInv
<1>4. selMon' \in Nat \ {0}
  BY <1>1, KnownTypes, SettleSelects
<1>5. win' = win
  BY DEF IpcView
<1> QED
  BY <1>2, <1>3, <1>4, <1>5 DEF Known, TagInv

\* Outputs: a new monitor shows tag 1, and the others move down by one.
LEMMA OutputAddedTyped ==
    ASSUME Known, NEW o \in Output, OutputAdded(o)
    PROVE  TagInv'
<1>1. /\ monitors' = Append(monitors, NewMonitor(o)) /\ tagHistory' = Append(tagHistory, <<>>)
      /\ UNCHANGED <<win, selMon>>
  BY DEF OutputAdded
<1>2. NewMonitor(o) \in ShowingMonitors
  BY NewMonitorShows
<1>3. <<>> \in Histories
  BY EmptySeq, HistoryCapAssumption DEF Histories, Distinct
<1>4. monitors' \in Seq(ShowingMonitors) /\ Len(monitors') = Len(monitors) + 1
  BY <1>1, <1>2, KnownTypes
<1>5. tagHistory' \in Seq(Histories) /\ Len(tagHistory') = Len(tagHistory) + 1
  BY <1>1, <1>3 DEF Known, TagInv
<1> QED
  BY <1>1, <1>4, <1>5 DEF Known, TagInv

LEMMA MigratedTyped ==
    ASSUME Known, NEW i \in Nat \ {0}, NEW target \in Nat \ {0}
    PROVE  Migrated(i, target) \in [Window -> WinStates]
<1> SUFFICES ASSUME NEW w \in Window PROVE Migrated(i, target)[w] \in WinStates
  BY Zenon DEF Migrated
<1> DEFINE home == IF win[w].mon = i THEN target ELSE win[w].mon
           tags == IF win[w].mon = i /\ win[w].tags # {}
                   THEN PlacementTags(monitors, target) ELSE win[w].tags
           mon == IF home > i THEN home - 1 ELSE home
<1>1. win[w] \in WinStates /\ win[w].mon \in Nat \ {0} /\ win[w].tags \in TagSets
  BY KnownTypes DEF WinStates, WindowState
<1>2. tags \in TagSets
  BY <1>1, PlacementShows, KnownTypes
<1>3. mon \in Nat \ {0}
  BY <1>1
<1>4. Migrated(i, target)[w] = IF w \notin Elements(windows) THEN win[w]
                               ELSE [win[w] EXCEPT !.tags = tags, !.mon = mon]
  BY DEF Migrated
<1> HIDE DEF tags, mon
<1>5. [win[w] EXCEPT !.tags = tags, !.mon = mon] \in WinStates
  BY <1>1, <1>2, <1>3, Moved
<1> QED
  BY <1>1, <1>4, <1>5

LEMMA OutputRemovedTyped ==
    ASSUME Known, NEW i \in DOMAIN monitors, OutputRemoved(i)
    PROVE  TagInv'
<1> DEFINE last == Len(monitors)
           target == IF last <= 1 THEN 1 ELSE IF selMon # i THEN selMon ELSE IF i = 1 THEN 2 ELSE 1
<1>1. /\ win' = Migrated(i, target) /\ monitors' = Dropped(monitors, i)
      /\ tagHistory' = Dropped(tagHistory, i) /\ selMon' = SelectedAfterRemoval(i)
  BY DEF OutputRemoved
<1>2. i \in 1 .. Len(monitors) /\ i \in 1 .. Len(tagHistory) /\ i \in Nat \ {0}
  BY KnownTypes DEF Known, TagInv
<1>3. target \in Nat \ {0}
  BY KnownTypes
<1> HIDE DEF target
<1>4. win' \in [Window -> WinStates]
  BY <1>1, <1>2, <1>3, MigratedTyped
<1>5. monitors' \in Seq(ShowingMonitors) /\ Len(monitors') = Len(monitors) - 1
  BY <1>1, <1>2, KnownTypes, DroppedElements
<1>6. tagHistory' \in Seq(Histories) /\ Len(tagHistory') = Len(tagHistory) - 1
  BY <1>1, <1>2, DroppedElements DEF Known, TagInv
<1>7. selMon' \in Nat \ {0}
  BY <1>1, <1>2, KnownTypes DEF SelectedAfterRemoval
<1> QED
  BY <1>4, <1>5, <1>6, <1>7 DEF Known, TagInv

LEMMA LockTyped ==
    ASSUME Known, LockEvent
    PROVE  TagInv'
<1>1. UNCHANGED <<win, monitors, tagHistory, selMon>>
  BY DEF LockEvent, LockNative, LockExt, NewLockSurface, Unlock
<1> QED
  BY <1>1 DEF Known, TagInv

-----------------------------------------------------------------------------
(***************************************************************************)
(* The first commit of a window, with its rules, its terminal and the tags *)
(* its monitor jumps to.                                                   *)
(***************************************************************************)

LEMMA TargetTyped ==
    ASSUME Known, NEW w \in Window
    PROVE  SwallowTarget(w) \in Window \cup {None}
<1> DEFINE T == {t \in Elements(windows) \ {w} : win[t].named /\ ~win[t].swallowed}
<1>1. Lineage[w] \in Seq(Window)
  BY LineageAssumption
<1>2. FirstIn(Lineage[w], T, None) = None \/ FirstIn(Lineage[w], T, None) \in Elements(Lineage[w]) \cap T
  <2> HIDE DEF T
  <2> QED
    BY <1>1, FirstInFinds
<1>3. SwallowTarget(w) = FirstIn(Lineage[w], T, None)
  BY DEF SwallowTarget
<1> HIDE DEF T
<1> QED
  BY <1>1, <1>2, <1>3, ElementsOf

LEMMA SwallowTyped ==
    ASSUME Known, NEW w \in Window, NEW wn \in [Window -> WinStates]
    PROVE  Swallow(wn, w) \in [Window -> WinStates]
<1> DEFINE t == SwallowTarget(w)
           child == [wn[w] EXCEPT !.tags = wn[t].tags, !.mon = wn[t].mon,
                                  !.floating = wn[t].floating,
                                  !.needsCentering = wn[t].floating, !.swallowing = t]
           hidden == [wn[t] EXCEPT !.swallowed = TRUE]
<1>1. t \in Window \cup {None}
  BY TargetTyped
<1>2. Swallow(wn, w) = IF t = None THEN wn ELSE [wn EXCEPT ![w] = child, ![t] = hidden]
  BY DEF Swallow
<1> HIDE DEF t
<1>3. CASE t = None
  BY <1>2, <1>3
<1>4. CASE t \in Window
  <2>1. wn[w] \in WinStates /\ wn[t] \in WinStates
    BY <1>4
  <2>2. wn[t].tags \in TagSets /\ wn[t].mon \in Nat \ {0} /\ wn[t].floating \in BOOLEAN
    BY <2>1 DEF WinStates, WindowState
  <2>3. child \in WinStates
    BY <1>4, <2>1, <2>2, Linked
  <2>4. hidden \in WinStates
    BY <2>1, Flagged
  <2> HIDE DEF child, hidden
  <2>5. [wn EXCEPT ![w] = child, ![t] = hidden] \in [Window -> WinStates]
    BY <2>3, <2>4
  <2> QED
    BY <1>2, <1>4, <2>5, WindowAssumption
<1> QED
  BY <1>1, <1>3, <1>4

LEMMA BufferedTyped ==
    ASSUME NEW wn \in [Window -> WinStates], NEW ms, NEW w \in Window
    PROVE  Buffered(wn, ms, w) \in [Window -> WinStates]
<1> DEFINE b == wn[w].floating \/ FloatsAtMap(wn, w)
           c == (wn[w].needsCentering \/ FloatsAtMap(wn, w)) /\ ~Centres(wn, ms, w)
           s == [wn[w] EXCEPT !.bufferMapped = TRUE, !.floating = b, !.needsCentering = c]
<1>1. Buffered(wn, ms, w) = [wn EXCEPT ![w] = s]
  BY DEF Buffered
<1>2. b \in BOOLEAN /\ c \in BOOLEAN /\ wn[w] \in WinStates
  OBVIOUS
<1> HIDE DEF b, c
<1>3. s \in WinStates
  BY <1>2, Flagged
<1> HIDE DEF s
<1> QED
  BY <1>1, <1>3

LEMMA CommitBufferTyped ==
    ASSUME Known, NEW w \in Window, CommitBuffer(w)
    PROVE  TagInv'
<1>1. win' = Buffered(win, monitors, w) /\ UNCHANGED <<monitors, selMon, tagHistory>>
  BY DEF CommitBuffer
<1> QED
  BY <1>1, KnownTypes, BufferedTyped, OnlyWindows

LEMMA RuleMonitorTyped ==
    ASSUME Known, NEW r \in Rules
    PROVE  RuleMonitor(r) \in Nat \ {0}
<1>1. r.monitor \in Nat
  BY RulesAssumption
<1>2. selMon \in Nat \ {0} /\ Len(monitors) \in Nat /\ (monitors # <<>> => Len(monitors) # 0)
  BY KnownTypes
<1> QED
  BY <1>1, <1>2 DEF RuleMonitor

LEMMA RuledTyped ==
    ASSUME Known, NEW w \in Window, NEW r \in Rules
    PROVE  RuledState(w, r) \in WinStates
<1> DEFINE i == RuleMonitor(r)
           jumps == RuleSwitches(w, r) /\ i \in DOMAIN monitors
                      /\ TagsOf(monitors[i]) # r.tags \cap Tags
           floats == win[w].floating \/ r.floating
           tags == IF r.tags # {} THEN r.tags \cap Tags ELSE PlacementTags(monitors, i)
           left == IF jumps THEN TagsOf(monitors[i]) ELSE win[w].switchToTag
           scratch == r.scratch
           s == [win[w] EXCEPT !.rulesApplied = TRUE, !.named = TRUE, !.tags = tags, !.mon = i,
                               !.floating = floats, !.needsCentering = floats,
                               !.scratch = scratch, !.switchToTag = left]
<1>1. RuledState(w, r) = s
  BY DEF RuledState
<1>2. i \in Nat \ {0} /\ win[w] \in WinStates /\ scratch \in BOOLEAN /\ floats \in BOOLEAN
  BY RuleMonitorTyped, KnownTypes, RulesAssumption
<1>3. tags \in TagSets
  <2>1. r.tags \cap Tags \in TagSets
    BY DEF TagSets
  <2>2. PlacementTags(monitors, i) \in TagSets
    BY KnownTypes, PlacementShows
  <2> QED
    BY <2>1, <2>2
<1>4. left \in Views \cup {None}
  <2>1. i \in DOMAIN monitors => TagsOf(monitors[i]) \in Views
    BY MonitorShows DEF Known
  <2>2. win[w].switchToTag \in Views \cup {None}
    BY <1>2 DEF WinStates, WindowState, Views
  <2> HIDE DEF i
  <2> QED
    BY <2>1, <2>2
<1> HIDE DEF i, floats, tags, left, scratch
<1>5. s \in WinStates
  BY <1>2, <1>3, <1>4, RuledByRule, Zenon
<1> QED
  BY <1>1, <1>5

LEMMA ParentedTyped ==
    ASSUME Known, NEW w \in Window, NEW p \in Window \cup {None}
    PROVE  ParentedState(w, p) \in WinStates
<1> DEFINE tags == IF p = None THEN PlacementTags(monitors, selMon) ELSE win[p].tags
           mon == IF p = None THEN selMon ELSE win[p].mon
           s == [win[w] EXCEPT !.rulesApplied = TRUE, !.named = TRUE, !.floating = TRUE,
                               !.needsCentering = TRUE, !.tags = tags, !.mon = mon]
<1>1. ParentedState(w, p) = s
  BY DEF ParentedState
<1>2. p # None => win[p].tags \in TagSets /\ win[p].mon \in Nat \ {0}
  BY KnownTypes DEF WinStates, WindowState
<1>3. tags \in TagSets /\ mon \in Nat \ {0} /\ win[w] \in WinStates
  BY <1>2, KnownTypes, PlacementShows
<1> HIDE DEF tags, mon
<1>4. s \in WinStates
  BY <1>3, RuledByParent, Zenon
<1> QED
  BY <1>1, <1>4

\* What a commit that applies rules does to the windows and the selection.
LEMMA CommitRuledTyped ==
    ASSUME Known, NEW w \in Window, NEW s \in WinStates, NEW ms, NEW sized,
           CommitRuled(w, s, ms, sized)
    PROVE  /\ win' \in [Window -> WinStates] /\ selMon' \in Nat \ {0}
           /\ monitors' = ms
<1> DEFINE ruled == Swallow([win EXCEPT ![w] = s], w)
           target == FocusedIn(focusStack, ruled, ms, selMon)
<1>1. ruled \in [Window -> WinStates]
  BY Replaced, SwallowTyped
<1>2. target \in Window \cup {None}
  BY KnownTypes, FocusedTyped
<1>3. /\ win' = IF sized THEN Buffered(ruled, ms, w) ELSE ruled
      /\ FocusWindow(focusStack, ruled, selMon, target)
      /\ monitors' = ms
  BY DEF CommitRuled
<1> HIDE DEF ruled, target
<1>4. win' \in [Window -> WinStates]
  BY <1>1, <1>3, BufferedTyped
<1>5. selMon' \in Nat \ {0}
  BY <1>1, <1>2, <1>3, KnownTypes, Selects DEF FocusWindow
<1> QED
  BY <1>3, <1>4, <1>5

LEMMA CommitFirstTyped ==
    ASSUME Known, NEW w \in Window, CommitFirst(w)
    PROVE  TagInv'
<1>1. \/ \E r \in Rules, sized \in BOOLEAN : \E ms :
            LET i == RuleMonitor(r)
            IN  /\ \/ ms = monitors
                   \/ i \in DOMAIN monitors /\ ms = MonitorsWith(i, ViewOf(monitors[i], r.tags))
                /\ tagHistory' \in {tagHistory, HistoryAfter(i, r.tags \cap Tags)}
                /\ CommitRuled(w, RuledState(w, r), ms, sized)
      \/ \E p \in Window \cup {None}, sized \in BOOLEAN :
            /\ CommitRuled(w, ParentedState(w, p), monitors, sized)
            /\ tagHistory' = tagHistory
  <2>1. PICK sized \in BOOLEAN :
          \/ \E r \in Rules :
                LET i == RuleMonitor(r)
                    switches == RuleSwitches(w, r)
                    ms == IF switches /\ i \in DOMAIN monitors
                          THEN MonitorsWith(i, ViewOf(monitors[i], r.tags)) ELSE monitors
                IN  /\ tagHistory' = IF switches THEN HistoryAfter(i, r.tags \cap Tags)
                                     ELSE tagHistory
                    /\ CommitRuled(w, RuledState(w, r), ms, sized)
          \/ /\ \E p \in (Elements(windows) \ {w}) \cup {None} :
                   CommitRuled(w, ParentedState(w, p), monitors, sized)
             /\ UNCHANGED tagHistory
    BY Zenon DEF CommitFirst
  <2>2. CASE \E r \in Rules :
                LET i == RuleMonitor(r)
                    switches == RuleSwitches(w, r)
                    ms == IF switches /\ i \in DOMAIN monitors
                          THEN MonitorsWith(i, ViewOf(monitors[i], r.tags)) ELSE monitors
                IN  /\ tagHistory' = IF switches THEN HistoryAfter(i, r.tags \cap Tags)
                                     ELSE tagHistory
                    /\ CommitRuled(w, RuledState(w, r), ms, sized)
    BY <2>2, Zenon
  <2>3. CASE /\ \E p \in (Elements(windows) \ {w}) \cup {None} :
                   CommitRuled(w, ParentedState(w, p), monitors, sized)
             /\ UNCHANGED tagHistory
    <3>1. Elements(windows) \subseteq Window
      BY KnownTypes
    <3> QED
      BY <2>3, <3>1, Zenon
  <2> QED
    BY <2>1, <2>2, <2>3
<1>2. CASE \E r \in Rules, sized \in BOOLEAN : \E ms :
            LET i == RuleMonitor(r)
            IN  /\ \/ ms = monitors
                   \/ i \in DOMAIN monitors /\ ms = MonitorsWith(i, ViewOf(monitors[i], r.tags))
                /\ tagHistory' \in {tagHistory, HistoryAfter(i, r.tags \cap Tags)}
                /\ CommitRuled(w, RuledState(w, r), ms, sized)
  <2>1. PICK r, sized, ms :
            /\ r \in Rules
            /\ \/ ms = monitors
               \/ /\ RuleMonitor(r) \in DOMAIN monitors
                  /\ ms = MonitorsWith(RuleMonitor(r), ViewOf(monitors[RuleMonitor(r)], r.tags))
            /\ tagHistory' \in {tagHistory, HistoryAfter(RuleMonitor(r), r.tags \cap Tags)}
            /\ CommitRuled(w, RuledState(w, r), ms, sized)
    BY <1>2, Zenon
  <2>2. ms \in Seq(ShowingMonitors) /\ Len(ms) = Len(monitors)
    <3>1. RuleMonitor(r) \in DOMAIN monitors =>
             ViewOf(monitors[RuleMonitor(r)], r.tags) \in ShowingMonitors
      BY MonitorShows, ViewsShow DEF Known
    <3> QED
      BY <2>1, <3>1, MonitorsWithShow, KnownTypes DEF Known
  <2>3. tagHistory' \in Seq(Histories) /\ Len(tagHistory') = Len(monitors)
    BY <2>1, HistoryAfterKeeps DEF Known, TagInv
  <2>4. /\ win' \in [Window -> WinStates] /\ selMon' \in Nat \ {0} /\ monitors' = ms
    BY <2>1, RuledTyped, CommitRuledTyped
  <2> QED
    BY <2>2, <2>3, <2>4 DEF TagInv
<1>3. CASE \E p \in Window \cup {None}, sized \in BOOLEAN :
            /\ CommitRuled(w, ParentedState(w, p), monitors, sized)
            /\ tagHistory' = tagHistory
  <2>1. PICK p \in Window \cup {None}, sized \in BOOLEAN :
            /\ CommitRuled(w, ParentedState(w, p), monitors, sized)
            /\ tagHistory' = tagHistory
    BY <1>3
  <2>2. win' \in [Window -> WinStates] /\ selMon' \in Nat \ {0} /\ monitors' = monitors
    BY <2>1, ParentedTyped, CommitRuledTyped
  <2> QED
    BY <2>1, <2>2, OnlyWindows
<1> QED
  BY <1>1, <1>2, <1>3

-----------------------------------------------------------------------------
(***************************************************************************)
(* A window closes: auto-back takes a mask from the history, from a slot   *)
(* or from a window, and none of these is empty.                           *)
(***************************************************************************)

LEMMA AutoBackShows ==
    ASSUME Known, NEW i \in DOMAIN monitors, NEW ws \in Seq(Window), NEW left
    PROVE  AutoBackTarget(ws, i, left) \in Views
<1> DEFINE shown == TagsOf(monitors[i])
           occupied == {k \in TagSets : OccupiedOn(ws, i, k)}
           rest == Without(tagHistory[i], shown)
           past == LastIn(rest, occupied, {})
           prev == PreviousTagsOf(monitors[i])
           T == {v \in Window : win[v].mon = i /\ win[v].tags # {}}
           any == FirstIn(ws, T, None)
<1>1. shown \in Views /\ prev \in Views
  BY MonitorShows DEF Known
<1>2. left \in occupied => left \in Views
  BY DEF OccupiedOn, Views
<1>3. past # {} => past \in Views
  <2>1. rest \in Seq(Views)
    BY MonitorShows, HistoryForgets DEF Known, Histories
  <2> HIDE DEF rest, occupied
  <2>2. past = {} \/ past \in Elements(rest) \cap occupied
    BY <2>1, LastInFinds
  <2> HIDE DEF past
  <2> QED
    BY <2>1, <2>2, ElementsOf
<1>4. any # None => win[any].tags \in Views
  <2>1. FirstIn(ws, T, None) = None \/ FirstIn(ws, T, None) \in Elements(ws) \cap T
    <3> HIDE DEF T
    <3> QED
      BY FirstInFinds
  <2>2. any # None => any \in Window /\ win[any].tags # {}
    BY <2>1
  <2> HIDE DEF any
  <2> QED
    BY <2>2, KnownTypes DEF WinStates, WindowState, Views
<1>5. AutoBackTarget(ws, i, left) =
         IF left # None /\ left \in occupied \ {shown} THEN left
         ELSE IF past # {} THEN past
         ELSE IF prev \in occupied \ {shown} THEN prev
         ELSE IF any # None THEN win[any].tags
         ELSE shown
  BY Zenon DEF AutoBackTarget
<1> HIDE DEF shown, occupied, past, prev, any
<1> QED
  BY <1>1, <1>2, <1>3, <1>4, <1>5

LEMMA UnswallowedTyped ==
    ASSUME Known, NEW w \in Window, NEW ws
    PROVE  Unswallowed(w, ws) \in [Window -> WinStates]
<1> SUFFICES ASSUME NEW v \in Window PROVE Unswallowed(w, ws)[v] \in WinStates
  BY Zenon DEF Unswallowed
<1>1. win[v] \in WinStates /\ win[w] \in WinStates
  BY KnownTypes
<1>2. win[w].tags \in TagSets /\ win[w].mon \in Nat \ {0}
  BY <1>1 DEF WinStates, WindowState
<1>3. Unswallowed(w, ws)[v] \in
         {NewWindow, win[v], [win[v] EXCEPT !.swallowing = None],
          [win[v] EXCEPT !.swallowed = FALSE, !.tags = win[w].tags, !.mon = win[w].mon]}
  BY DEF Unswallowed
<1>4. [win[v] EXCEPT !.swallowing = None] \in WinStates
  BY <1>1, Flagged
<1>5. [win[v] EXCEPT !.swallowed = FALSE, !.tags = win[w].tags, !.mon = win[w].mon] \in WinStates
  <2> DEFINE tags == win[w].tags
             mon == win[w].mon
  <2>1. tags \in TagSets /\ mon \in Nat \ {0}
    BY <1>2
  <2> HIDE DEF tags, mon
  <2>2. [win[v] EXCEPT !.swallowed = FALSE, !.tags = tags, !.mon = mon] \in WinStates
    <3>1. w \in Window /\ FALSE \in BOOLEAN
      OBVIOUS
    <3> QED
      BY <1>1, <2>1, <3>1, Linked
  <2> QED
    BY <2>2 DEF tags, mon
<1> QED
  BY <1>1, <1>3, <1>4, <1>5, NewWindowTyped

LEMMA DestroyTyped ==
    ASSUME Known, NEW w \in Window, Destroy(w)
    PROVE  TagInv' /\ focus' \in Window \cup {None, focus}
<1> DEFINE ws == Without(windows, w)
           stack == Without(focusStack, w)
           restored == IF win[w].swallowing \in Elements(ws) THEN win[w].swallowing ELSE None
           i == win[w].mon
           backs == AutoBacks(w, ws)
           back == Reassigned(monitors[i], AutoBackTarget(ws, i, win[w].switchToTag))
           ms == IF backs THEN MonitorsWith(i, back) ELSE monitors
           moved == backs /\ ms # monitors
           refocused == FocusedIn(stack, win, ms, selMon)
           stack1 == IF moved THEN StackAfter(stack, refocused) ELSE stack
           sel == IF moved THEN SelectedAfter(stack, win, selMon, refocused) ELSE selMon
           wn == Unswallowed(w, ws)
           master(tiling) == IF tiling /\ win[w].bufferMapped
                             THEN TileMaster(ws, wn, ms, sel) ELSE None
           topWhen(tiling) == IF restored # None THEN restored
                              ELSE IF master(tiling) # None THEN master(tiling)
                              ELSE FocusedIn(stack1, wn, ms, sel)
           forgotten == Without(tagHistory[i], TagsOf(monitors[i]))
<1>1. PICK tiling \in BOOLEAN :
         /\ win' = wn /\ monitors' = ms
         /\ tagHistory' = IF backs THEN [tagHistory EXCEPT ![i] = forgotten] ELSE tagHistory
         /\ selMon' = SelectedAfter(stack1, wn, sel, topWhen(tiling))
         /\ focus' \in {topWhen(tiling), None, focus}
  BY Zenon DEF Destroy
<1>2. /\ ws \in Seq(Window) /\ Elements(ws) \subseteq Window
      /\ stack \in Seq(Window) /\ Distinct(stack)
  <2>1. /\ windows \in Seq(Window) /\ Distinct(windows)
        /\ focusStack \in Seq(Window) /\ Distinct(focusStack)
    BY DEF Known, ListInv, Sound
  <2>2. ws \in Seq(Window) /\ stack \in Seq(Window) /\ Distinct(stack)
    BY <2>1, WithoutElements
  <2> HIDE DEF ws, stack
  <2> QED
    BY <2>2, ElementsOf
<1>3. backs => i \in DOMAIN monitors
  BY DEF AutoBacks, ShownTags
<1>4. ms \in Seq(ShowingMonitors) /\ Len(ms) = Len(monitors)
  <2>1. i \in DOMAIN monitors => back \in ShowingMonitors
    <3> DEFINE target == AutoBackTarget(ws, i, win[w].switchToTag)
    <3>1. i \in DOMAIN monitors => target \in Views /\ monitors[i] \in ShowingMonitors
      <4> HIDE DEF ws, i
      <4> QED
        BY <1>2, AutoBackShows, MonitorShows DEF Known
    <3> HIDE DEF target
    <3> QED
      BY <3>1, ReassignedShows DEF target
  <2> HIDE DEF back, backs, i
  <2> QED
    BY <2>1, MonitorsWithShow, KnownTypes DEF Known
<1>5. tagHistory' \in Seq(Histories) /\ Len(tagHistory') = Len(monitors)
  <2>1. i \in DOMAIN monitors => forgotten \in Histories
    BY MonitorShows, HistoryForgets DEF Known
  <2> HIDE DEF forgotten, backs, i
  <2> QED
    BY <1>1, <1>3, <2>1, HistoryReplaced DEF Known, TagInv
<1>6. wn \in [Window -> WinStates]
  <2> HIDE DEF ws
  <2> QED
    BY UnswallowedTyped
<1>7. sel \in Nat \ {0} /\ stack1 \in Seq(Window)
  <2> HIDE DEF stack, ms
  <2>1. refocused \in Window \cup {None}
    BY <1>2, FocusedTyped
  <2> HIDE DEF refocused, moved
  <2>2. refocused # None => Raise(stack, refocused) \in Seq(Window)
    BY <1>2, <2>1, RaiseElements
  <2>3. StackAfter(stack, refocused) \in Seq(Window)
    BY <1>2, <2>2 DEF StackAfter
  <2>4. SelectedAfter(stack, win, selMon, refocused) \in Nat \ {0}
    BY <2>1, KnownTypes, Selects
  <2> QED
    BY <1>2, <2>3, <2>4, KnownTypes
<1>8. topWhen(tiling) \in Window \cup {None}
  <2>1. FocusedIn(stack1, wn, ms, sel) \in Window \cup {None}
    <3> HIDE DEF stack1, wn, ms, sel
    <3> QED
      BY <1>7, FocusedTyped
  <2>2. TileMaster(ws, wn, ms, sel) \in Window \cup {None}
    <3>1. \A T : FirstIn(ws, T, None) \in Elements(ws) \cup {None}
      <4> HIDE DEF ws
      <4> QED
        BY <1>2, FirstInFinds
    <3> HIDE DEF ws
    <3> QED
      BY <1>2, <3>1 DEF TileMaster
  <2>3. restored \in Window \cup {None}
    BY <1>2
  <2> HIDE DEF restored, ws, stack1, wn, ms, sel
  <2> QED
    BY <2>1, <2>2, <2>3
<1>9. selMon' \in Nat \ {0}
  <2> DEFINE top == topWhen(tiling)
  <2>1. top \in Window \cup {None} /\ selMon' = SelectedAfter(stack1, wn, sel, top)
    BY <1>1, <1>8
  <2> HIDE DEF top, stack1, wn, sel
  <2> QED
    BY <1>6, <1>7, <2>1, Selects
<1>10. focus' \in Window \cup {None, focus}
  <2> DEFINE top == topWhen(tiling)
  <2>1. top \in Window \cup {None} /\ focus' \in {top, None, focus}
    BY <1>1, <1>8
  <2> HIDE DEF top
  <2> QED
    BY <2>1
<1> HIDE DEF wn, ms
<1> QED
  BY <1>1, <1>4, <1>5, <1>6, <1>9, <1>10 DEF TagInv

-----------------------------------------------------------------------------
(***************************************************************************)
(* Who may get the keyboard.                                               *)
(***************************************************************************)

\* The keyboard stays, is taken away, or goes to a window.
LEMMA SettleHands ==
    ASSUME NEW stack \in Seq(Window), NEW ws, NEW wn, NEW ms, NEW sel,
           SettleOn(stack, ws, wn, ms, sel)
    PROVE  focus' \in Window \cup {None, focus}
<1>1. FocusedIn(stack, wn, ms, sel) \in Window \cup {None}
  BY FocusedTyped
<1> QED
  BY <1>1 DEF SettleOn, FocusWindow, FocusAfter

LEMMA FocusHands ==
    ASSUME NEW stack, NEW wn, NEW sel, NEW w \in Window \cup {None},
           FocusWindow(stack, wn, sel, w)
    PROVE  focus' \in Window \cup {None, focus}
BY DEF FocusWindow, FocusAfter

LEMMA BoundHands ==
    ASSUME Known, BoundAction
    PROVE  focus' \in Window \cup {None, focus}
<1>1. CASE View \/ ViewPrev \/ ViewNextOccTag \/ ToggleView
  <2>1. \E ms : SettleOn(focusStack, windows, win, ms, selMon)
    BY <1>1, Zenon DEF View, ViewPrev, ViewNextOccTag, ToggleView, SwitchView
  <2> QED
    BY <2>1, KnownTypes, SettleHands
<1>2. CASE Tag
  <2>1. \E wn, ms : SettleOn(focusStack, windows, wn, ms, selMon)
    BY <1>2, Zenon DEF Tag
  <2> QED
    BY <2>1, KnownTypes, SettleHands
<1>3. CASE ToggleTag \/ ToggleFloating \/ ToggleFullscreen
  BY <1>3 DEF ToggleTag, ToggleFloating, ToggleFullscreen, ChangeFocused
<1>4. CASE FocusStack \/ Zoom \/ FocusMon
  BY <1>4, FocusActionsFocus, FocusHands
<1>5. CASE TagMon
  <2>1. \/ focus' = focus
        \/ \E wn, sel : FocusWindow(focusStack, wn, sel, FocusedWindow)
    BY <1>5, Zenon DEF TagMon
  <2> QED
    BY <2>1, KnownTypes, FocusHands
<1>6. CASE ToggleScratch \/ FocusOrToggleScratch \/ FocusOrToggleMatchingScratch
  <2>1. PICK w \in Elements(windows) : \E hide : HideOrShow(w, hide)
    BY <1>6, ScratchTargets
  <2>2. CASE HideScratch(w)
    <3>1. \E wn : SettleOn(Without(focusStack, w), windows, wn, monitors, selMon)
      BY <2>2, Zenon DEF HideScratch
    <3>2. Without(focusStack, w) \in Seq(Window)
      BY WithoutElements DEF Known, ListInv, Sound
    <3> QED
      BY <3>1, <3>2, SettleHands
  <2>3. CASE ShowScratch(w)
    <3>1. \E wn : FocusWindow(focusStack, wn, selMon, w)
      BY <2>3, Zenon DEF ShowScratch
    <3> QED
      BY <2>1, <3>1, KnownTypes, FocusHands
  <2> QED
    BY <2>1, <2>2, <2>3 DEF HideOrShow
<1> QED
  BY <1>1, <1>2, <1>3, <1>4, <1>5, <1>6 DEF BoundAction

LEMMA ClientHands ==
    ASSUME Known, NEW w \in Window, ClientEvent(w)
    PROVE  focus' \in Window \cup {None, focus}
<1>1. CASE NewToplevel(w)
  BY <1>1, Zenon DEF NewToplevel
<1>2. CASE CommitFirst(w)
  <2>1. \E s, ms, sized : CommitRuled(w, s, ms, sized)
    BY <1>2, Zenon DEF CommitFirst
  <2>2. \E wn, ms : FocusWindow(focusStack, wn, selMon, FocusedIn(focusStack, wn, ms, selMon))
    BY <2>1, Zenon DEF CommitRuled
  <2>3. \A wn, ms : FocusedIn(focusStack, wn, ms, selMon) \in Window \cup {None}
    BY KnownTypes, FocusedTyped
  <2> QED
    BY <2>2, <2>3, FocusHands
<1>3. CASE CommitBuffer(w) \/ FullscreenRequest(w) \/ ParentChanged(w) \/ DialogHint(w)
  BY <1>3 DEF CommitBuffer, FullscreenRequest, ParentChanged, DialogHint
<1>4. CASE Destroy(w)
  BY <1>4, DestroyTyped
<1>5. CASE Activate(w)
  <2>1. \E sel : FocusWindow(focusStack, win, sel, w)
    BY <1>5, Zenon DEF Activate
  <2> QED
    BY <2>1, FocusHands
<1> QED
  BY <1>1, <1>2, <1>3, <1>4, <1>5 DEF ClientEvent

LEMMA DeviceHands ==
    ASSUME Known, DeviceEvent
    PROVE  focus' \in Window \cup {None, focus}
<1>1. CASE PointerMotion \/ Click
  <2>1. \/ focus' = focus
        \/ \E w \in space : \E sel : FocusWindow(focusStack, win, sel, w)
    BY <1>1, Zenon DEF PointerMotion, Click
  <2>2. space \subseteq Window
    BY KnownTypes DEF Known, ListInv, Sound
  <2> QED
    BY <2>1, <2>2, FocusHands
<1>2. CASE IpcView
  <2>1. \/ focus' = focus
        \/ \E ms : SettleOn(focusStack, windows, win, ms, selMon)
    BY <1>2, Zenon DEF IpcView
  <2> QED
    BY <2>1, KnownTypes, SettleHands
<1>3. CASE \/ \E o \in Output : OutputAdded(o)
           \/ \E i \in DOMAIN monitors : OutputRemoved(i)
  BY <1>3 DEF OutputAdded, OutputRemoved
<1> QED
  BY <1>1, <1>2, <1>3 DEF DeviceEvent

\* Who may have the keyboard, and what the lock may be.
Hands == focus \in Window \cup {None, LockSurface} /\ locked \in {"no", "native", "ext"}

LEMMA LockedTyped ==
    ASSUME Hands, [Next]_vars
    PROVE  locked' \in {"no", "native", "ext"}
<1>1. CASE UNCHANGED vars
  BY <1>1 DEF Hands, vars
<1>2. CASE LockEvent
  BY <1>2 DEF LockEvent, LockNative, LockExt, NewLockSurface, Unlock
<1> QED
  BY <1>1, <1>2, LockedElsewhere DEF Next, Hands

LEMMA HandsStep ==
    ASSUME Known, Hands, [Next]_vars
    PROVE  Hands'
<1>1. CASE UNCHANGED vars
  BY <1>1 DEF Hands, vars
<1>2. CASE BoundAction \/ (\E w \in Window : ClientEvent(w)) \/ DeviceEvent
  BY <1>2, BoundHands, ClientHands, DeviceHands, LockedTyped DEF Hands
<1>3. CASE LockEvent
  <2>1. focus' \in {focus, None, LockSurface, FocusedWindow}
    BY <1>3 DEF LockEvent, LockNative, LockExt, NewLockSurface, Unlock
  <2> QED
    BY <2>1, KnownTypes, LockedTyped DEF Hands
<1> QED
  BY <1>1, <1>2, <1>3 DEF Next

-----------------------------------------------------------------------------
(***************************************************************************)
(* Invariance.                                                             *)
(***************************************************************************)

IInv == Known /\ Hands

LEMMA InitTyped == Init => IInv
<1> SUFFICES ASSUME Init PROVE IInv
  OBVIOUS
<1>1. ListInv
  BY InitLists
<1>2. TagInv
  <2>1. win \in [Window -> WinStates]
    BY NewWindowTyped DEF Init
  <2> QED
    BY <2>1, EmptySeq DEF Init, TagInv
<1>3. Hands
  BY DEF Init, Hands
<1> QED
  BY <1>1, <1>2, <1>3 DEF IInv, Known

LEMMA NextTyped == IInv /\ [Next]_vars => IInv'
<1> SUFFICES ASSUME IInv, [Next]_vars PROVE IInv'
  OBVIOUS
<1>1. ListInv'
  BY NextLists DEF IInv, Known
<1>2. Hands'
  BY HandsStep DEF IInv
<1>3. TagInv'
  <2>1. Known
    BY DEF IInv
  <2>2. CASE UNCHANGED vars
    BY <2>1, <2>2 DEF vars, Known, TagInv
  <2>3. CASE BoundAction
    BY <2>1, <2>3, ViewTyped, TagTyped, FocusedStateTyped, FocusActionsTyped, TagMonTyped,
       ScratchTyped DEF BoundAction
  <2>4. CASE \E w \in Window : ClientEvent(w)
    BY <2>1, <2>4, NewToplevelTyped, CommitFirstTyped, CommitBufferTyped, DestroyTyped,
       RequestsTyped, ActivateTyped DEF ClientEvent
  <2>5. CASE DeviceEvent \/ LockEvent
    BY <2>1, <2>5, PointerTyped, IpcViewTyped, OutputAddedTyped, OutputRemovedTyped, LockTyped
       DEF DeviceEvent
  <2> QED
    BY <2>2, <2>3, <2>4, <2>5 DEF Next
<1> QED
  BY <1>1, <1>2, <1>3 DEF IInv, Known

THEOREM Invariance == Spec => []IInv
<1>1. Init => IInv
  BY InitTyped
<1>2. IInv /\ [Next]_vars => IInv'
  BY NextTyped
<1> QED
  BY <1>1, <1>2, PTL DEF Spec

\* Every field keeps its type: tag masks stay within tag_count, whatever masks bindings,
\* commands and rules carry (view, toggle_view, tag, apply_rules, auto-back).
THEOREM TypeCorrect == Spec => []TypeOK
<1>1. IInv => TypeOK
  <2> SUFFICES ASSUME IInv PROVE TypeOK
    OBVIOUS
  <2>1. windows \in Seq(Window) /\ focusStack \in Seq(Window) /\ space \subseteq Window
    BY KnownTypes DEF IInv, Known, ListInv, Sound
  <2>2. win \in [Window -> WindowState] /\ selMon \in Nat \ {0}
    BY KnownTypes DEF IInv, WinStates
  <2>3. monitors \in Seq(MonitorRecords(Output))
    <3>1. ShowingMonitors \subseteq MonitorRecords(Output)
      BY DEF ShowingMonitors, MonitorRecords, Views
    <3> QED
      BY <3>1, KnownTypes DEF IInv
  <2>4. tagHistory \in Seq(Seq(TagSets))
    <3>1. Histories \subseteq Seq(TagSets)
      BY DEF Histories, Views
    <3> QED
      BY <3>1 DEF IInv, Known, TagInv
  <2>5. focus \in Window \cup {None, LockSurface} /\ locked \in {"no", "native", "ext"}
    BY DEF IInv, Hands
  <2> QED
    BY <2>1, <2>2, <2>3, <2>4, <2>5 DEF TypeOK
<1> QED
  BY <1>1, Invariance, PTL

\* No monitor shows, remembers or goes back to the empty tag set (view, toggle_view,
\* update_tag_history, auto_back_empty_tag::on_window_closed).
THEOREM ViewsStayNonEmpty == Spec => []ViewsNonEmpty
<1>1. IInv => ViewsNonEmpty
  <2> SUFFICES ASSUME IInv PROVE ViewsNonEmpty
    OBVIOUS
  <2>1. \A i \in DOMAIN monitors, s \in {0, 1} : monitors[i].tagset[s] # {}
    BY MonitorShows DEF IInv, Known, ShowingMonitors, Views
  <2>2. \A i \in DOMAIN tagHistory : {} \notin Elements(tagHistory[i])
    <3> SUFFICES ASSUME NEW i \in DOMAIN tagHistory PROVE {} \notin Elements(tagHistory[i])
      OBVIOUS
    <3>1. tagHistory[i] \in Seq(Views)
      BY DEF IInv, Known, TagInv, Histories
    <3>2. Elements(tagHistory[i]) \subseteq Views
      BY <3>1, ElementsOf
    <3> QED
      BY <3>2 DEF Views
  <2>3. \A w \in Window : win[w].switchToTag # {}
    BY KnownTypes DEF IInv, WinStates
  <2> QED
    BY <2>1, <2>2, <2>3 DEF ViewsNonEmpty
<1> QED
  BY <1>1, Invariance, PTL

\* update_tag_history, auto-back and hotplug keep every deque free of duplicates and
\* within its capacity.
THEOREM HistoriesSound == Spec => []HistorySound
<1>1. IInv => HistorySound
  BY DEF IInv, Known, TagInv, Histories, HistorySound
<1> QED
  BY <1>1, Invariance, PTL

-----------------------------------------------------------------------------
(***************************************************************************)
(* Monitors keep their outputs except in output_added and output_removed.  *)
(***************************************************************************)

SameOutputs(ms) ==
    /\ DOMAIN ms = DOMAIN monitors
    /\ \A i \in DOMAIN monitors : ms[i].output = monitors[i].output

\* Changing what a monitor shows does not change the monitor.
LEMMA ViewsKeepOutput ==
    ASSUME NEW m \in ShowingMonitors, NEW mask
    PROVE  /\ ViewOf(m, mask).output = m.output
           /\ ToggleViewOf(m, mask).output = m.output
           /\ ViewPrevOf(m).output = m.output
           /\ Reassigned(m, mask).output = m.output
<1>1. \A shown : Flipped(m, shown).output = m.output
  BY DEF Flipped, ShowingMonitors
<1>2. ViewOf(m, mask).output = m.output /\ ToggleViewOf(m, mask).output = m.output
  BY <1>1 DEF ViewOf, ToggleViewOf
<1>3. ViewPrevOf(m).output = m.output /\ Reassigned(m, mask).output = m.output
  BY DEF ViewPrevOf, Reassigned, ShowingMonitors
<1> QED
  BY <1>2, <1>3

LEMMA OneMonitorKept ==
    ASSUME TagInv, NEW i, NEW m, i \in DOMAIN monitors => m.output = monitors[i].output
    PROVE  SameOutputs(MonitorsWith(i, m)) /\ SameOutputs(monitors)
<1>1. CASE i \in DOMAIN monitors
  BY <1>1 DEF MonitorsWith, SameOutputs, TagInv
<1>2. CASE i \notin DOMAIN monitors
  BY <1>2 DEF MonitorsWith, SameOutputs
<1> QED
  BY <1>1, <1>2 DEF SameOutputs

\* A monitor of the list that shows other tags.
LEMMA ShowingOtherTags ==
    ASSUME TagInv, NEW i, NEW mask
    PROVE  /\ SameOutputs(MonitorsWith(i, ViewOf(monitors[i], mask)))
           /\ SameOutputs(MonitorsWith(i, ToggleViewOf(monitors[i], mask)))
           /\ SameOutputs(MonitorsWith(i, ViewPrevOf(monitors[i])))
           /\ SameOutputs(MonitorsWith(i, Reassigned(monitors[i], mask)))
           /\ SameOutputs(monitors)
<1>1. i \in DOMAIN monitors => monitors[i] \in ShowingMonitors
  BY MonitorShows
<1>2. i \in DOMAIN monitors =>
         /\ ViewOf(monitors[i], mask).output = monitors[i].output
         /\ ToggleViewOf(monitors[i], mask).output = monitors[i].output
         /\ ViewPrevOf(monitors[i]).output = monitors[i].output
         /\ Reassigned(monitors[i], mask).output = monitors[i].output
  BY <1>1, ViewsKeepOutput
<1> QED
  BY <1>2, OneMonitorKept

LEMMA BoundOutputs ==
    ASSUME Known, BoundAction
    PROVE  SameOutputs(monitors')
<1>1. TagInv
  BY DEF Known
<1>2. \/ monitors' = monitors
      \/ \E mask : monitors' = MonitorsWith(selMon, ViewOf(monitors[selMon], mask))
      \/ \E mask : monitors' = MonitorsWith(selMon, ToggleViewOf(monitors[selMon], mask))
      \/ monitors' = MonitorsWith(selMon, ViewPrevOf(monitors[selMon]))
  <2>1. CASE View \/ ViewNextOccTag \/ ToggleView \/ ViewPrev
    BY <2>1, Zenon DEF View, ViewNextOccTag, ToggleView, ViewPrev, SwitchView
  <2>2. CASE Tag
    BY <2>2, Zenon DEF Tag
  <2>3. CASE ToggleTag \/ FocusStack \/ Zoom \/ ToggleFloating \/ ToggleFullscreen \/ FocusMon
    BY <2>3, Zenon DEF ToggleTag, FocusStack, Zoom, ToggleFloating, ToggleFullscreen,
                       ChangeFocused, FocusMon
  <2>4. CASE TagMon \/ ToggleScratch \/ FocusOrToggleScratch \/ FocusOrToggleMatchingScratch
    BY <2>4, Zenon DEF TagMon, ToggleScratch, FocusOrToggleScratch,
                       FocusOrToggleMatchingScratch, HideOrShow, HideScratch, ShowScratch
  <2> QED
    BY <2>1, <2>2, <2>3, <2>4 DEF BoundAction
<1> QED
  BY <1>1, <1>2, ShowingOtherTags

LEMMA ClientOutputs ==
    ASSUME Known, NEW w \in Window, ClientEvent(w)
    PROVE  SameOutputs(monitors')
<1>1. TagInv
  BY DEF Known
<1>2. \/ monitors' = monitors
      \/ \E i, mask : monitors' = MonitorsWith(i, ViewOf(monitors[i], mask))
      \/ \E i, mask : monitors' = MonitorsWith(i, Reassigned(monitors[i], mask))
  <2>1. CASE NewToplevel(w) \/ CommitBuffer(w) \/ FullscreenRequest(w) \/ ParentChanged(w)
               \/ DialogHint(w)
    BY <2>1, Zenon DEF NewToplevel, CommitBuffer, FullscreenRequest, ParentChanged, DialogHint
  <2>2. CASE CommitFirst(w)
    <3>1. \E s, ms, sized : /\ CommitRuled(w, s, ms, sized)
                            /\ \/ ms = monitors
                               \/ \E i, mask : ms = MonitorsWith(i, ViewOf(monitors[i], mask))
      BY <2>2, Zenon DEF CommitFirst
    <3> QED
      BY <3>1, Zenon DEF CommitRuled
  <2>3. CASE Destroy(w)
    BY <2>3, Zenon DEF Destroy
  <2>4. CASE Activate(w)
    BY <2>4, Zenon DEF Activate
  <2> QED
    BY <2>1, <2>2, <2>3, <2>4 DEF ClientEvent
<1> QED
  BY <1>1, <1>2, ShowingOtherTags

LEMMA OtherOutputs ==
    ASSUME Known, PointerMotion \/ Click \/ IpcView \/ LockEvent
    PROVE  SameOutputs(monitors')
<1>1. CASE PointerMotion \/ Click \/ LockEvent
  <2>1. monitors' = monitors
    BY <1>1 DEF PointerMotion, Click, LockEvent, LockNative, LockExt, NewLockSurface, Unlock
  <2> QED
    BY <2>1 DEF SameOutputs
<1>2. CASE IpcView
  <2>1. PICK I, mask, toggles : monitors' = IpcViews(I, mask, toggles)
    BY <1>2, Zenon DEF IpcView
  <2>2. \A i \in DOMAIN monitors :
           /\ ViewOf(monitors[i], mask).output = monitors[i].output
           /\ ToggleViewOf(monitors[i], mask).output = monitors[i].output
    BY MonitorShows, ViewsKeepOutput DEF Known
  <2> QED
    BY <2>1, <2>2 DEF IpcViews, SameOutputs
<1> QED
  BY <1>1, <1>2

\* Only hotplug changes which monitors there are.
Hotplugged == \/ \E o \in Output : OutputAdded(o)
              \/ \E i \in DOMAIN monitors : OutputRemoved(i)

LEMMA OutputsElsewhere ==
    ASSUME Known, [Next]_vars, ~Hotplugged
    PROVE  SameOutputs(monitors')
<1>1. CASE UNCHANGED vars
  BY <1>1 DEF vars, SameOutputs
<1> QED
  BY <1>1, BoundOutputs, ClientOutputs, OtherOutputs DEF Next, DeviceEvent, Hotplugged

-----------------------------------------------------------------------------
(***************************************************************************)
(* Indices.  Homed is what MonitorIndices asks of the selection and of the *)
(* windows of a list, for lists in the middle of a handler.                *)
(***************************************************************************)

Indices(ms) == IF ms = <<>> THEN {1} ELSE DOMAIN ms
HomedWindows(ws, wn, ms) == \A v \in Elements(ws) : wn[v].mon \in Indices(ms)
DistinctOutputs(ms) == \A i, j \in DOMAIN ms : ms[i].output = ms[j].output => i = j
Homed == selMon \in Indices(monitors) /\ HomedWindows(windows, win, monitors)

IndexInv == Homed /\ DistinctOutputs(monitors)

LEMMA SameIndices ==
    ASSUME NEW ms \in Seq(ShowingMonitors), monitors \in Seq(ShowingMonitors), SameOutputs(ms)
    PROVE  /\ Indices(ms) = Indices(monitors)
           /\ DistinctOutputs(monitors) => DistinctOutputs(ms)
<1>1. ms = <<>> <=> monitors = <<>>
  BY DEF SameOutputs
<1> QED
  BY <1>1 DEF SameOutputs, Indices, DistinctOutputs

\* focus_window selects the monitor it was given, or that of the window it focuses.
LEMMA SelectsHome ==
    ASSUME NEW S, NEW stack, NEW ws, NEW wn, \A v \in Elements(ws) : wn[v].mon \in S,
           NEW sel \in S, NEW w \in Elements(ws) \cup {None}
    PROVE  SelectedAfter(stack, wn, sel, w) \in S
BY DEF SelectedAfter

\* A window that is found on the focus stack, or on the list, is on it.
LEMMA FocusedStacked ==
    ASSUME NEW stack \in Seq(Window), NEW wn, NEW ms, NEW sel
    PROVE  \/ FocusedIn(stack, wn, ms, sel) = None
           \/ /\ FocusedIn(stack, wn, ms, sel) \in Elements(stack)
              /\ FocusedIn(stack, wn, ms, sel) \in OwnedBy(wn, ms, sel)
<1> DEFINE T == OwnedBy(wn, ms, sel)
<1>1. FirstIn(stack, T, None) = None \/ FirstIn(stack, T, None) \in Elements(stack) \cap T
  <2> HIDE DEF T
  <2> QED
    BY FirstInFinds
<1> QED
  BY <1>1 DEF FocusedIn

\* focus_window takes nothing off the stack, and its target is on it afterwards.
LEMMA RaisesOnly ==
    ASSUME NEW ws, NEW stack, NEW mapped, Sound(ws, stack, mapped),
           NEW w \in Elements(ws) \cup {None}
    PROVE  /\ Elements(stack) \subseteq Elements(StackAfter(stack, w))
           /\ Elements(StackAfter(stack, w)) \subseteq Elements(stack) \cup {w}
           /\ w # None => w \in Elements(StackAfter(stack, w))
<1>1. CASE w = None
  BY <1>1 DEF StackAfter
<1>2. CASE w # None
  <2>1. w \in Window
    BY <1>2, ElementsOf DEF Sound
  <2>2. Elements(Raise(stack, w)) = Elements(stack) \cup {w}
    BY <2>1, RaiseElements DEF Sound
  <2>3. StackAfter(stack, w) = Raise(stack, w)
    BY <1>2 DEF StackAfter
  <2> QED
    BY <2>2, <2>3
<1> QED
  BY <1>1, <1>2

LEMMA SettleRaises ==
    ASSUME NEW ws, NEW stack, NEW wn, NEW ms, NEW sel,
           Sound(ws, stack, space), SettleOn(stack, ws, wn, ms, sel)
    PROVE  /\ Elements(stack) \subseteq Elements(focusStack')
           /\ Elements(focusStack') \subseteq Elements(stack) \cup {FocusedIn(stack, wn, ms, sel)}
<1> DEFINE f == FocusedIn(stack, wn, ms, sel)
<1>1. f \in Elements(ws) \cup {None} /\ focusStack' = StackAfter(stack, f)
  BY FocusedListed DEF SettleOn, FocusWindow
<1> HIDE DEF f
<1>2. /\ Elements(stack) \subseteq Elements(focusStack')
      /\ Elements(focusStack') \subseteq Elements(stack) \cup {f}
  BY <1>1, RaisesOnly
<1> QED
  BY <1>2 DEF f

-----------------------------------------------------------------------------
(***************************************************************************)
(* Ordinary steps: all but a window's coming, first commit, late parent    *)
(* and end, and hotplug.  They keep the list, who is linked to whom and    *)
(* who has its rules; they move windows only to monitors there are; and    *)
(* they take off the stack only a scratchpad, which they hide.             *)
(***************************************************************************)

LinksOf(s) == <<s.swallowing, s.swallowed, s.named, s.scratch, s.rulesApplied>>

\* A window that the scratchpad actions hide.
ScratchPad(w) == win[w].scratch \/ (w \in ScratchApps /\ win[w].named)

Ordinary ==
    /\ Elements(windows') = Elements(windows)
    /\ \A v \in Window : LinksOf(win'[v]) = LinksOf(win[v])
    /\ Homed => HomedWindows(windows, win', monitors)
    /\ \A v \in Elements(windows) \ Elements(focusStack') :
          \/ v \notin Elements(focusStack) /\ win'[v].tags = win[v].tags
          \/ win'[v].tags = {} /\ ScratchPad(v)

\* Steps that only raise windows.
LEMMA OnlyRaises ==
    ASSUME Known, win' = win, Elements(windows') = Elements(windows),
           Elements(focusStack) \subseteq Elements(focusStack')
    PROVE  Ordinary
BY DEF Ordinary, Homed

\* Steps that change one window w, which is on the stack then, or hidden.
LEMMA OneChanges ==
    ASSUME Known, windows' = windows, NEW w \in Window, NEW s,
           win' = [win EXCEPT ![w] = s], LinksOf(s) = LinksOf(win[w]),
           s.mon = win[w].mon \/ s.mon \in Indices(monitors),
           \A v \in Elements(focusStack) : v # w => v \in Elements(focusStack'),
           \/ s.tags = win[w].tags /\ (w \in Elements(focusStack) => w \in Elements(focusStack'))
           \/ w \in Elements(focusStack')
           \/ s.tags = {} /\ ScratchPad(w)
    PROVE  Ordinary
<1>1. \A v \in Window : win'[v] = IF v = w THEN s ELSE win[v]
  BY KnownTypes
<1>2. \A v \in Window : LinksOf(win'[v]) = LinksOf(win[v])
  BY <1>1
<1>3. Homed => HomedWindows(windows, win', monitors)
  BY <1>1, KnownTypes DEF Homed, HomedWindows
<1>4. \A v \in Elements(windows) \ Elements(focusStack') :
          \/ v \notin Elements(focusStack) /\ win'[v].tags = win[v].tags
          \/ win'[v].tags = {} /\ ScratchPad(v)
  BY <1>1, KnownTypes
<1> QED
  BY <1>2, <1>3, <1>4 DEF Ordinary

\* The changes that leave the links alone.
LEMMA Retags ==
    ASSUME NEW s \in WinStates, NEW x
    PROVE  LET t == [s EXCEPT !.tags = x]
           IN  LinksOf(t) = LinksOf(s) /\ t.mon = s.mon /\ t.tags = x
BY DEF WinStates, WindowState, LinksOf

LEMMA Fullscreens ==
    ASSUME NEW s \in WinStates, NEW x
    PROVE  LET t == [s EXCEPT !.fullscreen = x]
           IN  LinksOf(t) = LinksOf(s) /\ t.mon = s.mon /\ t.tags = s.tags
BY DEF WinStates, WindowState, LinksOf

LEMMA ViewsOrdinary ==
    ASSUME Known, View \/ ViewPrev \/ ViewNextOccTag \/ ToggleView
    PROVE  Ordinary
<1>1. win' = win /\ windows' = windows /\ \E ms : SettleOn(focusStack, windows, win, ms, selMon)
  BY Zenon DEF View, ViewPrev, ViewNextOccTag, ToggleView, SwitchView
<1>2. Elements(focusStack) \subseteq Elements(focusStack')
  BY <1>1, SettleRaises DEF Known, ListInv
<1> QED
  BY <1>1, <1>2, OnlyRaises

LEMMA TagOrdinary ==
    ASSUME Known, Tag
    PROVE  Ordinary
<1> DEFINE f == FocusedWindow
           moved(mask) == IF f = None THEN win ELSE [win EXCEPT ![f].tags = mask]
<1>1. PICK mask, ms : /\ win' = moved(mask) /\ windows' = windows
                      /\ SettleOn(focusStack, windows, moved(mask), ms, selMon)
  BY Zenon DEF Tag
<1>2. Elements(focusStack) \subseteq Elements(focusStack')
  <2> HIDE DEF moved
  <2> QED
    BY <1>1, SettleRaises DEF Known, ListInv
<1>3. CASE f = None
  BY <1>1, <1>2, <1>3, OnlyRaises
<1>4. CASE f # None
  <2>1. f \in Window /\ f \in Elements(focusStack) /\ win[f] \in WinStates
    BY <1>4, FocusedStacked, KnownTypes DEF FocusedWindow
  <2>2. win' = [win EXCEPT ![f] = [win[f] EXCEPT !.tags = mask]]
    BY <1>1, <1>4
  <2> HIDE DEF f
  <2>3. LinksOf([win[f] EXCEPT !.tags = mask]) = LinksOf(win[f])
        /\ [win[f] EXCEPT !.tags = mask].mon = win[f].mon
    BY <2>1, Retags
  <2> QED
    BY <1>1, <1>2, <2>1, <2>2, <2>3, OneChanges
<1> QED
  BY <1>3, <1>4

LEMMA FocusedChangesOrdinary ==
    ASSUME Known, ToggleTag \/ ToggleFloating \/ ToggleFullscreen
    PROVE  Ordinary
<1> DEFINE f == FocusedWindow
<1>1. f # None /\ UNCHANGED <<windows, focusStack>>
  BY DEF ToggleTag, ToggleFloating, ToggleFullscreen, ChangeFocused
<1>2. f \in Window /\ f \in Elements(focusStack) /\ win[f] \in WinStates
  BY <1>1, FocusedStacked, KnownTypes DEF FocusedWindow
<1>3. \E x, y : \/ win' = [win EXCEPT ![f] = [win[f] EXCEPT !.tags = x]]
                \/ win' = [win EXCEPT ![f] = [win[f] EXCEPT !.fullscreen = x]]
                \/ win' = [win EXCEPT ![f] = [win[f] EXCEPT !.floating = x, !.needsCentering = y]]
  <2>1. CASE ToggleTag
    <3>1. \E x : win' = [win EXCEPT ![f].tags = x]
      BY <2>1, Zenon DEF ToggleTag
    <3> QED
      BY <3>1
  <2>2. CASE ToggleFloating
    BY <2>2, Zenon DEF ToggleFloating, ChangeFocused
  <2>3. CASE ToggleFullscreen
    BY <2>3, Zenon DEF ToggleFullscreen, ChangeFocused
  <2> QED
    BY <2>1, <2>2, <2>3
<1> HIDE DEF f
<1>4. PICK x, y : \/ win' = [win EXCEPT ![f] = [win[f] EXCEPT !.tags = x]]
                  \/ win' = [win EXCEPT ![f] = [win[f] EXCEPT !.fullscreen = x]]
                  \/ win' = [win EXCEPT ![f] = [win[f] EXCEPT !.floating = x,
                                                               !.needsCentering = y]]
  BY <1>3
<1>5. ASSUME NEW s, win' = [win EXCEPT ![f] = s], LinksOf(s) = LinksOf(win[f]), s.mon = win[f].mon
      PROVE  Ordinary
  BY <1>1, <1>2, <1>5, OneChanges
<1>6. /\ LinksOf([win[f] EXCEPT !.tags = x]) = LinksOf(win[f])
      /\ [win[f] EXCEPT !.tags = x].mon = win[f].mon
  BY <1>2, Retags
<1>7. /\ LinksOf([win[f] EXCEPT !.fullscreen = x]) = LinksOf(win[f])
      /\ [win[f] EXCEPT !.fullscreen = x].mon = win[f].mon
  BY <1>2, Fullscreens
<1>8. /\ LinksOf([win[f] EXCEPT !.floating = x, !.needsCentering = y]) = LinksOf(win[f])
      /\ [win[f] EXCEPT !.floating = x, !.needsCentering = y].mon = win[f].mon
  BY <1>2 DEF WinStates, WindowState, LinksOf
<1> QED
  BY <1>4, <1>5, <1>6, <1>7, <1>8, Zenon

LEMMA FocusOrdinary ==
    ASSUME Known, FocusStack \/ Zoom \/ FocusMon
    PROVE  Ordinary
<1>1. win' = win /\ Sound(windows, focusStack, space)
  BY DEF FocusStack, Zoom, FocusMon, Known, ListInv
<1>2. CASE FocusStack
  <2>1. PICK forward \in BOOLEAN : /\ focusStack' = StackAfter(focusStack, FocusStep(forward))
                                   /\ windows' = windows
    BY <1>2, Zenon DEF FocusStack, FocusWindow
  <2>2. FocusStep(forward) \in Elements(windows) \cup {None}
    BY FocusStepListed, KnownTypes
  <2> QED
    BY <1>1, <2>1, <2>2, RaisesOnly, OnlyRaises
<1>3. CASE Zoom
  <2>1. PICK p \in Elements(windows) : windows' = Raise(windows, p)
                                         /\ focusStack' = StackAfter(focusStack, p)
    BY <1>3, ZoomPromotes DEF Known
  <2>2. Elements(windows') = Elements(windows)
    <3>1. windows \in Seq(Window) /\ Distinct(windows) /\ p \in Window
      BY KnownTypes DEF Known, ListInv, Sound
    <3>2. Elements(Raise(windows, p)) = Elements(windows) \cup {p}
      BY <3>1, RaiseElements
    <3> QED
      BY <2>1, <3>2
  <2>3. Elements(focusStack) \subseteq Elements(focusStack')
    BY <1>1, <2>1, RaisesOnly
  <2> QED
    BY <1>1, <2>2, <2>3, OnlyRaises
<1>4. CASE FocusMon
  <2>1. PICK next : /\ windows' = windows
                    /\ focusStack' =
                          StackAfter(focusStack, FocusedIn(focusStack, win, monitors, next))
    BY <1>4 DEF FocusMon, FocusWindow
  <2>2. FocusedIn(focusStack, win, monitors, next) \in Elements(windows) \cup {None}
    BY <1>1, FocusedListed
  <2> QED
    BY <1>1, <2>1, <2>2, RaisesOnly, OnlyRaises
<1> QED
  BY <1>2, <1>3, <1>4

LEMMA TagMonOrdinary ==
    ASSUME Known, TagMon
    PROVE  Ordinary
<1> DEFINE f == FocusedWindow
<1>1. PICK next \in Neighbours(selMon) :
         /\ win' = [win EXCEPT ![f].tags = TagsOf(monitors[next]), ![f].mon = next]
         /\ focusStack' = StackAfter(focusStack, f) \/ focusStack' = focusStack
         /\ windows' = windows
  BY Zenon DEF TagMon, FocusWindow
<1>2. f # None
  BY DEF TagMon
<1>3. f \in Window /\ f \in Elements(focusStack) /\ win[f] \in WinStates
  BY <1>2, FocusedStacked, KnownTypes DEF FocusedWindow
<1>4. next \in Indices(monitors)
  BY NeighbourMonitors, KnownTypes DEF Indices
<1> DEFINE tags == TagsOf(monitors[next])
           s == [win[f] EXCEPT !.tags = tags, !.mon = next]
<1>5. win' = [win EXCEPT ![f] = s]
  BY <1>1, <1>3, KnownTypes
<1> HIDE DEF f, tags
<1>6. LinksOf(s) = LinksOf(win[f]) /\ s.mon = next
  BY <1>3 DEF WinStates, WindowState, LinksOf
<1> HIDE DEF s
<1>7. Elements(focusStack) \subseteq Elements(focusStack')
  <2>1. f \in Elements(windows) \cup {None} /\ Sound(windows, focusStack, space)
    BY <1>3 DEF Known, ListInv, Sound
  <2> QED
    BY <1>1, <2>1, RaisesOnly
<1> QED
  BY <1>1, <1>3, <1>4, <1>5, <1>6, <1>7, OneChanges

\* The scratchpad commands act on a window of the list that a rule or a name marks.
LEMMA ScratchPadTargets ==
    ASSUME Known, ToggleScratch \/ FocusOrToggleScratch \/ FocusOrToggleMatchingScratch
    PROVE  \E w \in Elements(windows) : \E hide : ScratchPad(w) /\ HideOrShow(w, hide)
<1>1. \A T : \/ FirstIn(windows, T, None) = None
             \/ FirstIn(windows, T, None) \in Elements(windows) \cap T
  BY KnownTypes, FirstInFinds
<1>2. CASE ToggleScratch \/ FocusOrToggleScratch
  <2> DEFINE T == {w \in Window : win[w].scratch}
  <2>1. ScratchWindow # None /\ \E hide : HideOrShow(ScratchWindow, hide)
    BY <1>2, Zenon DEF ToggleScratch, FocusOrToggleScratch
  <2>2. ScratchWindow = FirstIn(windows, T, None)
    BY DEF ScratchWindow
  <2>3. ScratchWindow \in Elements(windows) /\ ScratchWindow \in T
    BY <1>1, <2>1, <2>2
  <2> QED
    BY <2>1, <2>3 DEF ScratchPad
<1>3. CASE FocusOrToggleMatchingScratch
  <2> DEFINE T == {v \in Window : win[v].scratch \/ (v \in ScratchApps /\ win[v].named)}
             w == FirstIn(windows, T, None)
  <2>1. w # None /\ HideOrShow(w, VisibleHere(w))
    BY <1>3, Zenon DEF FocusOrToggleMatchingScratch
  <2>2. w = None \/ (w \in Elements(windows) /\ w \in T)
    BY <1>1
  <2> HIDE DEF w
  <2> QED
    BY <2>1, <2>2 DEF ScratchPad
<1> QED
  BY <1>2, <1>3

LEMMA ScratchOrdinary ==
    ASSUME Known, ToggleScratch \/ FocusOrToggleScratch \/ FocusOrToggleMatchingScratch
    PROVE  Ordinary
<1>1. PICK w \in Elements(windows) : \E hide : ScratchPad(w) /\ HideOrShow(w, hide)
  BY ScratchPadTargets
<1>2. w \in Window /\ win[w] \in WinStates /\ Sound(windows, focusStack, space)
  BY KnownTypes DEF Known, ListInv
<1>3. CASE HideScratch(w)
  <2> DEFINE stack == Without(focusStack, w)
             s == [win[w] EXCEPT !.tags = {}]
  <2>1. /\ win' = [win EXCEPT ![w] = s] /\ windows' = windows
        /\ SettleOn(stack, windows, win', monitors, selMon)
    BY <1>3, Zenon DEF HideScratch
  <2>2. Elements(stack) = Elements(focusStack) \ {w} /\ Sound(windows, stack, space)
    BY <1>2, WithoutElements DEF Sound
  <2>3. s.tags = {} /\ LinksOf(s) = LinksOf(win[w]) /\ s.mon = win[w].mon
    BY <1>2, Retags
  <2> HIDE DEF stack, s
  <2>4. Elements(stack) \subseteq Elements(focusStack')
    BY <2>1, <2>2, SettleRaises
  <2> QED
    BY <1>1, <1>2, <2>1, <2>2, <2>3, <2>4, OneChanges
<1>4. CASE ShowScratch(w)
  <2> DEFINE tags == PlacementTags(monitors, selMon)
             s == [win[w] EXCEPT !.tags = tags]
  <2>1. /\ win' = [win EXCEPT ![w] = s] /\ windows' = windows
        /\ focusStack' = StackAfter(focusStack, w)
    BY <1>4, Zenon DEF ShowScratch, FocusWindow
  <2> HIDE DEF tags
  <2>2. LinksOf(s) = LinksOf(win[w]) /\ s.mon = win[w].mon
    BY <1>2, Retags
  <2> HIDE DEF s
  <2>3. Elements(focusStack) \subseteq Elements(focusStack') /\ w \in Elements(focusStack')
    BY <1>2, <2>1, RaisesOnly, WindowAssumption
  <2> QED
    BY <1>2, <2>1, <2>2, <2>3, OneChanges
<1> QED
  BY <1>1, <1>3, <1>4 DEF HideOrShow

LEMMA RequestsOrdinary ==
    ASSUME Known, NEW w \in Window, FullscreenRequest(w) \/ DialogHint(w) \/ CommitBuffer(w)
    PROVE  Ordinary
<1>1. UNCHANGED <<windows, focusStack>> /\ win[w] \in WinStates /\ win \in [Window -> WinStates]
  BY KnownTypes DEF FullscreenRequest, DialogHint, CommitBuffer
<1>2. ASSUME NEW s, win' = [win EXCEPT ![w] = s], LinksOf(s) = LinksOf(win[w]),
             s.mon = win[w].mon, s.tags = win[w].tags
      PROVE  Ordinary
  BY <1>1, <1>2, OneChanges
<1>3. CASE FullscreenRequest(w)
  <2>1. PICK b \in BOOLEAN : win' = [win EXCEPT ![w] = [win[w] EXCEPT !.fullscreen = b]]
    BY <1>1, <1>3 DEF FullscreenRequest
  <2> DEFINE s == [win[w] EXCEPT !.fullscreen = b]
  <2>2. LinksOf(s) = LinksOf(win[w]) /\ s.mon = win[w].mon /\ s.tags = win[w].tags
    BY <1>1 DEF WinStates, WindowState, LinksOf
  <2> QED
    BY <1>2, <2>1, <2>2
<1>4. CASE DialogHint(w)
  <2> DEFINE s == [win[w] EXCEPT !.floating = TRUE, !.needsCentering = TRUE]
  <2>1. win' = [win EXCEPT ![w] = s]
    BY <1>1, <1>4 DEF DialogHint
  <2>2. LinksOf(s) = LinksOf(win[w]) /\ s.mon = win[w].mon /\ s.tags = win[w].tags
    BY <1>1 DEF WinStates, WindowState, LinksOf
  <2> QED
    BY <1>2, <2>1, <2>2
<1>5. CASE CommitBuffer(w)
  <2> DEFINE b == win[w].floating \/ FloatsAtMap(win, w)
             c == (win[w].needsCentering \/ FloatsAtMap(win, w)) /\ ~Centres(win, monitors, w)
             s == [win[w] EXCEPT !.bufferMapped = TRUE, !.floating = b, !.needsCentering = c]
  <2>1. win' = [win EXCEPT ![w] = s]
    BY <1>5 DEF CommitBuffer, Buffered
  <2> HIDE DEF b, c
  <2>2. LinksOf(s) = LinksOf(win[w]) /\ s.mon = win[w].mon /\ s.tags = win[w].tags
    BY <1>1 DEF WinStates, WindowState, LinksOf
  <2> QED
    BY <1>2, <2>1, <2>2
<1> QED
  BY <1>3, <1>4, <1>5

LEMMA DevicesOrdinary ==
    ASSUME Known, PointerMotion \/ Click \/ IpcView \/ LockEvent \/ \E w \in Window : Activate(w)
    PROVE  Ordinary
<1>1. win' = win /\ windows' = windows /\ Sound(windows, focusStack, space)
  BY DEF PointerMotion, Click, IpcView, LockEvent, LockNative, LockExt, NewLockSurface, Unlock,
         Activate, Known, ListInv
<1>2. \/ focusStack' = focusStack
      \/ \E w \in Elements(windows) \cup {None} : focusStack' = StackAfter(focusStack, w)
      \/ \E ms : SettleOn(focusStack, windows, win, ms, selMon)
  <2>1. CASE PointerMotion
    BY <1>1, <2>1, Zenon DEF PointerMotion, FocusWindow, Sound
  <2>2. CASE Click
    <3>1. PICK w \in space : focusStack' = StackAfter(focusStack, w)
      BY <2>2 DEF Click, FocusWindow
    <3> QED
      BY <1>1, <3>1 DEF Sound
  <2>3. CASE IpcView
    BY <2>3, Zenon DEF IpcView
  <2>4. CASE LockEvent
    BY <2>4 DEF LockEvent, LockNative, LockExt, NewLockSurface, Unlock
  <2>5. CASE \E w \in Window : Activate(w)
    BY <2>5, Zenon DEF Activate, FocusWindow
  <2> QED
    BY <2>1, <2>2, <2>3, <2>4, <2>5
<1>3. Elements(focusStack) \subseteq Elements(focusStack')
  BY <1>1, <1>2, RaisesOnly, SettleRaises
<1> QED
  BY <1>1, <1>3, OnlyRaises

\* The steps that are not ordinary.
LEMMA OrdinarySteps ==
    ASSUME Known, [Next]_vars
    PROVE  \/ Ordinary
           \/ Hotplugged
           \/ \E w \in Window : NewToplevel(w) \/ CommitFirst(w) \/ Destroy(w) \/ ParentChanged(w)
<1>1. CASE UNCHANGED vars
  BY <1>1, OnlyRaises DEF vars
<1>2. CASE BoundAction
  BY <1>2, ViewsOrdinary, TagOrdinary, FocusedChangesOrdinary, FocusOrdinary, TagMonOrdinary,
     ScratchOrdinary DEF BoundAction
<1>3. CASE \E w \in Window : ClientEvent(w)
  BY <1>3, RequestsOrdinary, DevicesOrdinary DEF ClientEvent
<1>4. CASE DeviceEvent \/ LockEvent
  BY <1>4, DevicesOrdinary DEF DeviceEvent, Hotplugged
<1> QED
  BY <1>1, <1>2, <1>3, <1>4 DEF Next

-----------------------------------------------------------------------------
(***************************************************************************)
(* What a first commit and an end do to the windows.                       *)
(***************************************************************************)

\* new_toplevel lists the window, in front of the others.
LEMMA NewWindowListed ==
    ASSUME Known, NEW w \in Window, NewToplevel(w)
    PROVE  Elements(windows') = Elements(windows) \cup {w}
<1>1. windows' = <<w>> \o windows
  BY Zenon DEF NewToplevel
<1>2. windows \in Seq(Window) /\ <<w>> \in Seq(Window) /\ Len(<<w>>) = 1 /\ <<w>>[1] = w
      /\ Len(windows) \in Nat
  BY KnownTypes, LenProperties
<1>3. /\ windows' \in Seq(Window) /\ Len(windows') = 1 + Len(windows)
      /\ \A i \in 1 .. Len(windows') : windows'[i] = IF i = 1 THEN w ELSE windows[i - 1]
  BY <1>1, <1>2, ConcatProperties
<1>4. Elements(windows') \subseteq Elements(windows) \cup {w}
  BY <1>2, <1>3 DEF Elements
<1>5. \A i \in 1 .. Len(windows) : i + 1 \in 1 .. Len(windows') /\ windows'[i + 1] = windows[i]
  BY <1>2, <1>3
<1>6. 1 \in 1 .. Len(windows') /\ windows'[1] = w
  BY <1>2, <1>3
<1>7. \A e : (\E i \in 1 .. Len(windows') : windows'[i] = e) => e \in Elements(windows')
  BY <1>3, ElementsOf
<1>8. \A e \in Elements(windows) : \E i \in 1 .. Len(windows) : windows[i] = e
  BY <1>2, ElementsOf
<1>9. Elements(windows) \cup {w} \subseteq Elements(windows')
  BY <1>5, <1>6, <1>7, <1>8
<1> QED
  BY <1>4, <1>9

LEMMA TargetListed ==
    ASSUME Known, NEW w \in Window
    PROVE  LET t == SwallowTarget(w)
           IN  \/ t = None
               \/ /\ t \in Elements(windows) /\ t \in Window /\ t # w
                  /\ win[t].named /\ ~win[t].swallowed /\ t \in Elements(Lineage[w])
<1> DEFINE T == {u \in Elements(windows) \ {w} : win[u].named /\ ~win[u].swallowed}
<1>1. Lineage[w] \in Seq(Window)
  BY LineageAssumption
<1>2. \/ FirstIn(Lineage[w], T, None) = None
      \/ FirstIn(Lineage[w], T, None) \in Elements(Lineage[w]) \cap T
  <2> HIDE DEF T
  <2> QED
    BY <1>1, FirstInFinds
<1>3. SwallowTarget(w) = FirstIn(Lineage[w], T, None)
  BY DEF SwallowTarget
<1>4. SwallowTarget(w) = None \/ SwallowTarget(w) \in Elements(Lineage[w]) \cap T
  BY <1>2, <1>3
<1> QED
  BY <1>4, KnownTypes

\* The states after a first commit: w as ruled, in the place of the terminal t it hides.
CommittedTo(w, s, wn) ==
    LET t == SwallowTarget(w)
    IN  /\ \A v \in Window \ {w, t} : wn[v] = win[v]
        /\ <<wn[w].swallowed, wn[w].named, wn[w].scratch, wn[w].rulesApplied>>
              = <<s.swallowed, s.named, s.scratch, s.rulesApplied>>
        /\ t = None => wn[w].tags = s.tags /\ wn[w].mon = s.mon /\ wn[w].swallowing = s.swallowing
        /\ t # None => /\ wn[w].tags = win[t].tags /\ wn[w].mon = win[t].mon
                       /\ wn[w].swallowing = t
                       /\ wn[t] = [win[t] EXCEPT !.swallowed = TRUE]

LEMMA CommittedStates ==
    ASSUME Known, NEW w \in Window, NEW s \in WinStates, NEW ms
    PROVE  LET ruled == Swallow([win EXCEPT ![w] = s], w)
           IN  CommittedTo(w, s, ruled) /\ CommittedTo(w, s, Buffered(ruled, ms, w))
<1> DEFINE t == SwallowTarget(w)
           wn == [win EXCEPT ![w] = s]
           ruled == Swallow(wn, w)
<1>1. \/ t = None
      \/ t \in Elements(windows) /\ t \in Window /\ t # w
  BY TargetListed
<1>2. win \in [Window -> WinStates]
  BY KnownTypes
<1>3. ruled = IF t = None THEN wn
              ELSE [wn EXCEPT
                      ![w] = [wn[w] EXCEPT !.tags = wn[t].tags, !.mon = wn[t].mon,
                                           !.floating = wn[t].floating,
                                           !.needsCentering = wn[t].floating,
                                           !.swallowing = t],
                      ![t] = [wn[t] EXCEPT !.swallowed = TRUE]]
  BY DEF Swallow
<1>4. CommittedTo(w, s, ruled)
  <2>1. CASE t = None
    BY <1>2, <1>3, <2>1 DEF CommittedTo
  <2>2. CASE t # None
    <3> DEFINE child == [s EXCEPT !.tags = win[t].tags, !.mon = win[t].mon,
                                  !.floating = win[t].floating,
                                  !.needsCentering = win[t].floating, !.swallowing = t]
               hidden == [win[t] EXCEPT !.swallowed = TRUE]
    <3>1. ruled = [wn EXCEPT ![w] = child, ![t] = hidden]
      BY <1>1, <1>2, <1>3, <2>2
    <3>2. /\ <<child.swallowed, child.named, child.scratch, child.rulesApplied>>
               = <<s.swallowed, s.named, s.scratch, s.rulesApplied>>
          /\ child.tags = win[t].tags /\ child.mon = win[t].mon /\ child.swallowing = t
      BY DEF WinStates, WindowState
    <3> HIDE DEF child, hidden, t
    <3>3. /\ ruled[w] = child /\ ruled[t] = hidden
          /\ \A v \in Window \ {w, t} : ruled[v] = win[v]
      BY <1>1, <1>2, <2>2, <3>1
    <3> HIDE DEF ruled
    <3> QED
      BY <2>2, <3>2, <3>3 DEF CommittedTo, t, hidden
  <2> QED
    BY <2>1, <2>2
<1>5. ruled \in [Window -> WinStates]
  BY Replaced, SwallowTyped
<1> HIDE DEF ruled
<1>6. /\ \A v \in Window \ {w} : Buffered(ruled, ms, w)[v] = ruled[v]
      /\ LinksOf(Buffered(ruled, ms, w)[w]) = LinksOf(ruled[w])
      /\ Buffered(ruled, ms, w)[w].tags = ruled[w].tags
      /\ Buffered(ruled, ms, w)[w].mon = ruled[w].mon
  BY <1>5 DEF Buffered, LinksOf, WinStates, WindowState
<1>7. CommittedTo(w, s, Buffered(ruled, ms, w))
  BY <1>1, <1>4, <1>6 DEF CommittedTo, LinksOf
<1> QED
  BY <1>4, <1>7 DEF ruled

\* ... and what toplevel_destroyed makes of the states: the terminal t that w hid takes its
\* place, and nothing refers to w any more.
LEMMA DestroyedStates ==
    ASSUME Known, NEW w \in Window, NEW ws
    PROVE  LET t == win[w].swallowing
               final == Unswallowed(w, ws)
           IN  /\ final[w] = NewWindow
               /\ \A v \in Window \ {w} : v # t \/ v \notin Elements(ws) =>
                     /\ final[v].tags = win[v].tags /\ final[v].mon = win[v].mon
                     /\ final[v].swallowed = win[v].swallowed /\ final[v].named = win[v].named
                     /\ final[v].scratch = win[v].scratch
                     /\ final[v].rulesApplied = win[v].rulesApplied
                     /\ final[v].swallowing =
                           IF win[w].swallowed /\ win[v].swallowing = w THEN None
                           ELSE win[v].swallowing
               /\ t \in Elements(ws) /\ t \in Window \ {w} =>
                     /\ ~final[t].swallowed
                     /\ final[t].tags = win[w].tags /\ final[t].mon = win[w].mon
                     /\ final[t].named = win[t].named /\ final[t].scratch = win[t].scratch
                     /\ final[t].rulesApplied = win[t].rulesApplied
                     /\ final[t].swallowing = win[t].swallowing
<1> DEFINE t == win[w].swallowing
           final == Unswallowed(w, ws)
<1>1. win \in [Window -> WindowState]
  BY KnownTypes DEF WinStates
<1>2. \A v \in Window :
         final[v] = IF v = w THEN NewWindow
                    ELSE IF v = t /\ v \in Elements(ws)
                    THEN [win[v] EXCEPT !.swallowed = FALSE, !.tags = win[w].tags,
                                        !.mon = win[w].mon]
                    ELSE IF win[w].swallowed /\ win[v].swallowing = w
                    THEN [win[v] EXCEPT !.swallowing = None]
                    ELSE win[v]
  BY DEF Unswallowed
<1> HIDE DEF final, t
<1>3. final[w] = NewWindow
  BY <1>2
<1>4. ASSUME NEW v \in Window \ {w}, v # t \/ v \notin Elements(ws)
      PROVE  /\ final[v].tags = win[v].tags /\ final[v].mon = win[v].mon
             /\ final[v].swallowed = win[v].swallowed /\ final[v].named = win[v].named
             /\ final[v].scratch = win[v].scratch
             /\ final[v].rulesApplied = win[v].rulesApplied
             /\ final[v].swallowing =
                   IF win[w].swallowed /\ win[v].swallowing = w THEN None
                   ELSE win[v].swallowing
  <2>1. final[v] = IF win[w].swallowed /\ win[v].swallowing = w
                   THEN [win[v] EXCEPT !.swallowing = None] ELSE win[v]
    BY <1>2, <1>4
  <2>2. win[v] \in WindowState
    BY <1>1
  <2> QED
    BY <2>1, <2>2 DEF WindowState
<1>5. ASSUME t \in Elements(ws), t \in Window \ {w}
      PROVE  /\ ~final[t].swallowed
             /\ final[t].tags = win[w].tags /\ final[t].mon = win[w].mon
             /\ final[t].named = win[t].named /\ final[t].scratch = win[t].scratch
             /\ final[t].rulesApplied = win[t].rulesApplied
             /\ final[t].swallowing = win[t].swallowing
  <2>1. final[t] = [win[t] EXCEPT !.swallowed = FALSE, !.tags = win[w].tags, !.mon = win[w].mon]
    BY <1>2, <1>5
  <2>2. win[t] \in WindowState
    BY <1>1, <1>5
  <2> QED
    BY <2>1, <2>2 DEF WindowState
<1> QED
  BY <1>3, <1>4, <1>5 DEF final, t

\* The states apply_rules may give a window keep its links and have its rules.
RuledFrom(w, s) ==
    /\ s \in WinStates
    /\ s.rulesApplied /\ s.named
    /\ s.swallowing = win[w].swallowing /\ s.swallowed = win[w].swallowed
    /\ Homed => s.mon \in Indices(monitors)

LEMMA RulesGive ==
    ASSUME Known, NEW w \in Window, NEW r \in Rules
    PROVE  RuledFrom(w, RuledState(w, r))
<1> DEFINE i == RuleMonitor(r)
           s == RuledState(w, r)
<1>1. s \in WinStates
  BY RuledTyped
<1>2. win[w] \in WindowState
  BY KnownTypes DEF WinStates
<1>3. /\ s.rulesApplied /\ s.named /\ s.mon = i
      /\ s.swallowing = win[w].swallowing /\ s.swallowed = win[w].swallowed
  <2> HIDE DEF i
  <2>1. RuledState(w, r).mon = i
    BY <1>2 DEF RuledState, WindowState, i
  <2> QED
    BY <1>2, <2>1 DEF RuledState, WindowState
<1>4. Homed => i \in Indices(monitors)
  <2>1. r.monitor \in Nat
    BY RulesAssumption
  <2>2. monitors \in Seq(ShowingMonitors) /\ selMon \in Nat \ {0}
    BY KnownTypes
  <2>3. CASE monitors = <<>>
    BY <2>1, <2>3 DEF RuleMonitor, Indices, Homed
  <2>4. CASE monitors # <<>>
    BY <2>1, <2>2, <2>4 DEF RuleMonitor, Indices, Homed
  <2> QED
    BY <2>3, <2>4
<1> HIDE DEF s, i
<1> QED
  BY <1>1, <1>3, <1>4 DEF RuledFrom, s

LEMMA ParentsGive ==
    ASSUME Known, NEW w \in Window, NEW p \in Elements(windows) \cup {None}
    PROVE  RuledFrom(w, ParentedState(w, p))
<1> DEFINE s == ParentedState(w, p)
           mon == IF p = None THEN selMon ELSE win[p].mon
<1>1. s \in WinStates
  BY ParentedTyped, KnownTypes
<1>2. win[w] \in WindowState
  BY KnownTypes DEF WinStates
<1>3. /\ s.rulesApplied /\ s.named /\ s.mon = mon
      /\ s.swallowing = win[w].swallowing /\ s.swallowed = win[w].swallowed
  BY <1>2 DEF ParentedState, WindowState
<1>4. Homed => mon \in Indices(monitors)
  BY DEF Homed, HomedWindows
<1> HIDE DEF s, mon
<1> QED
  BY <1>1, <1>3, <1>4 DEF RuledFrom, s

LEMMA FirstCommits ==
    ASSUME Known, NEW w \in Window, CommitFirst(w)
    PROVE  /\ w \in Elements(windows) /\ ~win[w].rulesApplied
           /\ \E s, ms, sized : RuledFrom(w, s) /\ SameOutputs(ms) /\ CommitRuled(w, s, ms, sized)
<1>1. w \in Elements(windows) /\ ~win[w].rulesApplied
  BY DEF CommitFirst
<1>2. \E sized :
        \/ \E r \in Rules : \E ms :
              /\ \/ ms = monitors
                 \/ ms = MonitorsWith(RuleMonitor(r), ViewOf(monitors[RuleMonitor(r)], r.tags))
              /\ CommitRuled(w, RuledState(w, r), ms, sized)
        \/ \E p \in Elements(windows) \cup {None} :
              CommitRuled(w, ParentedState(w, p), monitors, sized)
  BY Zenon DEF CommitFirst
<1>3. PICK sized :
        \/ \E r \in Rules : \E ms :
              /\ \/ ms = monitors
                 \/ ms = MonitorsWith(RuleMonitor(r), ViewOf(monitors[RuleMonitor(r)], r.tags))
              /\ CommitRuled(w, RuledState(w, r), ms, sized)
        \/ \E p \in Elements(windows) \cup {None} :
              CommitRuled(w, ParentedState(w, p), monitors, sized)
  BY <1>2
<1>4. TagInv
  BY DEF Known
<1>5. ASSUME NEW r \in Rules, NEW ms,
             \/ ms = monitors
             \/ ms = MonitorsWith(RuleMonitor(r), ViewOf(monitors[RuleMonitor(r)], r.tags)),
             CommitRuled(w, RuledState(w, r), ms, sized)
      PROVE  RuledFrom(w, RuledState(w, r)) /\ SameOutputs(ms)
  BY <1>4, <1>5, RulesGive, ShowingOtherTags
<1>6. \A p \in Elements(windows) \cup {None} : RuledFrom(w, ParentedState(w, p))
  BY ParentsGive
<1>7. SameOutputs(monitors)
  BY DEF SameOutputs
<1> QED
  BY <1>1, <1>3, <1>5, <1>6, <1>7, Zenon

\* toplevel_destroyed: the window is off every list, what is raised instead is `top`, and
\* that is the terminal the window hid if there was one.
DestroyedLists(w, top) ==
    /\ windows' = Without(windows, w) /\ Elements(windows') = Elements(windows) \ {w}
    /\ win' = Unswallowed(w, windows')
    /\ Elements(focusStack) \ {w} \subseteq Elements(focusStack')
    /\ top \in Elements(windows') \cup {None} /\ (top # None => top \in Elements(focusStack'))
    /\ win[w].swallowing \in Elements(windows') => top = win[w].swallowing
    /\ Homed => selMon' \in Indices(monitors)
    /\ space' = ArrangedAll(space \ {w}, windows', win', monitors')
    /\ locked = "no" => focus' = top
    /\ ~AutoBack => monitors' = monitors

LEMMA DestroyShape ==
    ASSUME Known, NEW w \in Window, Destroy(w)
    PROVE  \E top : DestroyedLists(w, top)
<1> DEFINE ws == Without(windows, w)
           stack == Without(focusStack, w)
           t == win[w].swallowing
           restored == IF t \in Elements(ws) THEN t ELSE None
           i == win[w].mon
           backs == AutoBacks(w, ws)
           ms == IF backs
                 THEN MonitorsWith(i, Reassigned(monitors[i],
                                                 AutoBackTarget(ws, i, win[w].switchToTag)))
                 ELSE monitors
           moved == backs /\ ms # monitors
           refocused == FocusedIn(stack, win, ms, selMon)
           stack1 == IF moved THEN StackAfter(stack, refocused) ELSE stack
           sel == IF moved THEN SelectedAfter(stack, win, selMon, refocused) ELSE selMon
           final == Unswallowed(w, ws)
           master(tiling) == IF tiling /\ win[w].bufferMapped
                             THEN TileMaster(ws, final, ms, sel) ELSE None
           topWhen(tiling) == IF restored # None THEN restored
                              ELSE IF master(tiling) # None THEN master(tiling)
                              ELSE FocusedIn(stack1, final, ms, sel)
<1>1. PICK tiling \in BOOLEAN :
         /\ windows' = ws /\ win' = final /\ monitors' = ms
         /\ focusStack' = StackAfter(stack1, topWhen(tiling))
         /\ selMon' = SelectedAfter(stack1, final, sel, topWhen(tiling))
         /\ focus' = IF locked = "no" THEN topWhen(tiling)
                     ELSE IF focus = w THEN None ELSE focus
         /\ space' = ArrangedAll(space \ {w}, ws, final, ms)
  BY ZenonT(60) DEF Destroy
<1>2. /\ Sound(ws, stack, space \ {w})
      /\ Elements(ws) = Elements(windows) \ {w} /\ Elements(stack) = Elements(focusStack) \ {w}
  <2>1. windows \in Seq(Window) /\ Distinct(windows) /\ focusStack \in Seq(Window)
        /\ Distinct(focusStack)
    BY DEF Known, ListInv, Sound
  <2>2. ws \in Seq(Window) /\ Distinct(ws) /\ Elements(ws) = Elements(windows) \ {w}
    BY <2>1, WithoutElements
  <2>3. stack \in Seq(Window) /\ Distinct(stack) /\ Elements(stack) = Elements(focusStack) \ {w}
    BY <2>1, WithoutElements
  <2> HIDE DEF ws, stack
  <2> QED
    BY <2>2, <2>3 DEF Known, ListInv, Sound
<1>3. refocused \in Elements(ws) \cup {None}
  <2> HIDE DEF ws, stack, ms
  <2> QED
    BY <1>2, FocusedListed
<1>4. Sound(ws, stack1, space \ {w}) /\ Elements(stack) \subseteq Elements(stack1)
  <2> HIDE DEF ws, stack, refocused
  <2>1. Sound(ws, StackAfter(stack, refocused), space \ {w})
    BY <1>2, <1>3, StackAfterSound
  <2>2. Elements(stack) \subseteq Elements(StackAfter(stack, refocused))
    BY <1>2, <1>3, RaisesOnly
  <2> QED
    BY <1>2, <2>1, <2>2
<1> DEFINE top == topWhen(tiling)
<1>5. top \in Elements(ws) \cup {None} /\ (t \in Elements(ws) => top = t)
  <2>1. FocusedIn(stack1, final, ms, sel) \in Elements(ws) \cup {None}
    <3> HIDE DEF stack1, ws, final, ms, sel
    <3> QED
      BY <1>4, FocusedListed
  <2>2. TileMaster(ws, final, ms, sel) \in Elements(ws) \cup {None}
    <3>1. \A T : FirstIn(ws, T, None) \in Elements(ws) \cup {None}
      <4> HIDE DEF ws
      <4> QED
        BY <1>2, FirstInFinds DEF Sound
    <3> HIDE DEF ws, final, ms, sel
    <3> QED
      BY <3>1 DEF TileMaster
  <2>3. t \in Elements(ws) => restored = t /\ restored # None
    <3>1. None \notin Elements(ws)
      BY <1>2, KnownTypes, WindowAssumption
    <3> QED
      BY <3>1
  <2> HIDE DEF restored, ws, stack1, final, ms, sel, t
  <2>4. restored \in Elements(ws) \cup {None}
    BY DEF restored
  <2> QED
    BY <2>1, <2>2, <2>3, <2>4
<1>6. /\ windows' = ws /\ win' = final /\ monitors' = ms
      /\ focusStack' = StackAfter(stack1, top)
      /\ selMon' = SelectedAfter(stack1, final, sel, top)
      /\ locked = "no" => focus' = top
      /\ space' = ArrangedAll(space \ {w}, ws, final, ms)
      /\ ~AutoBack => ms = monitors
  BY <1>1 DEF AutoBacks
<1>7. Homed => selMon' \in Indices(monitors)
  <2> SUFFICES ASSUME Homed PROVE selMon' \in Indices(monitors)
    OBVIOUS
  <2>1. \A v \in Elements(ws) : v \in Window /\ v # w /\ win[v].mon \in Indices(monitors)
    BY <1>2, KnownTypes DEF Homed, HomedWindows
  <2>2. win[w].mon \in Indices(monitors)
    <3>1. w \in Elements(windows)
      BY DEF Destroy
    <3> QED
      BY <3>1 DEF Homed, HomedWindows
  <2>3. \A v \in Elements(ws) : final[v].mon \in Indices(monitors)
    <3> SUFFICES ASSUME NEW v \in Elements(ws) PROVE final[v].mon \in Indices(monitors)
      OBVIOUS
    <3>1. v \in Window /\ v # w /\ win[v].mon \in Indices(monitors)
      BY <2>1
    <3> HIDE DEF ws, final
    <3>2. CASE v = t
      BY <2>2, <3>1, <3>2, DestroyedStates DEF final, t
    <3>3. CASE v # t
      <4>1. final[v].mon = win[v].mon
        BY <3>1, <3>3, DestroyedStates DEF final, t
      <4> QED
        BY <3>1, <4>1
    <3> QED
      BY <3>2, <3>3
  <2>4. sel \in Indices(monitors)
    <3>1. selMon \in Indices(monitors)
      BY DEF Homed
    <3> HIDE DEF ws, stack, refocused, moved
    <3>2. SelectedAfter(stack, win, selMon, refocused) \in Indices(monitors)
      BY <1>3, <2>1, <3>1, SelectsHome
    <3> QED
      BY <3>1, <3>2
  <2> HIDE DEF ws, stack1, final, sel, top
  <2> QED
    BY <1>5, <1>6, <2>3, <2>4, SelectsHome
<1> HIDE DEF ws, stack, stack1, final, ms, sel, top
<1>8. Elements(stack1) \subseteq Elements(focusStack') /\ (top # None => top \in Elements(focusStack'))
  BY <1>4, <1>5, <1>6, RaisesOnly
<1> QED
  BY <1>2, <1>4, <1>5, <1>6, <1>7, <1>8 DEF DestroyedLists, ws, stack, final

-----------------------------------------------------------------------------
(***************************************************************************)
(* Indices stay valid.                                                     *)
(***************************************************************************)

\* Where an ordinary step takes the selection from.
Selected(wn, sel, w) == \E stack : selMon' = SelectedAfter(stack, wn, sel, w)

LEMMA SettleSelected ==
    ASSUME NEW ws, NEW stack, NEW wn, NEW ms, NEW sel,
           Sound(ws, stack, space), SettleOn(stack, ws, wn, ms, sel)
    PROVE  \E w \in Elements(ws) \cup {None} : Selected(wn, sel, w)
<1>1. FocusedIn(stack, wn, ms, sel) \in Elements(ws) \cup {None}
  BY FocusedListed
<1> QED
  BY <1>1, Zenon DEF SettleOn, FocusWindow, Selected

LEMMA BoundSelected ==
    ASSUME Known, Homed, BoundAction
    PROVE  \/ selMon' = selMon
           \/ \E w \in Elements(windows) \cup {None}, sel \in Indices(monitors) :
                 Selected(win, sel, w) \/ Selected(win', sel, w)
<1>1. Sound(windows, focusStack, space) /\ selMon \in Indices(monitors)
  BY DEF Known, ListInv, Homed
<1>2. CASE View \/ ViewPrev \/ ViewNextOccTag \/ ToggleView
  <2>1. \E ms : SettleOn(focusStack, windows, win, ms, selMon)
    BY <1>2, Zenon DEF View, ViewPrev, ViewNextOccTag, ToggleView, SwitchView
  <2> QED
    BY <1>1, <2>1, SettleSelected
<1>3. CASE Tag
  <2>1. \E ms : SettleOn(focusStack, windows, win', ms, selMon)
    BY <1>3, Zenon DEF Tag
  <2> QED
    BY <1>1, <2>1, SettleSelected
<1>4. CASE ToggleTag \/ ToggleFloating \/ ToggleFullscreen
  BY <1>4 DEF ToggleTag, ToggleFloating, ToggleFullscreen, ChangeFocused
<1>5. CASE FocusStack
  <2>1. PICK forward \in BOOLEAN : Selected(win, selMon, FocusStep(forward))
    BY <1>5, Zenon DEF FocusStack, FocusWindow, Selected
  <2>2. FocusStep(forward) \in Elements(windows) \cup {None}
    BY FocusStepListed, KnownTypes
  <2> QED
    BY <1>1, <2>1, <2>2
<1>6. CASE Zoom
  <2>1. \E p \in Elements(windows) : Selected(win, selMon, p)
    BY <1>6, ZoomPromotes, Zenon DEF Known, Selected
  <2> QED
    BY <1>1, <2>1
<1>7. CASE FocusMon
  <2>1. PICK next \in Neighbours(selMon) :
           Selected(win, next, FocusedIn(focusStack, win, monitors, next))
    BY <1>7, Zenon DEF FocusMon, FocusWindow, Selected
  <2>2. FocusedIn(focusStack, win, monitors, next) \in Elements(windows) \cup {None}
    BY <1>1, FocusedListed
  <2>3. next \in Indices(monitors)
    BY NeighbourMonitors, KnownTypes DEF Indices
  <2> QED
    BY <2>1, <2>2, <2>3
<1>8. CASE TagMon
  <2>1. PICK next \in Neighbours(selMon) : Selected(win', next, FocusedWindow) \/ selMon' = selMon
    BY <1>8, Zenon DEF TagMon, FocusWindow, Selected
  <2>2. FocusedWindow \in Elements(windows) \cup {None}
    BY <1>1, FocusedListed DEF FocusedWindow
  <2>3. next \in Indices(monitors)
    BY NeighbourMonitors, KnownTypes DEF Indices
  <2> QED
    BY <2>1, <2>2, <2>3
<1>9. CASE ToggleScratch \/ FocusOrToggleScratch \/ FocusOrToggleMatchingScratch
  <2>1. PICK w \in Elements(windows) : \E hide : HideOrShow(w, hide)
    BY <1>9, ScratchTargets
  <2>2. CASE HideScratch(w)
    <3>1. SettleOn(Without(focusStack, w), windows, win', monitors, selMon)
      BY <2>2, Zenon DEF HideScratch
    <3>2. Sound(windows, Without(focusStack, w), space)
      BY <1>1, WithoutElements DEF Sound
    <3> QED
      BY <1>1, <3>1, <3>2, SettleSelected
  <2>3. CASE ShowScratch(w)
    <3>1. Selected(win', selMon, w)
      BY <2>3, Zenon DEF ShowScratch, FocusWindow, Selected
    <3> QED
      BY <1>1, <3>1
  <2> QED
    BY <2>1, <2>2, <2>3 DEF HideOrShow
<1> QED
  BY <1>2, <1>3, <1>4, <1>5, <1>6, <1>7, <1>8, <1>9 DEF BoundAction

LEMMA OtherSelected ==
    ASSUME Known, Homed,
           \/ PointerMotion \/ Click \/ IpcView \/ LockEvent
           \/ \E w \in Window : FullscreenRequest(w) \/ DialogHint(w) \/ CommitBuffer(w)
                                  \/ Activate(w) \/ ParentChanged(w) \/ NewToplevel(w)
    PROVE  \/ selMon' = selMon
           \/ selMon' \in DOMAIN monitors
           \/ \E w \in Elements(windows) \cup {None}, sel \in Indices(monitors) :
                 Selected(win, sel, w)
<1>1. /\ Sound(windows, focusStack, space) /\ selMon \in Indices(monitors)
      /\ space \subseteq Elements(windows) /\ DOMAIN monitors \subseteq Indices(monitors)
  BY KnownTypes DEF Known, ListInv, Homed, Sound, Indices
<1>2. CASE PointerMotion
  <2>1. PICK i \in DOMAIN monitors \cup {selMon}, w \in space \cup {None} :
           Selected(win, i, w) \/ selMon' = i
    BY <1>2, Zenon DEF PointerMotion, FocusWindow, Selected
  <2> QED
    BY <1>1, <2>1
<1>3. CASE Click
  <2>1. \E w \in space : Selected(win, selMon, w)
    BY <1>3, Zenon DEF Click, FocusWindow, Selected
  <2> QED
    BY <1>1, <2>1
<1>4. CASE IpcView
  <2>1. selMon' = selMon \/ \E ms : SettleOn(focusStack, windows, win, ms, selMon)
    BY <1>4, Zenon DEF IpcView
  <2> QED
    BY <1>1, <2>1, SettleSelected
<1>5. CASE LockEvent
  BY <1>5 DEF LockEvent, LockNative, LockExt, NewLockSurface, Unlock
<1>6. CASE \E w \in Window : FullscreenRequest(w) \/ DialogHint(w) \/ CommitBuffer(w)
                               \/ ParentChanged(w) \/ NewToplevel(w)
  BY <1>6, Zenon DEF FullscreenRequest, DialogHint, CommitBuffer, ParentChanged, NewToplevel
<1>7. CASE \E w \in Window : Activate(w)
  <2>1. PICK w \in Elements(windows) : Selected(win, win[w].mon, w)
    BY <1>7, Zenon DEF Activate, FocusWindow, Selected
  <2> QED
    BY <2>1 DEF Homed, HomedWindows
<1> QED
  BY <1>2, <1>3, <1>4, <1>5, <1>6, <1>7

\* Where a step leaves the selection and the windows, on the monitors there were before it.
HomedAfter == selMon' \in Indices(monitors) /\ HomedWindows(windows', win', monitors)

LEMMA OrdinaryHome ==
    ASSUME Homed, Ordinary
    PROVE  HomedWindows(windows', win', monitors)
BY DEF Ordinary, HomedWindows

LEMMA BoundHome ==
    ASSUME Known, Homed, BoundAction
    PROVE  HomedAfter
<1>1. Ordinary
  BY ViewsOrdinary, TagOrdinary, FocusedChangesOrdinary, FocusOrdinary, TagMonOrdinary,
     ScratchOrdinary DEF BoundAction
<1>2. /\ \A v \in Elements(windows) : win[v].mon \in Indices(monitors)
      /\ \A v \in Elements(windows) : win'[v].mon \in Indices(monitors)
      /\ selMon \in Indices(monitors)
  BY <1>1 DEF Ordinary, Homed, HomedWindows
<1>3. ASSUME NEW w \in Elements(windows) \cup {None}, NEW sel \in Indices(monitors),
             Selected(win, sel, w) \/ Selected(win', sel, w)
      PROVE  selMon' \in Indices(monitors)
  BY <1>2, <1>3, SelectsHome DEF Selected
<1>4. selMon' \in Indices(monitors)
  BY <1>2, <1>3, BoundSelected
<1> QED
  BY <1>1, <1>4, OrdinaryHome DEF HomedAfter

LEMMA OtherHome ==
    ASSUME Known, Homed,
           \/ PointerMotion \/ Click \/ IpcView \/ LockEvent
           \/ \E w \in Window : FullscreenRequest(w) \/ DialogHint(w) \/ CommitBuffer(w)
                                  \/ Activate(w) \/ ParentChanged(w) \/ NewToplevel(w)
    PROVE  HomedAfter
<1>1. /\ \A v \in Elements(windows) : win[v].mon \in Indices(monitors)
      /\ selMon \in Indices(monitors) /\ DOMAIN monitors \subseteq Indices(monitors)
  BY KnownTypes DEF Homed, HomedWindows, Indices
<1>2. ASSUME NEW w \in Elements(windows) \cup {None}, NEW sel \in Indices(monitors),
             Selected(win, sel, w)
      PROVE  selMon' \in Indices(monitors)
  BY <1>1, <1>2, SelectsHome DEF Selected
<1>3. selMon' \in Indices(monitors)
  BY <1>1, <1>2, OtherSelected
<1>4. HomedWindows(windows', win', monitors)
  <2>1. CASE PointerMotion \/ Click \/ IpcView \/ LockEvent
    BY <2>1, DevicesOrdinary, OrdinaryHome
  <2>2. CASE \E w \in Window : FullscreenRequest(w) \/ DialogHint(w) \/ CommitBuffer(w)
                                 \/ Activate(w)
    BY <2>2, RequestsOrdinary, DevicesOrdinary, OrdinaryHome
  <2>3. CASE \E w \in Window : ParentChanged(w)
    <3>1. PICK w \in Window : windows' = windows /\ win' = [win EXCEPT ![w].rulesApplied = FALSE]
      BY <2>3 DEF ParentChanged
    <3>2. \A v \in Elements(windows) : win'[v].mon = win[v].mon
      BY <3>1, KnownTypes DEF WinStates, WindowState
    <3> QED
      BY <1>1, <3>1, <3>2 DEF HomedWindows
  <2>4. CASE \E w \in Window : NewToplevel(w)
    <3> DEFINE new == [NewWindow EXCEPT !.tags = PlacementTags(monitors, selMon), !.mon = selMon]
    <3>1. PICK w \in Window : NewToplevel(w) /\ win' = [win EXCEPT ![w] = new]
      BY <2>4, Zenon DEF NewToplevel
    <3>2. new.mon = selMon
      BY DEF NewWindow
    <3> HIDE DEF new
    <3>3. \A v \in Elements(windows) \cup {w} : win'[v].mon \in Indices(monitors)
      BY <1>1, <3>1, <3>2, KnownTypes
    <3>4. Elements(windows') = Elements(windows) \cup {w}
      BY <3>1, NewWindowListed
    <3> QED
      BY <3>3, <3>4 DEF HomedWindows
  <2> QED
    BY <2>1, <2>2, <2>3, <2>4
<1> QED
  BY <1>3, <1>4 DEF HomedAfter

LEMMA CommitHome ==
    ASSUME Known, Homed, NEW w \in Window, CommitFirst(w)
    PROVE  HomedAfter
<1>1. PICK s, ms, sized : RuledFrom(w, s) /\ CommitRuled(w, s, ms, sized)
  BY FirstCommits
<1> DEFINE ruled == Swallow([win EXCEPT ![w] = s], w)
           target == FocusedIn(focusStack, ruled, ms, selMon)
<1>2. /\ windows' = windows /\ selMon' = SelectedAfter(focusStack, ruled, selMon, target)
      /\ win' = ruled \/ win' = Buffered(ruled, ms, w)
  BY <1>1 DEF CommitRuled, FocusWindow
<1>3. CommittedTo(w, s, ruled) /\ CommittedTo(w, s, win')
  BY <1>1, <1>2, CommittedStates DEF RuledFrom
<1>4. target \in Elements(windows) \cup {None}
  <2> HIDE DEF ruled
  <2> QED
    BY FocusedListed DEF Known, ListInv
<1> HIDE DEF ruled, target
<1>5. /\ \A v \in Elements(windows) : win[v].mon \in Indices(monitors)
      /\ selMon \in Indices(monitors) /\ s.mon \in Indices(monitors)
  BY <1>1 DEF Homed, HomedWindows, RuledFrom
<1>6. ASSUME NEW wn, CommittedTo(w, s, wn), NEW v \in Elements(windows)
      PROVE  wn[v].mon \in Indices(monitors)
  <2> DEFINE t == SwallowTarget(w)
  <2>1. \/ t = None
        \/ t \in Elements(windows) /\ t \in Window /\ t # w
    BY TargetListed
  <2>2. v \in Window /\ win \in [Window -> WinStates]
    BY KnownTypes
  <2>3. CASE v = w
    BY <1>5, <1>6, <2>1, <2>3 DEF CommittedTo
  <2>4. CASE v = t /\ v # w
    <3>1. wn[t] = [win[t] EXCEPT !.swallowed = TRUE] /\ win[t] \in WinStates
      BY <1>6, <2>1, <2>2, <2>4, WindowAssumption DEF CommittedTo
    <3>2. wn[t].mon = win[t].mon
      BY <3>1 DEF WinStates, WindowState
    <3> QED
      BY <1>5, <2>4, <3>2
  <2>5. CASE v # t /\ v # w
    BY <1>5, <1>6, <2>2, <2>5 DEF CommittedTo
  <2> QED
    BY <2>3, <2>4, <2>5
<1>7. selMon' \in Indices(monitors)
  BY <1>2, <1>3, <1>4, <1>5, <1>6, SelectsHome
<1>8. HomedWindows(windows', win', monitors)
  BY <1>2, <1>3, <1>6 DEF HomedWindows
<1> QED
  BY <1>7, <1>8 DEF HomedAfter

LEMMA DestroyHome ==
    ASSUME Known, Homed, NEW w \in Window, Destroy(w)
    PROVE  HomedAfter
<1>1. PICK top : DestroyedLists(w, top)
  BY DestroyShape
<1>2. /\ Elements(windows') = Elements(windows) \ {w} /\ win' = Unswallowed(w, windows')
      /\ selMon' \in Indices(monitors)
  BY <1>1 DEF DestroyedLists
<1>3. w \in Elements(windows) /\ \A v \in Elements(windows) : win[v].mon \in Indices(monitors)
  BY DEF Destroy, Homed, HomedWindows
<1>4. ASSUME NEW v \in Elements(windows')
      PROVE  win'[v].mon \in Indices(monitors)
  <2>1. v \in Window /\ v # w /\ win[v].mon \in Indices(monitors)
    BY <1>2, <1>3, KnownTypes
  <2>2. CASE v = win[w].swallowing
    <3>1. win'[v].mon = win[w].mon
      BY <1>2, <2>1, <2>2, DestroyedStates
    <3> QED
      BY <1>3, <3>1
  <2>3. CASE v # win[w].swallowing
    <3>1. win'[v].mon = win[v].mon
      BY <1>2, <2>1, <2>3, DestroyedStates
    <3> QED
      BY <2>1, <3>1
  <2> QED
    BY <2>2, <2>3
<1> QED
  BY <1>2, <1>4 DEF HomedAfter, HomedWindows

LEMMA IndicesElsewhere ==
    ASSUME Known, TagInv', IndexInv, [Next]_vars, ~Hotplugged
    PROVE  IndexInv'
<1>1. Indices(monitors') = Indices(monitors) /\ DistinctOutputs(monitors')
  BY OutputsElsewhere, SameIndices DEF Known, TagInv, IndexInv
<1>2. HomedAfter
  <2>1. CASE UNCHANGED vars
    BY <2>1 DEF vars, IndexInv, Homed, HomedAfter
  <2> QED
    BY <2>1, BoundHome, OtherHome, CommitHome, DestroyHome
       DEF Next, ClientEvent, DeviceEvent, Hotplugged, IndexInv
<1> QED
  BY <1>1, <1>2 DEF IndexInv, Homed, HomedAfter, HomedWindows, DistinctOutputs

\* Where an index goes when the position p of a list is removed.
Shift(j, p) == IF j > p THEN j - 1 ELSE j

LEMMA ShiftedDrop ==
    ASSUME NEW S, NEW s \in Seq(S), NEW p \in 1 .. Len(s), NEW j \in 1 .. Len(s), j # p
    PROVE  Shift(j, p) \in 1 .. (Len(s) - 1) /\ Dropped(s, p)[Shift(j, p)] = s[j]
<1>1. \A i \in 1 .. (Len(s) - 1) : Dropped(s, p)[i] = IF i < p THEN s[i] ELSE s[i + 1]
  BY DroppedElements
<1> QED
  BY <1>1 DEF Shift

LEMMA ShiftInRange ==
    ASSUME NEW n \in Nat, NEW p \in 1 .. n, NEW j \in 1 .. n, n > 1 => j # p
    PROVE  Shift(j, p) \in (IF n = 1 THEN {1} ELSE 1 .. (n - 1))
BY DEF Shift

\* What output_removed does to the windows and the indices.
Migrates(i, target) ==
    /\ \A v \in Window : LinksOf(win'[v]) = LinksOf(win[v])
    /\ \A v \in Elements(windows) :
          /\ win'[v].mon = Shift(IF win[v].mon = i THEN target ELSE win[v].mon, i)
          /\ win'[v].tags = IF win[v].mon = i /\ win[v].tags # {}
                            THEN PlacementTags(monitors, target) ELSE win[v].tags

LEMMA RemovedShifts ==
    ASSUME Known, NEW i \in DOMAIN monitors, OutputRemoved(i)
    PROVE  /\ monitors' = Dropped(monitors, i) /\ tagHistory' = Dropped(tagHistory, i)
           /\ \E target : /\ target = 1 \/ target \in DOMAIN monitors \ {i} \/ target = selMon
                          /\ Len(monitors) > 1 => target # i
                          /\ Len(monitors) <= 1 => target = 1
                          /\ Migrates(i, target)
           /\ selMon' = SelectedAfterRemoval(i)
           /\ UNCHANGED <<windows, focusStack>>
<1> DEFINE last == Len(monitors)
           target == IF last <= 1 THEN 1
                     ELSE IF selMon # i THEN selMon
                     ELSE IF i = 1 THEN 2 ELSE 1
<1>1. /\ monitors' = Dropped(monitors, i) /\ tagHistory' = Dropped(tagHistory, i)
      /\ selMon' = SelectedAfterRemoval(i) /\ win' = Migrated(i, target)
      /\ UNCHANGED <<windows, focusStack>>
  BY Zenon DEF OutputRemoved
<1>2. /\ target = 1 \/ target \in DOMAIN monitors \ {i} \/ target = selMon
      /\ Len(monitors) > 1 => target # i
      /\ Len(monitors) <= 1 => target = 1
  BY KnownTypes
<1> HIDE DEF target
<1>3. ASSUME NEW v \in Elements(windows)
      PROVE  /\ LinksOf(win'[v]) = LinksOf(win[v])
             /\ win'[v].mon = Shift(IF win[v].mon = i THEN target ELSE win[v].mon, i)
             /\ win'[v].tags = IF win[v].mon = i /\ win[v].tags # {}
                               THEN PlacementTags(monitors, target) ELSE win[v].tags
  <2> DEFINE home == IF win[v].mon = i THEN target ELSE win[v].mon
             tags == IF win[v].mon = i /\ win[v].tags # {}
                     THEN PlacementTags(monitors, target) ELSE win[v].tags
             mon == IF home > i THEN home - 1 ELSE home
  <2>1. v \in Window /\ win[v] \in WinStates
    BY KnownTypes
  <2>2. win'[v] = [win[v] EXCEPT !.tags = tags, !.mon = mon]
    BY <1>1, <2>1 DEF Migrated
  <2>3. mon = Shift(home, i)
    BY DEF Shift
  <2> HIDE DEF tags, mon
  <2>4. win'[v].tags = tags /\ win'[v].mon = mon /\ LinksOf(win'[v]) = LinksOf(win[v])
    BY <2>1, <2>2 DEF WinStates, WindowState, LinksOf
  <2> QED
    BY <2>3, <2>4 DEF tags
<1>4. \A v \in Window \ Elements(windows) : win'[v] = win[v]
  BY <1>1 DEF Migrated
<1>5. Migrates(i, target)
  BY <1>3, <1>4 DEF Migrates
<1> QED
  BY <1>1, <1>2, <1>5, Zenon

LEMMA RemovedIndices ==
    ASSUME Known, IndexInv, NEW i \in DOMAIN monitors, OutputRemoved(i)
    PROVE  IndexInv'
<1>1. /\ monitors \in Seq(ShowingMonitors) /\ i \in 1 .. Len(monitors) /\ Len(monitors) \in Nat
      /\ Len(monitors) >= 1
  BY KnownTypes, LenProperties
<1>2. /\ monitors' = Dropped(monitors, i) /\ Len(monitors') = Len(monitors) - 1
      /\ monitors' \in Seq(ShowingMonitors)
      /\ \A j \in 1 .. (Len(monitors) - 1) :
            monitors'[j] = IF j < i THEN monitors[j] ELSE monitors[j + 1]
  <2>1. /\ Dropped(monitors, i) \in Seq(ShowingMonitors)
        /\ Len(Dropped(monitors, i)) = Len(monitors) - 1
        /\ \A j \in 1 .. (Len(monitors) - 1) :
              Dropped(monitors, i)[j] = IF j < i THEN monitors[j] ELSE monitors[j + 1]
    BY <1>1, DroppedElements
  <2>2. monitors' = Dropped(monitors, i)
    BY RemovedShifts
  <2> QED
    BY <2>1, <2>2
<1>3. /\ Indices(monitors) = 1 .. Len(monitors)
      /\ Indices(monitors') = IF Len(monitors) = 1 THEN {1} ELSE 1 .. (Len(monitors) - 1)
  BY <1>1, <1>2 DEF Indices
<1>4. selMon \in 1 .. Len(monitors) /\ \A v \in Elements(windows) : win[v].mon \in 1 .. Len(monitors)
  BY <1>3 DEF IndexInv, Homed, HomedWindows
<1>5. selMon' \in Indices(monitors')
  <2>1. selMon' = SelectedAfterRemoval(i)
    BY RemovedShifts
  <2> DEFINE n == Len(monitors)
  <2>2. n \in Nat /\ n >= 1 /\ i \in 1 .. n /\ selMon \in 1 .. n
    BY <1>1, <1>4
  <2>3. SelectedAfterRemoval(i) =
           IF n - 1 = 0 THEN 1
           ELSE IF selMon > i THEN selMon - 1
           ELSE IF selMon > n - 1 THEN n - 1 ELSE selMon
    BY DEF SelectedAfterRemoval
  <2>4. Indices(monitors') = IF n = 1 THEN {1} ELSE 1 .. (n - 1)
    BY <1>3
  <2> HIDE DEF n
  <2>5. SelectedAfterRemoval(i) \in (IF n = 1 THEN {1} ELSE 1 .. (n - 1))
    BY <2>2, <2>3
  <2> QED
    BY <2>1, <2>4, <2>5
<1>6. HomedWindows(windows', win', monitors')
  <2>1. PICK target :
           /\ target = 1 \/ target \in DOMAIN monitors \ {i} \/ target = selMon
           /\ Len(monitors) > 1 => target # i
           /\ Len(monitors) <= 1 => target = 1
           /\ \A v \in Elements(windows) :
                 win'[v].mon = Shift(IF win[v].mon = i THEN target ELSE win[v].mon, i)
    BY RemovedShifts DEF Migrates
  <2>2. target \in 1 .. Len(monitors)
    BY <1>1, <1>4, <2>1
  <2> SUFFICES ASSUME NEW v \in Elements(windows') PROVE win'[v].mon \in Indices(monitors')
    BY DEF HomedWindows
  <2>3. v \in Elements(windows)
    BY DEF OutputRemoved
  <2> DEFINE home == IF win[v].mon = i THEN target ELSE win[v].mon
  <2>4. home \in 1 .. Len(monitors) /\ (Len(monitors) > 1 => home # i) /\ win'[v].mon = Shift(home, i)
    BY <1>4, <2>1, <2>2, <2>3
  <2> HIDE DEF home
  <2>5. Shift(home, i) \in (IF Len(monitors) = 1 THEN {1} ELSE 1 .. (Len(monitors) - 1))
    BY <1>1, <2>4, ShiftInRange
  <2> QED
    BY <1>3, <2>4, <2>5
<1>7. DistinctOutputs(monitors')
  <2> SUFFICES ASSUME NEW j \in 1 .. (Len(monitors) - 1), NEW k \in 1 .. (Len(monitors) - 1),
                      monitors'[j].output = monitors'[k].output
               PROVE  j = k
    BY <1>1, <1>2 DEF DistinctOutputs
  <2> DEFINE at(n) == IF n < i THEN n ELSE n + 1
  <2>1. at(j) \in DOMAIN monitors /\ at(k) \in DOMAIN monitors
    BY <1>1
  <2>2. monitors[at(j)].output = monitors[at(k)].output
    BY <1>2
  <2>3. at(j) = at(k)
    <3> HIDE DEF at
    <3> QED
      BY <2>1, <2>2 DEF IndexInv, DistinctOutputs
  <2> QED
    BY <1>1, <2>3
<1> QED
  BY <1>5, <1>6, <1>7 DEF IndexInv, Homed, HomedWindows, DistinctOutputs

LEMMA AddedMonitors ==
    ASSUME Known, NEW o \in Output, OutputAdded(o)
    PROVE  /\ monitors' = Append(monitors, NewMonitor(o)) /\ Len(monitors') = Len(monitors) + 1
           /\ DOMAIN monitors' = DOMAIN monitors \cup {Len(monitors) + 1}
           /\ DOMAIN monitors = 1 .. Len(monitors)
           /\ \A j \in DOMAIN monitors :
                 monitors'[j] = monitors[j] /\ tagHistory'[j] = tagHistory[j]
           /\ monitors'[Len(monitors) + 1].output = o
           /\ \A j \in DOMAIN monitors : monitors[j].output # o
           /\ UNCHANGED <<windows, win, selMon>>
<1>1. /\ monitors' = Append(monitors, NewMonitor(o)) /\ tagHistory' = Append(tagHistory, <<>>)
      /\ \A j \in DOMAIN monitors : monitors[j].output # o
      /\ UNCHANGED <<windows, win, selMon>>
  BY DEF OutputAdded
<1>2. monitors \in Seq(ShowingMonitors) /\ tagHistory \in Seq(Histories)
      /\ Len(tagHistory) = Len(monitors) /\ Len(monitors) \in Nat
  BY LenProperties DEF Known, TagInv
<1> QED
  BY <1>1, <1>2 DEF NewMonitor

LEMMA AddedIndices ==
    ASSUME Known, IndexInv, NEW o \in Output, OutputAdded(o)
    PROVE  IndexInv'
<1>1. /\ DOMAIN monitors' = DOMAIN monitors \cup {Len(monitors) + 1}
      /\ DOMAIN monitors = 1 .. Len(monitors) /\ Len(monitors) \in Nat
      /\ \A j \in DOMAIN monitors : monitors'[j] = monitors[j]
      /\ monitors'[Len(monitors) + 1].output = o
      /\ \A j \in DOMAIN monitors : monitors[j].output # o
      /\ UNCHANGED <<windows, win, selMon>>
  BY AddedMonitors, KnownTypes, LenProperties
<1>2. Indices(monitors) \subseteq Indices(monitors')
  <2>1. monitors' # <<>>
    BY AddedMonitors, KnownTypes
  <2>2. monitors = <<>> => Len(monitors) = 0
    OBVIOUS
  <2> QED
    BY <1>1, <2>1, <2>2 DEF Indices
<1>3. DistinctOutputs(monitors')
  BY <1>1 DEF DistinctOutputs, IndexInv
<1> QED
  BY <1>1, <1>2, <1>3 DEF IndexInv, Homed, HomedWindows, DistinctOutputs

LEMMA IndexStep ==
    ASSUME Known, TagInv', IndexInv, [Next]_vars
    PROVE  IndexInv'
BY AddedIndices, RemovedIndices, IndicesElsewhere DEF Hotplugged

LEMMA InitIndices == Init => IndexInv
<1> SUFFICES ASSUME Init PROVE IndexInv
  OBVIOUS
<1>1. Elements(windows) = {} /\ monitors = <<>> /\ selMon = 1
  BY DEF Init, Elements
<1> QED
  BY <1>1 DEF IndexInv, Homed, HomedWindows, DistinctOutputs, Indices

LEMMA IndicesInvariant == Spec => []IndexInv
<1>1. Init => IndexInv
  BY InitIndices
<1>2. IndexInv /\ IInv /\ IInv' /\ [Next]_vars => IndexInv'
  BY IndexStep DEF IInv, Known
<1> QED
  BY <1>1, <1>2, Invariance, PTL DEF Spec

\* Whatever is opened, closed, tagged, moved, plugged and unplugged, sel_mon and every
\* mon_idx name a monitor, or the placeholder 0 while there is none, each output has one
\* monitor, and tag_history has one deque for each (output_added, output_removed,
\* target_monitor_for_window, focus_window).
THEOREM IndicesStayValid == Spec => []MonitorIndices
<1>1. IInv /\ IndexInv => MonitorIndices
  BY DEF IInv, Known, TagInv, IndexInv, Homed, HomedWindows, DistinctOutputs, Indices,
         MonitorIndices
<1> QED
  BY <1>1, IndicesInvariant, Invariance, PTL

LEMMA AddedKeeps ==
    ASSUME Known, IndexInv, NEW o \in Output, OutputAdded(o)
    PROVE  OutputsKept
<1>1. /\ DOMAIN monitors' = DOMAIN monitors \cup {Len(monitors) + 1}
      /\ \A j \in DOMAIN monitors :
            monitors'[j] = monitors[j] /\ tagHistory'[j] = tagHistory[j]
      /\ monitors'[Len(monitors) + 1].output = o
      /\ \A j \in DOMAIN monitors : monitors[j].output # o
      /\ UNCHANGED <<windows, win, selMon>>
  BY AddedMonitors
<1>2. \A w \in Elements(windows) : win[w].mon \in DOMAIN monitors =>
         /\ monitors'[win'[w].mon].output = monitors[win[w].mon].output
         /\ win'[w].tags = win[w].tags
  BY <1>1
<1>3. selMon \in DOMAIN monitors => monitors'[selMon'].output = monitors[selMon].output
  BY <1>1
<1>4. \A i \in DOMAIN monitors, j \in DOMAIN monitors' :
         monitors[i].output = monitors'[j].output
             => tagHistory'[j] = tagHistory[i] /\ monitors'[j] = monitors[i]
  BY <1>1 DEF IndexInv, DistinctOutputs
<1> QED
  BY <1>2, <1>3, <1>4 DEF OutputsKept

LEMMA RemovedKeeps ==
    ASSUME Known, IndexInv, IndexInv', NEW i \in DOMAIN monitors, OutputRemoved(i)
    PROVE  OutputsKept
<1> DEFINE rest == DOMAIN monitors \ {i}
<1>1. /\ monitors \in Seq(ShowingMonitors) /\ tagHistory \in Seq(Histories)
      /\ Len(tagHistory) = Len(monitors) /\ i \in 1 .. Len(monitors) /\ Len(monitors) \in Nat
  BY LenProperties DEF Known, TagInv
<1>2. /\ monitors' = Dropped(monitors, i) /\ tagHistory' = Dropped(tagHistory, i)
      /\ \A v \in Elements(windows) : win[v].mon # i =>
            win'[v].tags = win[v].tags /\ win'[v].mon = Shift(win[v].mon, i)
      /\ selMon' = SelectedAfterRemoval(i)
  BY RemovedShifts DEF Migrates
<1>3. \A j \in rest : /\ Shift(j, i) \in DOMAIN monitors'
                      /\ monitors'[Shift(j, i)] = monitors[j]
                      /\ tagHistory'[Shift(j, i)] = tagHistory[j]
  <2> SUFFICES ASSUME NEW j \in rest
               PROVE  /\ Shift(j, i) \in DOMAIN monitors'
                      /\ monitors'[Shift(j, i)] = monitors[j]
                      /\ tagHistory'[Shift(j, i)] = tagHistory[j]
    OBVIOUS
  <2>1. j \in 1 .. Len(monitors) /\ j \in 1 .. Len(tagHistory) /\ i \in 1 .. Len(tagHistory) /\ j # i
    BY <1>1
  <2>2. Shift(j, i) \in 1 .. (Len(monitors) - 1) /\ Dropped(monitors, i)[Shift(j, i)] = monitors[j]
    BY <1>1, <2>1, ShiftedDrop
  <2>3. Dropped(tagHistory, i)[Shift(j, i)] = tagHistory[j]
    BY <1>1, <2>1, ShiftedDrop
  <2>4. DOMAIN monitors' = 1 .. (Len(monitors) - 1)
    BY <1>2 DEF Dropped
  <2> QED
    BY <1>2, <2>2, <2>3, <2>4
<1>4. selMon \in rest => selMon' = Shift(selMon, i)
  <2> DEFINE n == Len(monitors)
  <2>1. SelectedAfterRemoval(i) =
           IF n - 1 = 0 THEN 1
           ELSE IF selMon > i THEN selMon - 1
           ELSE IF selMon > n - 1 THEN n - 1 ELSE selMon
    BY DEF SelectedAfterRemoval
  <2>2. n \in Nat /\ i \in 1 .. n /\ (selMon \in rest => selMon \in 1 .. n /\ selMon # i)
    BY <1>1
  <2> HIDE DEF n, rest
  <2> QED
    BY <1>2, <2>1, <2>2 DEF Shift
<1>5. \A j \in rest, k \in DOMAIN monitors' :
         monitors[j].output = monitors'[k].output => k = Shift(j, i)
  BY <1>3 DEF IndexInv, DistinctOutputs
<1>6. \A j \in DOMAIN monitors :
         monitors[j].output \in {monitors'[k].output : k \in DOMAIN monitors'} => j \in rest
  <2> SUFFICES ASSUME NEW k \in DOMAIN monitors', monitors[i].output = monitors'[k].output
               PROVE  FALSE
    OBVIOUS
  <2>1. DOMAIN monitors' = 1 .. (Len(monitors) - 1)
    BY <1>2 DEF Dropped
  <2>2. PICK j \in rest : monitors'[k] = monitors[j]
    <3>1. CASE k < i
      <4>1. k \in rest
        BY <1>1, <2>1, <3>1
      <4>2. Shift(k, i) = k
        BY <1>1, <2>1, <3>1 DEF Shift
      <4> QED
        BY <1>3, <4>1, <4>2
    <3>2. CASE ~(k < i)
      <4>1. k + 1 \in rest
        BY <1>1, <2>1, <3>2
      <4>2. Shift(k + 1, i) = k
        BY <1>1, <2>1, <3>2 DEF Shift
      <4> QED
        BY <1>3, <4>1, <4>2
    <3> QED
      BY <3>1, <3>2
  <2> QED
    BY <2>2 DEF IndexInv, DistinctOutputs
<1> HIDE DEF rest
<1>7. ASSUME NEW w \in Elements(windows), win[w].mon \in rest
      PROVE  /\ monitors'[win'[w].mon].output = monitors[win[w].mon].output
             /\ win'[w].tags = win[w].tags
  BY <1>2, <1>3, <1>7 DEF rest
<1>8. selMon \in rest => monitors'[selMon'].output = monitors[selMon].output
  BY <1>3, <1>4
<1>9. \A j \in rest, k \in DOMAIN monitors' :
         monitors[j].output = monitors'[k].output
             => tagHistory'[k] = tagHistory[j] /\ monitors'[k] = monitors[j]
  BY <1>3, <1>5
<1> QED
  BY <1>6, <1>7, <1>8, <1>9 DEF OutputsKept

\* output_added and output_removed move nothing but the windows of the output that goes:
\* every other window, the history and the view of every other monitor and the selection
\* stay with the output they were on, under indices that shift.
THEOREM HotplugKeepsTheRest == Spec => HotplugKeepsOutputs
<1>1. IInv /\ IndexInv /\ IndexInv' /\ [Next]_vars
        => [Len(monitors') # Len(monitors) => OutputsKept]_vars
  <2> SUFFICES ASSUME IInv, IndexInv, IndexInv', [Next]_vars, Len(monitors') # Len(monitors)
               PROVE  OutputsKept
    OBVIOUS
  <2>1. CASE Hotplugged
    BY <2>1, AddedKeeps, RemovedKeeps DEF Hotplugged, IInv
  <2>2. CASE ~Hotplugged
    <3>1. DOMAIN monitors' = DOMAIN monitors
      BY <2>2, OutputsElsewhere DEF IInv, SameOutputs
    <3> QED
      BY <3>1 DEF Known
  <2> QED
    BY <2>1, <2>2
<1> QED
  BY <1>1, IndicesInvariant, Invariance, PTL DEF Spec, HotplugKeepsOutputs

-----------------------------------------------------------------------------
(***************************************************************************)
(* The space holds what the monitors show.  arrange_all() establishes it   *)
(* whatever the space held before; the handlers that do not end in it      *)
(* change nothing it depends on, except for a new window, a buffer that is *)
(* centred, and a late parent.                                             *)
(***************************************************************************)

Seen(wn, ms, v) == wn[v].tags \cap AllVisible(ms) # {}

SpaceShows(mapped, ws, wn, ms) ==
    ms # <<>> =>
        \A v \in Elements(ws) :
            /\ v \in mapped => Seen(wn, ms, v)
            /\ wn[v].rulesApplied /\ ~wn[v].swallowed /\ Seen(wn, ms, v) => v \in mapped

SpaceInv == SpaceShows(space, windows, win, monitors)

\* arrange(i) on some monitors keeps a space that is right ...
LEMMA ArrangedShows ==
    ASSUME NEW mapped, NEW ws, Elements(ws) \subseteq Window, NEW wn, NEW ms,
           SpaceShows(mapped, ws, wn, ms), NEW I \in SUBSET DOMAIN ms
    PROVE  SpaceShows(Arranged(mapped, ws, wn, ms, I), ws, wn, ms)
<1> SUFFICES ASSUME ms # <<>>, NEW v \in Elements(ws)
             PROVE  LET after == Arranged(mapped, ws, wn, ms, I)
                    IN  /\ v \in after => Seen(wn, ms, v)
                        /\ wn[v].rulesApplied /\ ~wn[v].swallowed /\ Seen(wn, ms, v) => v \in after
  BY DEF SpaceShows
<1>1. /\ v \in mapped => Seen(wn, ms, v)
      /\ wn[v].rulesApplied /\ ~wn[v].swallowed /\ Seen(wn, ms, v) => v \in mapped
  BY DEF SpaceShows
<1>2. v \in HiddenFrom(wn, ms) <=> wn[v].swallowed \/ ~Seen(wn, ms, v)
  BY DEF HiddenFrom, Seen
<1>3. \A i \in I : v \in ShownOn(wn, ms[i]) => Seen(wn, ms, v)
  BY DEF ShownOn, Seen, AllVisible
<1> QED
  BY <1>1, <1>2, <1>3 DEF Arranged

\* ... and arrange_all() makes it right.
LEMMA ArrangedAllShows ==
    ASSUME NEW mapped, NEW ws, Elements(ws) \subseteq Window, NEW wn, NEW ms \in Seq(ShowingMonitors)
    PROVE  SpaceShows(ArrangedAll(mapped, ws, wn, ms), ws, wn, ms)
<1> SUFFICES ASSUME ms # <<>>, NEW v \in Elements(ws)
             PROVE  LET after == ArrangedAll(mapped, ws, wn, ms)
                    IN  /\ v \in after => Seen(wn, ms, v)
                        /\ wn[v].rulesApplied /\ ~wn[v].swallowed /\ Seen(wn, ms, v) => v \in after
  BY DEF SpaceShows
<1>1. v \in HiddenFrom(wn, ms) <=> wn[v].swallowed \/ ~Seen(wn, ms, v)
  BY DEF HiddenFrom, Seen
<1>2. \A i \in DOMAIN ms : v \in ShownOn(wn, ms[i]) => Seen(wn, ms, v)
  BY DEF ShownOn, Seen, AllVisible
<1>3. wn[v].rulesApplied /\ ~wn[v].swallowed /\ Seen(wn, ms, v)
         => \E i \in DOMAIN ms : v \in ShownOn(wn, ms[i])
  BY DEF ShownOn, Seen, AllVisible
<1>4. DOMAIN ms # {}
  <2>1. Len(ms) \in Nat /\ Len(ms) # 0 /\ DOMAIN ms = 1 .. Len(ms)
    BY EmptySeq, LenProperties
  <2>2. 1 \in DOMAIN ms
    BY <2>1
  <2> QED
    BY <2>2
<1> QED
  BY <1>1, <1>2, <1>3, <1>4 DEF ArrangedAll, Arranged

\* Steps that end in arrange_all().
Rearranged == \E mapped : space' = ArrangedAll(mapped, windows', win', monitors')

\* Steps that change no window, list or monitor, and arrange at most what focus_window does.
Refocused ==
    /\ UNCHANGED <<windows, win, monitors>>
    /\ \/ space' = space
       \/ \E w : space' = FocusArranged(space, focusStack, win, w)

LEMMA BoundArranges ==
    ASSUME Known, BoundAction
    PROVE  Rearranged \/ Refocused
<1>1. CASE View \/ ViewPrev \/ ViewNextOccTag \/ ToggleView
  <2>1. space' = ArrangedAll(space, windows, win, monitors') /\ UNCHANGED <<windows, win>>
    BY <1>1, Zenon DEF View, ViewPrev, ViewNextOccTag, ToggleView, SwitchView, SettleOn
  <2> QED
    BY <2>1 DEF Rearranged
<1>2. CASE Tag
  <2>1. space' = ArrangedAll(space, windows, win', monitors') /\ UNCHANGED windows
    BY <1>2, Zenon DEF Tag, SettleOn
  <2> QED
    BY <2>1 DEF Rearranged
<1>3. CASE ToggleTag \/ ToggleFloating \/ ToggleFullscreen \/ TagMon
  <2>1. space' = ArrangedAll(space, windows, win', monitors) /\ UNCHANGED <<windows, monitors>>
    BY <1>3, Zenon DEF ToggleTag, ToggleFloating, ToggleFullscreen, ChangeFocused, TagMon
  <2> QED
    BY <2>1 DEF Rearranged
<1>4. CASE FocusStack
  BY <1>4, Zenon DEF FocusStack, Refocused
<1>5. CASE Zoom
  <2>1. space' = ArrangedAll(space, windows', win, monitors)
    BY <1>5, ZoomPromotes DEF Known
  <2>2. UNCHANGED <<win, monitors>>
    BY <1>5 DEF Zoom
  <2> QED
    BY <2>1, <2>2 DEF Rearranged
<1>6. CASE FocusMon
  <2>1. space' = ArrangedAll(space, windows, win, monitors) /\ UNCHANGED <<windows, win, monitors>>
    BY <1>6, Zenon DEF FocusMon
  <2> QED
    BY <2>1 DEF Rearranged
<1>7. CASE ToggleScratch \/ FocusOrToggleScratch \/ FocusOrToggleMatchingScratch
  <2>1. \E w, hide : HideOrShow(w, hide)
    BY <1>7, ScratchTargets
  <2>2. \E w : HideScratch(w) \/ ShowScratch(w)
    BY <2>1 DEF HideOrShow
  <2>3. space' = ArrangedAll(space, windows, win', monitors) /\ UNCHANGED <<windows, monitors>>
    BY <2>2, Zenon DEF HideScratch, ShowScratch, SettleOn
  <2> QED
    BY <2>3 DEF Rearranged
<1> QED
  BY <1>1, <1>2, <1>3, <1>4, <1>5, <1>6, <1>7 DEF BoundAction

LEMMA OthersArrange ==
    ASSUME Known,
           \/ DeviceEvent \/ LockEvent
           \/ \E w \in Window : FullscreenRequest(w) \/ DialogHint(w) \/ Activate(w) \/ Destroy(w)
    PROVE  Rearranged \/ Refocused
<1>1. CASE PointerMotion \/ Click
  BY <1>1, Zenon DEF PointerMotion, Click, Refocused
<1>2. CASE LockEvent
  BY <1>2 DEF LockEvent, LockNative, LockExt, NewLockSurface, Unlock, Refocused
<1>3. CASE IpcView
  <2>1. space' = ArrangedAll(space, windows, win, monitors') /\ UNCHANGED <<windows, win>>
    BY <1>3, Zenon DEF IpcView, SettleOn
  <2> QED
    BY <2>1 DEF Rearranged
<1>4. CASE (\E o \in Output : OutputAdded(o)) \/ \E i \in DOMAIN monitors : OutputRemoved(i)
  <2>1. space' = ArrangedAll(space, windows, win', monitors') /\ UNCHANGED windows
    BY <1>4, Zenon DEF OutputAdded, OutputRemoved
  <2> QED
    BY <2>1 DEF Rearranged
<1>5. CASE \E w \in Window : FullscreenRequest(w) \/ DialogHint(w)
  <2>1. space' = ArrangedAll(space, windows, win', monitors) /\ UNCHANGED <<windows, monitors>>
    BY <1>5, Zenon DEF FullscreenRequest, DialogHint
  <2> QED
    BY <2>1 DEF Rearranged
<1>6. CASE \E w \in Window : Activate(w)
  <2>1. space' = ArrangedAll(space, windows, win, monitors') /\ UNCHANGED <<windows, win>>
    BY <1>6, Zenon DEF Activate
  <2> QED
    BY <2>1 DEF Rearranged
<1>7. CASE \E w \in Window : Destroy(w)
  BY <1>7, DestroyShape DEF DestroyedLists, Rearranged
<1> QED
  BY <1>1, <1>2, <1>3, <1>4, <1>5, <1>6, <1>7 DEF DeviceEvent

\* A new window carries the tags of the selected monitor, which are seen.
LEMMA NewWindowShows ==
    ASSUME Known, IndexInv, SpaceInv, NEW w \in Window, NewToplevel(w)
    PROVE  SpaceInv'
<1> SUFFICES ASSUME monitors # <<>> PROVE SpaceInv'
  BY DEF SpaceInv, SpaceShows, NewToplevel
<1> DEFINE new == [NewWindow EXCEPT !.tags = PlacementTags(monitors, selMon), !.mon = selMon]
           old == Top(focusStack, None)
           touched == {selMon} \cup (IF old = None THEN {} ELSE {win[old].mon})
<1>1. /\ w \notin Elements(windows)
      /\ windows' = <<w>> \o windows /\ win' = [win EXCEPT ![w] = new] /\ monitors' = monitors
      /\ space' = Arranged(space \cup {w}, windows', win', monitors, touched \cap DOMAIN monitors)
  BY Zenon DEF NewToplevel
<1> HIDE DEF touched
<1>2. Elements(windows') = Elements(windows) \cup {w}
  BY NewWindowListed
<1>3. selMon \in DOMAIN monitors /\ TagsOf(monitors[selMon]) # {}
  BY MonitorShows DEF IndexInv, Homed, Indices, Known, Views
<1>4. new.tags = TagsOf(monitors[selMon])
  BY <1>3 DEF PlacementTags, NewWindow
<1>5. Seen(win', monitors, w)
  <2>1. win'[w] = new
    BY <1>1, KnownTypes
  <2> QED
    BY <1>3, <1>4, <2>1 DEF Seen, AllVisible
<1> HIDE DEF new
<1>6. \A v \in Elements(windows) : v \in Window /\ v # w /\ win'[v] = win[v]
  BY <1>1, KnownTypes
<1>7. SpaceShows(space \cup {w}, windows', win', monitors)
  BY <1>2, <1>5, <1>6 DEF SpaceInv, SpaceShows, Seen
<1>8. SpaceShows(Arranged(space \cup {w}, windows', win', monitors, touched \cap DOMAIN monitors),
                 windows', win', monitors)
  <2>1. Elements(windows') \subseteq Window
    BY <1>2, KnownTypes
  <2> QED
    BY <1>7, <2>1, ArrangedShows
<1> QED
  BY <1>1, <1>8 DEF SpaceInv, SpaceShows

\* A window that waits to be centred is mapped early, where it is seen.
LEMMA CentringShows ==
    ASSUME NEW mapped, NEW ws, Elements(ws) \subseteq Window, NEW wn \in [Window -> WinStates],
           NEW ms, NEW w \in Window, NEW wn2 \in [Window -> WinStates],
           \A v \in Window : wn2[v].tags = wn[v].tags,
           SpaceShows(mapped, ws, wn2, ms)
    PROVE  SpaceShows(mapped \cup CentredSpace(wn, ms, w), ws, wn2, ms)
<1>1. \A v \in CentredSpace(wn, ms, w) : v \in Window /\ Seen(wn2, ms, v)
  BY DEF CentredSpace, Seen
<1> HIDE DEF CentredSpace
<1> QED
  BY <1>1 DEF SpaceShows

LEMMA BufferedKeeps ==
    ASSUME NEW wn \in [Window -> WinStates], NEW ms, NEW w \in Window
    PROVE  \A v \in Window :
              /\ Buffered(wn, ms, w)[v].tags = wn[v].tags
              /\ Buffered(wn, ms, w)[v].mon = wn[v].mon
              /\ Buffered(wn, ms, w)[v].swallowed = wn[v].swallowed
              /\ Buffered(wn, ms, w)[v].rulesApplied = wn[v].rulesApplied
BY DEF Buffered, WinStates, WindowState

LEMMA BufferShows ==
    ASSUME Known, TagInv', SpaceInv, NEW w \in Window, CommitBuffer(w)
    PROVE  SpaceInv'
<1> DEFINE base == IF FloatsAtMap(win, w) THEN ArrangedAll(space, windows, win', monitors)
                   ELSE space
<1>1. /\ win' = Buffered(win, monitors, w) /\ space' = base \cup CentredSpace(win, monitors, w)
      /\ UNCHANGED <<windows, monitors>>
  BY DEF CommitBuffer
<1>2. /\ win \in [Window -> WinStates] /\ win' \in [Window -> WinStates]
      /\ Elements(windows) \subseteq Window /\ monitors \in Seq(ShowingMonitors)
  BY KnownTypes DEF TagInv
<1>3. \A v \in Window : /\ win'[v].tags = win[v].tags
                        /\ win'[v].swallowed = win[v].swallowed
                        /\ win'[v].rulesApplied = win[v].rulesApplied
  BY <1>1, <1>2, BufferedKeeps
<1>4. SpaceShows(space, windows, win', monitors)
  BY <1>2, <1>3 DEF SpaceInv, SpaceShows, Seen
<1>5. SpaceShows(base, windows, win', monitors)
  BY <1>2, <1>4, ArrangedAllShows
<1> HIDE DEF base
<1>6. SpaceShows(base \cup CentredSpace(win, monitors, w), windows, win', monitors)
  BY <1>2, <1>3, <1>5, CentringShows
<1> QED
  BY <1>1, <1>6 DEF SpaceInv, SpaceShows, Seen

LEMMA FirstCommitShows ==
    ASSUME Known, TagInv', NEW w \in Window, CommitFirst(w)
    PROVE  SpaceInv'
<1>1. PICK s, ms, sized : RuledFrom(w, s) /\ CommitRuled(w, s, ms, sized)
  BY FirstCommits
<1> DEFINE ruled == Swallow([win EXCEPT ![w] = s], w)
           centred == IF sized THEN CentredSpace(ruled, ms, w) ELSE {}
<1>2. /\ windows' = windows /\ monitors' = ms
      /\ win' = IF sized THEN Buffered(ruled, ms, w) ELSE ruled
      /\ space' = ArrangedAll(space, windows, win', ms) \cup centred
  BY <1>1 DEF CommitRuled
<1>3. ruled \in [Window -> WinStates]
  BY <1>1, Replaced, SwallowTyped DEF RuledFrom
<1> HIDE DEF ruled
<1>4. /\ win' \in [Window -> WinStates] /\ Elements(windows) \subseteq Window
      /\ ms \in Seq(ShowingMonitors)
  BY <1>2, KnownTypes DEF TagInv
<1>5. \A v \in Window : win'[v].tags = ruled[v].tags
  BY <1>2, <1>3, BufferedKeeps
<1>6. SpaceShows(ArrangedAll(space, windows, win', ms), windows, win', ms)
  BY <1>4, ArrangedAllShows
<1>7. SpaceShows(ArrangedAll(space, windows, win', ms) \cup CentredSpace(ruled, ms, w),
                 windows, win', ms)
  BY <1>3, <1>4, <1>5, <1>6, CentringShows
<1>8. SpaceShows(space', windows, win', ms)
  BY <1>2, <1>6, <1>7
<1> QED
  BY <1>2, <1>8 DEF SpaceInv, SpaceShows, Seen

LEMMA LateParentShows ==
    ASSUME Known, SpaceInv, NEW w \in Window, ParentChanged(w)
    PROVE  SpaceInv'
<1>1. win' = [win EXCEPT ![w].rulesApplied = FALSE] /\ UNCHANGED <<windows, monitors, space>>
  BY DEF ParentChanged
<1>2. \A v \in Elements(windows) : /\ win'[v].tags = win[v].tags
                                   /\ win'[v].swallowed = win[v].swallowed
                                   /\ win'[v].rulesApplied => win[v].rulesApplied
  BY <1>1, KnownTypes DEF WinStates, WindowState
<1> QED
  BY <1>1, <1>2 DEF SpaceInv, SpaceShows, Seen

LEMMA SpaceStep ==
    ASSUME Known, Known', IndexInv, SpaceInv, [Next]_vars
    PROVE  SpaceInv'
<1>1. CASE Rearranged
  <2>1. PICK mapped : space' = ArrangedAll(mapped, windows', win', monitors')
    BY <1>1 DEF Rearranged
  <2>2. monitors' \in Seq(ShowingMonitors) /\ Elements(windows') \subseteq Window
    <3>1. windows' \in Seq(Window)
      BY DEF Known, ListInv, Sound
    <3> QED
      BY <3>1, ElementsOf DEF Known, TagInv
  <2>3. SpaceShows(ArrangedAll(mapped, windows', win', monitors'), windows', win', monitors')
    BY <2>2, ArrangedAllShows
  <2>4. SpaceShows(space', windows', win', monitors')
    BY <2>1, <2>3
  <2> QED
    BY <2>4 DEF SpaceInv, SpaceShows, Seen, AllVisible
<1>2. CASE Refocused
  <2>1. UNCHANGED <<windows, win, monitors>>
    BY <1>2 DEF Refocused
  <2>2. ASSUME NEW w, space' = FocusArranged(space, focusStack, win, w)
        PROVE  SpaceShows(space', windows, win, monitors)
    <3>1. \E I \in SUBSET DOMAIN monitors :
             space' \in {space, Arranged(space, windows, win, monitors, I)}
      BY <2>2 DEF FocusArranged
    <3> QED
      BY <3>1, ArrangedShows, KnownTypes DEF SpaceInv
  <2>3. SpaceShows(space', windows, win, monitors)
    BY <1>2, <2>2 DEF Refocused, SpaceInv
  <2> QED
    BY <2>1, <2>3 DEF SpaceInv, SpaceShows, Seen
<1>3. CASE UNCHANGED vars
  BY <1>3 DEF vars, SpaceInv, SpaceShows, Seen
<1>4. CASE BoundAction \/ DeviceEvent \/ LockEvent
  BY <1>1, <1>2, <1>4, BoundArranges, OthersArrange
<1>5. CASE \E w \in Window : ClientEvent(w)
  BY <1>1, <1>2, <1>5, OthersArrange, NewWindowShows, FirstCommitShows, BufferShows,
     LateParentShows DEF ClientEvent, Known
<1> QED
  BY <1>3, <1>4, <1>5 DEF Next

LEMMA SpaceInvariant == Spec => []SpaceInv
<1>1. Init => SpaceInv
  BY DEF Init, SpaceInv, SpaceShows
<1>2. SpaceInv /\ IInv /\ IInv' /\ IndexInv /\ [Next]_vars => SpaceInv'
  BY SpaceStep DEF IInv, Known
<1> QED
  BY <1>1, <1>2, Invariance, IndicesInvariant, PTL DEF Spec

\* After every handler, whatever it did, the space holds exactly what the monitors show
\* (arrange, focus_window, commit), as long as no terminal that is hidden is mapped: the
\* one way it can be is a first commit that centres the window.
THEOREM SpaceHoldsWhatShows == Spec => [](SwallowedUnmapped => ShownIffVisible)
<1>1. IInv /\ SpaceInv => (SwallowedUnmapped => ShownIffVisible)
  BY KnownTypes DEF IInv, SpaceInv, SpaceShows, Seen, SwallowedUnmapped, ShownIffVisible
<1> QED
  BY <1>1, SpaceInvariant, Invariance, PTL

\* What happens to a window of monitor j when monitor i is unplugged and others remain.
LEMMA UnpluggedShows ==
    ASSUME Known, IndexInv, SpaceInv', NEW i \in DOMAIN monitors, OutputRemoved(i),
           monitors' # <<>>, NEW w \in Elements(windows), NEW j \in DOMAIN monitors,
           win[w].mon = j, win[w].rulesApplied, ~win[w].swallowed,
           win[w].tags \cap TagsOf(monitors[j]) # {}
    PROVE  w \in space' /\ w \in OwnedBy(win', monitors', win'[w].mon)
<1>1. /\ monitors \in Seq(ShowingMonitors) /\ i \in 1 .. Len(monitors) /\ Len(monitors) \in Nat
      /\ DOMAIN monitors = 1 .. Len(monitors) /\ w \in Window
  BY KnownTypes, LenProperties
<1>2. PICK target : /\ target = 1 \/ target \in DOMAIN monitors \ {i} \/ target = selMon
                    /\ Len(monitors) > 1 => target # i
                    /\ Migrates(i, target)
  BY RemovedShifts
<1>3. monitors' = Dropped(monitors, i) /\ windows' = windows
  BY RemovedShifts
<1>4. Len(monitors) > 1
  <2>1. Dropped(monitors, i) \in Seq(ShowingMonitors) /\ Len(Dropped(monitors, i)) = Len(monitors) - 1
    BY <1>1, DroppedElements
  <2>2. Len(monitors') # 0
    BY <1>3, <2>1, EmptySeq
  <2> QED
    BY <1>1, <1>3, <2>1, <2>2
<1>5. selMon \in DOMAIN monitors
  BY <1>1, <1>4 DEF IndexInv, Homed, Indices
<1>6. target \in 1 .. Len(monitors) /\ target # i
  BY <1>1, <1>2, <1>4, <1>5
<1> DEFINE home == IF j = i THEN target ELSE j
<1>7. /\ home \in 1 .. Len(monitors) /\ home # i /\ win'[w].mon = Shift(home, i)
      /\ win'[w].tags \cap TagsOf(monitors[home]) # {}
  <2>1. /\ win'[w].mon = Shift(home, i)
        /\ win'[w].tags = IF j = i /\ win[w].tags # {} THEN PlacementTags(monitors, target)
                          ELSE win[w].tags
    BY <1>2 DEF Migrates
  <2>2. CASE j = i
    <3>1. win'[w].tags = TagsOf(monitors[target])
      BY <1>1, <1>6, <2>1, <2>2 DEF PlacementTags
    <3>2. TagsOf(monitors[target]) # {}
      BY <1>1, <1>6, MonitorShows DEF Known, Views
    <3> QED
      BY <1>6, <2>1, <2>2, <3>1, <3>2
  <2>3. CASE j # i
    BY <1>1, <2>1, <2>3
  <2> QED
    BY <2>2, <2>3
<1> HIDE DEF home
<1>8. Shift(home, i) \in DOMAIN monitors' /\ monitors'[Shift(home, i)] = monitors[home]
  <2>1. Shift(home, i) \in 1 .. (Len(monitors) - 1) /\ Dropped(monitors, i)[Shift(home, i)] = monitors[home]
    BY <1>1, <1>7, ShiftedDrop
  <2> QED
    BY <1>3, <2>1 DEF Dropped
<1>9. w \in OwnedBy(win', monitors', win'[w].mon)
  BY <1>1, <1>7, <1>8 DEF OwnedBy, ShownTags
<1>10. w \in space'
  <2>1. Seen(win', monitors', w)
    BY <1>7, <1>8 DEF Seen, AllVisible
  <2>2. win'[w].rulesApplied /\ ~win'[w].swallowed
    BY <1>1, <1>2 DEF Migrates, LinksOf
  <2> QED
    BY <1>3, <2>1, <2>2 DEF SpaceInv, SpaceShows, Seen, AllVisible
<1> QED
  BY <1>9, <1>10

\* Unplugging an output hides no window it showed (output_removed): the monitor that takes
\* the windows over shows the tags it gives them.  A hidden terminal that is mapped all the
\* same is set aside as above.
THEOREM UnplugShowsElsewhere == Spec /\ []SwallowedUnmapped => UnplugHidesNothing
<1> DEFINE A == Len(monitors') < Len(monitors) /\ monitors' # <<>> =>
                   \A w \in Elements(windows) :
                       LET i == win[w].mon
                       IN  i \in DOMAIN monitors /\ win[w].rulesApplied /\ w \in space
                             /\ win[w].tags \cap TagsOf(monitors[i]) # {}
                           => w \in space' /\ w \in OwnedBy(win', monitors', win'[w].mon)
<1>1. IInv /\ IndexInv /\ SpaceInv' /\ SwallowedUnmapped /\ [Next]_vars => A
  <2> SUFFICES ASSUME IInv, IndexInv, SpaceInv', SwallowedUnmapped, [Next]_vars,
                      Len(monitors') < Len(monitors), monitors' # <<>>,
                      NEW w \in Elements(windows), win[w].mon \in DOMAIN monitors,
                      win[w].rulesApplied, w \in space,
                      win[w].tags \cap TagsOf(monitors[win[w].mon]) # {}
               PROVE  w \in space' /\ w \in OwnedBy(win', monitors', win'[w].mon)
    BY Zenon
  <2>1. Known /\ Len(monitors) \in Nat
    BY KnownTypes, LenProperties DEF IInv
  <2>2. ~win[w].swallowed
    BY <2>1, KnownTypes DEF SwallowedUnmapped
  <2>3. CASE \E i \in DOMAIN monitors : OutputRemoved(i)
    BY <2>1, <2>2, <2>3, UnpluggedShows
  <2>4. CASE \E o \in Output : OutputAdded(o)
    <3>1. Len(monitors') = Len(monitors) + 1
      BY <2>1, <2>4, AddedMonitors
    <3> QED
      BY <2>1, <3>1
  <2>5. CASE ~Hotplugged
    <3>1. DOMAIN monitors' = DOMAIN monitors
      BY <2>1, <2>5, OutputsElsewhere DEF SameOutputs
    <3> QED
      BY <2>1, <3>1 DEF Known
  <2> QED
    BY <2>3, <2>4, <2>5 DEF Hotplugged
<1>2. IInv /\ IndexInv /\ SpaceInv' /\ SwallowedUnmapped /\ [Next]_vars => [A]_vars
  BY <1>1
<1> QED
  BY <1>2, IndicesInvariant, SpaceInvariant, Invariance, PTL DEF Spec, UnplugHidesNothing

-----------------------------------------------------------------------------
(***************************************************************************)
(* A parent that a window gets after it has its rules: parent_changed has  *)
(* the next commit apply them again.  That marks the child of a hidden     *)
(* terminal as the child of a second one too, gives tags to a hidden       *)
(* scratchpad that is on no stack, and keeps a terminal off the screen     *)
(* until it commits.  Each theorem below excludes late parents for the     *)
(* windows it must, and for no others.                                     *)
(***************************************************************************)

ScratchPads == {w \in Window : ScratchPad(w)}
Children == {w \in Window : win[w].swallowing # None}
Terminals == {t \in Window : \E w \in Window : t \in Elements(Lineage[w])}

NoLateParent(S) == [][\A w \in S : ~ParentChanged(w)]_vars

LEMMA LinksAlike ==
    ASSUME NEW s, NEW r, LinksOf(s) = LinksOf(r)
    PROVE  /\ s.swallowing = r.swallowing /\ s.swallowed = r.swallowed /\ s.named = r.named
           /\ s.scratch = r.scratch /\ s.rulesApplied = r.rulesApplied
BY DEF LinksOf

\* The windows of a step that keeps every link, name and mark.
LEMMA LinksEqual ==
    ASSUME \A v \in Window : LinksOf(win'[v]) = LinksOf(win[v])
    PROVE  \A v \in Window :
              /\ win'[v].swallowing = win[v].swallowing /\ win'[v].swallowed = win[v].swallowed
              /\ win'[v].named = win[v].named /\ win'[v].scratch = win[v].scratch
              /\ win'[v].rulesApplied = win[v].rulesApplied
BY LinksAlike

LEMMA NewWindowUnlinked ==
    /\ NewWindow.swallowing = None /\ ~NewWindow.swallowed /\ ~NewWindow.named
    /\ ~NewWindow.scratch
BY DEF NewWindow

LEMMA ParentChanges ==
    ASSUME Known, NEW w \in Window, ParentChanged(w)
    PROVE  /\ UNCHANGED <<windows, focusStack>> /\ w \in Elements(windows)
           /\ \A v \in Window :
                 /\ win'[v].tags = win[v].tags /\ win'[v].swallowing = win[v].swallowing
                 /\ win'[v].swallowed = win[v].swallowed /\ win'[v].named = win[v].named
                 /\ win'[v].scratch = win[v].scratch
                 /\ v # w => win'[v] = win[v]
<1> DEFINE s == [win[w] EXCEPT !.rulesApplied = FALSE]
<1>1. /\ UNCHANGED <<windows, focusStack>> /\ w \in Elements(windows)
      /\ win' = [win EXCEPT ![w] = s]
  BY DEF ParentChanged
<1>2. /\ s.tags = win[w].tags /\ s.swallowing = win[w].swallowing
      /\ s.swallowed = win[w].swallowed /\ s.named = win[w].named /\ s.scratch = win[w].scratch
  BY KnownTypes DEF WinStates, WindowState
<1> HIDE DEF s
<1>3. \A v \in Window : win'[v] = IF v = w THEN s ELSE win[v]
  BY <1>1, KnownTypes
<1> QED
  BY <1>1, <1>2, <1>3

\* What new_toplevel does to the links: nothing, once it has a fresh state.
LEMMA NewWindowStates ==
    ASSUME Known, NEW w \in Window, NewToplevel(w)
    PROVE  /\ w \notin Elements(windows) /\ Elements(windows') = Elements(windows) \cup {w}
           /\ Elements(focusStack') = Elements(focusStack) \cup {w}
           /\ LinksOf(win'[w]) = LinksOf(NewWindow)
           /\ \A v \in Window \ {w} : win'[v] = win[v]
<1> DEFINE new == [NewWindow EXCEPT !.tags = PlacementTags(monitors, selMon), !.mon = selMon]
<1>1. /\ w \notin Elements(windows) /\ win' = [win EXCEPT ![w] = new]
      /\ focusStack' = Raise(focusStack, w)
  BY Zenon DEF NewToplevel
<1>2. LinksOf(new) = LinksOf(NewWindow)
  BY DEF LinksOf, NewWindow
<1> HIDE DEF new
<1>3. \A v \in Window : win'[v] = IF v = w THEN new ELSE win[v]
  BY <1>1, KnownTypes
<1>4. Elements(Raise(focusStack, w)) = Elements(focusStack) \cup {w}
  BY RaiseElements DEF Known, ListInv, Sound
<1>5. Elements(windows') = Elements(windows) \cup {w}
  BY NewWindowListed
<1> QED
  BY <1>1, <1>2, <1>3, <1>4, <1>5

\* A first commit names the window w and links it to a terminal t that nothing hides.
CommitLinks(w, t) ==
    /\ UNCHANGED windows /\ Elements(focusStack) \subseteq Elements(focusStack')
    /\ w \in Elements(windows) /\ ~win[w].rulesApplied
    /\ \/ t = None
       \/ /\ t \in Elements(windows) /\ t \in Window /\ t # w
          /\ win[t].named /\ ~win[t].swallowed /\ t \in Elements(Lineage[w])
    /\ win'[w].named /\ win'[w].rulesApplied
    /\ win'[w].swallowed <=> win[w].swallowed
    /\ win'[w].swallowing = IF t = None THEN win[w].swallowing ELSE t
    /\ \A v \in Window \ {w} :
          /\ win'[v].tags = win[v].tags /\ win'[v].named = win[v].named
          /\ win'[v].scratch = win[v].scratch /\ win'[v].rulesApplied = win[v].rulesApplied
          /\ win'[v].swallowing = win[v].swallowing
          /\ win'[v].swallowed <=> v = t \/ win[v].swallowed
          /\ v # t => win'[v] = win[v]

LEMMA FirstCommitStates ==
    ASSUME Known, NEW w \in Window, CommitFirst(w)
    PROVE  CommitLinks(w, SwallowTarget(w))
<1> DEFINE t == SwallowTarget(w)
<1>1. PICK s, ms, sized : RuledFrom(w, s) /\ CommitRuled(w, s, ms, sized)
  BY FirstCommits
<1>2. w \in Elements(windows) /\ ~win[w].rulesApplied
  BY FirstCommits
<1> DEFINE ruled == Swallow([win EXCEPT ![w] = s], w)
           target == FocusedIn(focusStack, ruled, ms, selMon)
<1>3. /\ windows' = windows /\ focusStack' = StackAfter(focusStack, target)
      /\ win' = ruled \/ win' = Buffered(ruled, ms, w)
  BY <1>1 DEF CommitRuled, FocusWindow
<1>4. CommittedTo(w, s, win')
  BY <1>1, <1>3, CommittedStates DEF RuledFrom
<1>5. target \in Elements(windows) \cup {None}
  <2> HIDE DEF ruled
  <2> QED
    BY FocusedListed DEF Known, ListInv
<1> HIDE DEF ruled, target
<1>6. Elements(focusStack) \subseteq Elements(focusStack')
  BY <1>3, <1>5, RaisesOnly DEF Known, ListInv
<1>7. \/ t = None
      \/ /\ t \in Elements(windows) /\ t \in Window /\ t # w
         /\ win[t].named /\ ~win[t].swallowed /\ t \in Elements(Lineage[w])
  BY TargetListed
<1>8. /\ win'[w].named /\ win'[w].rulesApplied
      /\ win'[w].swallowed <=> win[w].swallowed
      /\ win'[w].swallowing = IF t = None THEN win[w].swallowing ELSE t
  BY <1>1, <1>4 DEF CommittedTo, RuledFrom
<1>9. ASSUME NEW v \in Window \ {w}
      PROVE  /\ win'[v].tags = win[v].tags /\ win'[v].named = win[v].named
             /\ win'[v].scratch = win[v].scratch
             /\ win'[v].rulesApplied = win[v].rulesApplied
             /\ win'[v].swallowing = win[v].swallowing
             /\ win'[v].swallowed <=> v = t \/ win[v].swallowed
             /\ v # t => win'[v] = win[v]
  <2>1. CASE v = t
    <3>1. win'[v] = [win[v] EXCEPT !.swallowed = TRUE] /\ win[v] \in WindowState
      BY <1>4, <2>1, KnownTypes, WindowAssumption DEF CommittedTo, WinStates
    <3> QED
      BY <2>1, <3>1 DEF WindowState
  <2>2. CASE v # t
    <3>1. win'[v] = win[v]
      BY <1>4, <2>2 DEF CommittedTo
    <3> QED
      BY <2>2, <3>1
  <2> QED
    BY <2>1, <2>2
<1> HIDE DEF t
<1>10. CommitLinks(w, t)
  BY <1>2, <1>3, <1>6, <1>7, <1>8, <1>9 DEF CommitLinks
<1> QED
  BY <1>10 DEF t

\* A window's end brings back the terminal t it hid, and only changes the links to itself.
EndLinks(w, t) ==
    /\ Elements(windows') = Elements(windows) \ {w}
    /\ Elements(focusStack) \ {w} \subseteq Elements(focusStack')
    /\ t \in Elements(windows') => t \in Elements(focusStack')
    /\ win'[w] = NewWindow
    /\ \A v \in Window \ {w} :
          /\ win'[v].named = win[v].named /\ win'[v].scratch = win[v].scratch
          /\ win'[v].rulesApplied = win[v].rulesApplied
          /\ v = t /\ v \in Elements(windows') =>
                /\ ~win'[v].swallowed /\ win'[v].swallowing = win[v].swallowing
          /\ v # t \/ v \notin Elements(windows') =>
                /\ win'[v].tags = win[v].tags /\ win'[v].swallowed = win[v].swallowed
                /\ win'[v].swallowing = IF win[w].swallowed /\ win[v].swallowing = w THEN None
                                        ELSE win[v].swallowing

LEMMA EndStates ==
    ASSUME Known, NEW w \in Window, Destroy(w)
    PROVE  EndLinks(w, win[w].swallowing)
<1> DEFINE t == win[w].swallowing
<1>1. PICK top : DestroyedLists(w, top)
  BY DestroyShape
<1>2. /\ Elements(windows') = Elements(windows) \ {w} /\ win' = Unswallowed(w, windows')
      /\ Elements(focusStack) \ {w} \subseteq Elements(focusStack')
      /\ t \in Elements(windows') => t \in Elements(focusStack')
  <2>1. None \notin Elements(windows')
    BY <1>1, KnownTypes, WindowAssumption DEF DestroyedLists
  <2> QED
    BY <1>1, <2>1 DEF DestroyedLists
<1>3. win'[w] = NewWindow
  BY <1>2, DestroyedStates
<1>4. ASSUME NEW v \in Window \ {w}, v = t, v \in Elements(windows')
      PROVE  /\ ~win'[v].swallowed /\ win'[v].swallowing = win[v].swallowing
             /\ win'[v].named = win[v].named /\ win'[v].scratch = win[v].scratch
             /\ win'[v].rulesApplied = win[v].rulesApplied
  BY <1>2, <1>4, DestroyedStates
<1>5. ASSUME NEW v \in Window \ {w}, v # t \/ v \notin Elements(windows')
      PROVE  /\ win'[v].named = win[v].named /\ win'[v].scratch = win[v].scratch
             /\ win'[v].rulesApplied = win[v].rulesApplied
             /\ win'[v].tags = win[v].tags /\ win'[v].swallowed = win[v].swallowed
             /\ win'[v].swallowing = IF win[w].swallowed /\ win[v].swallowing = w THEN None
                                     ELSE win[v].swallowing
  BY <1>2, <1>5, DestroyedStates
<1> HIDE DEF t
<1>6. EndLinks(w, t)
  BY <1>2, <1>3, <1>4, <1>5 DEF EndLinks
<1> QED
  BY <1>6 DEF t

-----------------------------------------------------------------------------
(***************************************************************************)
(* Only a hidden scratchpad is off the focus stack.                        *)
(***************************************************************************)

\* Names and scratchpad marks come with the rules, so a scratchpad has them.
PadsRuled == \A v \in ScratchPads : win[v].rulesApplied

\* A window that is off the focus stack is a scratchpad without tags.
StackInv == \A v \in Elements(windows) \ Elements(focusStack) : win[v].tags = {} /\ ScratchPad(v)

HiddenInv == PadsRuled /\ StackInv

LEMMA OrdinaryHides ==
    ASSUME Known, HiddenInv, Ordinary
    PROVE  HiddenInv'
<1>1. \A v \in Window : /\ win'[v].named = win[v].named /\ win'[v].scratch = win[v].scratch
                        /\ win'[v].rulesApplied = win[v].rulesApplied
  BY LinksEqual DEF Ordinary
<1>2. PadsRuled'
  BY <1>1 DEF HiddenInv, PadsRuled, ScratchPads, ScratchPad
<1>3. StackInv'
  <2> SUFFICES ASSUME NEW v \in Elements(windows') \ Elements(focusStack')
               PROVE  win'[v].tags = {} /\ ScratchPad(v)'
    BY DEF StackInv
  <2>1. v \in Elements(windows) /\ v \in Window
    BY KnownTypes DEF Ordinary
  <2>2. \/ v \notin Elements(focusStack) /\ win'[v].tags = win[v].tags
        \/ win'[v].tags = {} /\ ScratchPad(v)
    BY <2>1 DEF Ordinary
  <2> QED
    BY <1>1, <2>1, <2>2 DEF HiddenInv, StackInv, ScratchPad
<1> QED
  BY <1>2, <1>3 DEF HiddenInv

LEMMA HotplugHides ==
    ASSUME Known, HiddenInv, Hotplugged
    PROVE  HiddenInv'
<1>1. CASE \E o \in Output : OutputAdded(o)
  BY <1>1 DEF OutputAdded, HiddenInv, PadsRuled, ScratchPads, ScratchPad, StackInv
<1>2. CASE \E i \in DOMAIN monitors : OutputRemoved(i)
  <2>1. PICK i, target : Migrates(i, target) /\ UNCHANGED <<windows, focusStack>>
    BY <1>2, RemovedShifts
  <2>2. \A v \in Window : /\ win'[v].named = win[v].named /\ win'[v].scratch = win[v].scratch
                          /\ win'[v].rulesApplied = win[v].rulesApplied
    BY <2>1, LinksEqual DEF Migrates
  <2>3. PadsRuled'
    BY <2>2 DEF HiddenInv, PadsRuled, ScratchPads, ScratchPad
  <2>4. StackInv'
    <3> SUFFICES ASSUME NEW v \in Elements(windows) \ Elements(focusStack)
                 PROVE  win'[v].tags = {} /\ ScratchPad(v)'
      BY <2>1 DEF StackInv
    <3>1. v \in Window /\ win[v].tags = {} /\ ScratchPad(v)
      BY KnownTypes DEF HiddenInv, StackInv
    <3> QED
      BY <2>1, <2>2, <3>1 DEF Migrates, ScratchPad
  <2> QED
    BY <2>3, <2>4 DEF HiddenInv
<1> QED
  BY <1>1, <1>2 DEF Hotplugged

LEMMA NewWindowHides ==
    ASSUME Known, HiddenInv, NEW w \in Window, NewToplevel(w)
    PROVE  HiddenInv'
<1>1. ~win'[w].named /\ ~win'[w].scratch
  BY NewWindowStates, LinksAlike, NewWindowUnlinked
<1> QED
  BY <1>1, NewWindowStates, KnownTypes
     DEF HiddenInv, PadsRuled, ScratchPads, ScratchPad, StackInv

LEMMA FirstCommitHides ==
    ASSUME Known, HiddenInv, NEW w \in Window, CommitFirst(w)
    PROVE  HiddenInv'
<1> DEFINE t == SwallowTarget(w)
<1>1. CommitLinks(w, t)
  BY FirstCommitStates
<1> HIDE DEF t
<1>2. PadsRuled'
  BY <1>1 DEF CommitLinks, HiddenInv, PadsRuled, ScratchPads, ScratchPad
<1>3. StackInv'
  <2> SUFFICES ASSUME NEW v \in Elements(windows) \ Elements(focusStack')
               PROVE  win'[v].tags = {} /\ ScratchPad(v)'
    BY <1>1 DEF StackInv, CommitLinks
  <2>1. v \in Window /\ win[v].tags = {} /\ ScratchPad(v)
    BY <1>1, KnownTypes DEF HiddenInv, StackInv, CommitLinks
  <2>2. v # w
    BY <1>1, <2>1 DEF HiddenInv, PadsRuled, ScratchPads, CommitLinks
  <2> QED
    BY <1>1, <2>1, <2>2 DEF CommitLinks, ScratchPad
<1> QED
  BY <1>2, <1>3 DEF HiddenInv

LEMMA DestroyHides ==
    ASSUME Known, HiddenInv, NEW w \in Window, Destroy(w)
    PROVE  HiddenInv'
<1> DEFINE t == win[w].swallowing
<1>1. EndLinks(w, t)
  BY EndStates
<1> HIDE DEF t
<1>2. PadsRuled'
  BY <1>1, NewWindowUnlinked DEF EndLinks, HiddenInv, PadsRuled, ScratchPads, ScratchPad
<1>3. StackInv'
  <2> SUFFICES ASSUME NEW v \in Elements(windows') \ Elements(focusStack')
               PROVE  win'[v].tags = {} /\ ScratchPad(v)'
    BY DEF StackInv
  <2>1. v \in Elements(windows) \ Elements(focusStack) /\ v # w /\ v # t
    BY <1>1 DEF EndLinks
  <2>2. v \in Window /\ win[v].tags = {} /\ ScratchPad(v)
    BY <2>1, KnownTypes DEF HiddenInv, StackInv
  <2> QED
    BY <1>1, <2>1, <2>2 DEF EndLinks, ScratchPad
<1> QED
  BY <1>2, <1>3 DEF HiddenInv

LEMMA LateParentHides ==
    ASSUME Known, HiddenInv, NEW w \in Window, ParentChanged(w), w \notin ScratchPads
    PROVE  HiddenInv'
BY ParentChanges, KnownTypes DEF HiddenInv, PadsRuled, ScratchPads, ScratchPad, StackInv

LEMMA HiddenStep ==
    ASSUME Known, HiddenInv, [Next]_vars, [\A w \in ScratchPads : ~ParentChanged(w)]_vars
    PROVE  HiddenInv'
<1>1. CASE UNCHANGED vars
  <2>1. Ordinary
    BY <1>1, OnlyRaises DEF vars
  <2> QED
    BY <2>1, OrdinaryHides
<1>2. CASE \A w \in ScratchPads : ~ParentChanged(w)
  BY <1>2, OrdinarySteps, OrdinaryHides, HotplugHides, NewWindowHides, FirstCommitHides,
     DestroyHides, LateParentHides
<1> QED
  BY <1>1, <1>2

\* Every window that is listed and is not a hidden scratchpad is on the focus stack
\* (new_toplevel, focus_window, toggle_scratch, toplevel_destroyed), so some keyboard
\* action can reach it again; whatever other windows get a parent late.
THEOREM StackedUntilHidden == Spec /\ NoLateParent(ScratchPads) => []StackedUnlessHidden
<1>1. Init => HiddenInv
  <2> SUFFICES ASSUME Init PROVE HiddenInv
    OBVIOUS
  <2>1. Elements(windows) = {} /\ \A v \in Window : win[v] = NewWindow
    BY DEF Init, Elements
  <2> QED
    BY <2>1, NewWindowUnlinked DEF HiddenInv, PadsRuled, ScratchPads, ScratchPad, StackInv
<1>2. IInv /\ HiddenInv /\ [Next]_vars /\ [\A w \in ScratchPads : ~ParentChanged(w)]_vars
         => HiddenInv'
  BY HiddenStep DEF IInv
<1>3. HiddenInv => StackedUnlessHidden
  BY DEF HiddenInv, StackInv, StackedUnlessHidden
<1> QED
  BY <1>1, <1>2, <1>3, Invariance, PTL DEF Spec, NoLateParent

-----------------------------------------------------------------------------
(***************************************************************************)
(* Links: a hidden terminal and the window that brings it back.            *)
(***************************************************************************)

\* A window that is not listed has no link, no name and no rules.
UnlistedUnlinked ==
    \A v \in Window \ Elements(windows) : LinksOf(win[v]) = LinksOf(NewWindow)

\* Links come with the rules, and lead to an ancestor.
LinksRuled ==
    \A c \in Window : win[c].swallowing # None =>
        win[c].rulesApplied /\ win[c].swallowing \in Elements(Lineage[c])

\* A window is hidden exactly by one other.
OneLink ==
    /\ \A c, d \in Window : win[c].swallowing = win[d].swallowing /\ win[c].swallowing # None => c = d
    /\ \A t \in Window : win[t].swallowed <=> \E c \in Window : win[c].swallowing = t

LinkInv == UnlistedUnlinked /\ LinksRuled /\ OneLink

\* No window hides one that hides it: it would be an ancestor of its ancestor.
LEMMA NoMutualLink ==
    ASSUME LinkInv, NEW c \in Window, NEW d \in Window, win[c].swallowing = d
    PROVE  win[d].swallowing # c /\ c # d
<1>1. d \in Elements(Lineage[c])
  BY WindowAssumption DEF LinkInv, LinksRuled
<1>2. ASSUME win[d].swallowing = c PROVE c \in Elements(Lineage[d])
  BY <1>2, WindowAssumption DEF LinkInv, LinksRuled
<1> QED
  BY <1>1, <1>2, AncestryAssumption

\* The links of all windows stay.
LEMMA LinksStay ==
    ASSUME LinkInv, \A v \in Window : LinksOf(win'[v]) = LinksOf(win[v]),
           Elements(windows) \subseteq Elements(windows')
    PROVE  LinkInv'
<1>1. \A v \in Window :
         /\ win'[v].swallowing = win[v].swallowing /\ win'[v].swallowed = win[v].swallowed
         /\ win'[v].rulesApplied = win[v].rulesApplied
  BY LinksEqual
<1>2. UnlistedUnlinked'
  BY DEF LinkInv, UnlistedUnlinked
<1>3. LinksRuled'
  BY <1>1 DEF LinkInv, LinksRuled
<1>4. OneLink'
  BY <1>1 DEF LinkInv, OneLink
<1> QED
  BY <1>2, <1>3, <1>4 DEF LinkInv

LEMMA HotplugLinks ==
    ASSUME Known, Hotplugged
    PROVE  windows' = windows /\ \A v \in Window : LinksOf(win'[v]) = LinksOf(win[v])
<1>1. CASE \E o \in Output : OutputAdded(o)
  BY <1>1 DEF OutputAdded
<1>2. CASE \E i \in DOMAIN monitors : OutputRemoved(i)
  BY <1>2, RemovedShifts DEF Migrates
<1> QED
  BY <1>1, <1>2 DEF Hotplugged

LEMMA NewWindowLinks ==
    ASSUME Known, UnlistedUnlinked, NEW w \in Window, NewToplevel(w)
    PROVE  /\ \A v \in Window : LinksOf(win'[v]) = LinksOf(win[v])
           /\ Elements(windows) \subseteq Elements(windows')
BY NewWindowStates DEF UnlistedUnlinked

\* A first commit links the window to a terminal that nothing hid.
LEMMA FirstCommitLinks ==
    ASSUME Known, LinkInv, NEW w \in Window, CommitFirst(w)
    PROVE  LinkInv'
<1> DEFINE t == SwallowTarget(w)
<1>1. CommitLinks(w, t)
  BY FirstCommitStates
<1> HIDE DEF t
<1>2. win[w].swallowing = None
  BY <1>1 DEF LinkInv, LinksRuled, CommitLinks
<1>3. \A c \in Window : win'[c].swallowing = IF c = w THEN t ELSE win[c].swallowing
  BY <1>1, <1>2 DEF CommitLinks
<1>4. UnlistedUnlinked'
  <2> SUFFICES ASSUME NEW v \in Window \ Elements(windows)
               PROVE  LinksOf(win'[v]) = LinksOf(NewWindow)
    BY <1>1 DEF UnlistedUnlinked, CommitLinks
  <2>1. v # w /\ v # t
    BY <1>1, WindowAssumption DEF CommitLinks
  <2>2. win'[v] = win[v]
    BY <1>1, <2>1 DEF CommitLinks
  <2> QED
    BY <2>2 DEF LinkInv, UnlistedUnlinked
<1>5. LinksRuled'
  <2> SUFFICES ASSUME NEW v \in Window, win'[v].swallowing # None
               PROVE  win'[v].rulesApplied /\ win'[v].swallowing \in Elements(Lineage[v])
    BY DEF LinksRuled
  <2>1. CASE v = w
    BY <1>1, <1>3, <2>1 DEF CommitLinks
  <2>2. CASE v # w
    BY <1>1, <1>3, <2>2 DEF CommitLinks, LinkInv, LinksRuled
  <2> QED
    BY <2>1, <2>2
<1>6. t # None => \A c \in Window : win[c].swallowing # t
  BY <1>1 DEF LinkInv, OneLink, CommitLinks
<1>7. \A c, d \in Window :
         win'[c].swallowing = win'[d].swallowing /\ win'[c].swallowing # None => c = d
  BY <1>3, <1>6 DEF LinkInv, OneLink
<1>8. ASSUME NEW u \in Window
      PROVE  win'[u].swallowed <=> \E c \in Window : win'[c].swallowing = u
  <2>1. CASE u = t
    BY <1>1, <1>3, <2>1, WindowAssumption DEF CommitLinks
  <2>2. CASE u # t
    <3>1. win'[u].swallowed <=> win[u].swallowed
      BY <1>1, <2>2 DEF CommitLinks
    <3>2. \A c \in Window : win'[c].swallowing = u <=> win[c].swallowing = u
      BY <1>2, <1>3, <2>2, WindowAssumption
    <3> QED
      BY <3>1, <3>2 DEF LinkInv, OneLink
  <2> QED
    BY <2>1, <2>2
<1>9. OneLink'
  BY <1>7, <1>8 DEF OneLink
<1> QED
  BY <1>4, <1>5, <1>9 DEF LinkInv

\* A window's end undoes its link, and only that.
LEMMA DestroyLinks ==
    ASSUME Known, LinkInv, NEW w \in Window, Destroy(w)
    PROVE  LinkInv'
<1> DEFINE t == win[w].swallowing
<1>1. EndLinks(w, t)
  BY EndStates
<1>2. t \in Window => t # w /\ win[t].swallowing # w
  BY NoMutualLink
<1>3. t \in Window => t \in Elements(windows')
  <2> SUFFICES ASSUME t \in Window PROVE t \in Elements(windows)
    BY <1>1, <1>2 DEF EndLinks
  <2>1. win[t].swallowed
    BY DEF LinkInv, OneLink
  <2>2. LinksOf(win[t]) # LinksOf(NewWindow)
    BY <2>1 DEF LinksOf, NewWindow
  <2> QED
    BY <2>2 DEF LinkInv, UnlistedUnlinked
<1>4. \A c \in Window : win[c].swallowing = t /\ t # None => c = w
  BY DEF LinkInv, OneLink
<1> HIDE DEF t
<1>5. ASSUME NEW v \in Window \ {w}
      PROVE  /\ win'[v].swallowing = IF win[v].swallowing = w THEN None ELSE win[v].swallowing
             /\ v = t => ~win'[v].swallowed
             /\ v # t => win'[v].swallowed = win[v].swallowed
  <2>1. win[v].swallowing = w => win[w].swallowed
    BY DEF LinkInv, OneLink
  <2>2. CASE v = t
    BY <1>1, <1>2, <1>3, <2>2 DEF EndLinks
  <2>3. CASE v # t
    BY <1>1, <2>1, <2>3 DEF EndLinks
  <2> QED
    BY <2>2, <2>3
<1>6. win'[w].swallowing = None /\ ~win'[w].swallowed
  BY <1>1, NewWindowUnlinked DEF EndLinks
<1>7. \A v \in Window : /\ win'[v].swallowing # None => win'[v].swallowing = win[v].swallowing
                        /\ win'[v].swallowing # None => v # w
                        /\ win'[v].swallowing # w
  BY <1>5, <1>6, WindowAssumption
<1>8. UnlistedUnlinked'
  <2> SUFFICES ASSUME NEW v \in Window \ Elements(windows')
               PROVE  LinksOf(win'[v]) = LinksOf(NewWindow)
    BY DEF UnlistedUnlinked
  <2>1. CASE v = w
    BY <1>1, <2>1 DEF EndLinks
  <2>2. CASE v # w
    <3>1. v \notin Elements(windows) /\ v # t
      BY <1>1, <1>3, <2>2 DEF EndLinks
    <3>2. LinksOf(win[v]) = LinksOf(NewWindow)
      BY <3>1 DEF LinkInv, UnlistedUnlinked
    <3>3. win[v].swallowing = None
      BY <3>2, LinksAlike, NewWindowUnlinked
    <3>4. /\ win'[v].swallowing = win[v].swallowing /\ win'[v].swallowed = win[v].swallowed
      BY <1>5, <2>2, <3>1, <3>3, WindowAssumption
    <3>5. /\ win'[v].named = win[v].named /\ win'[v].scratch = win[v].scratch
          /\ win'[v].rulesApplied = win[v].rulesApplied
      BY <1>1, <2>2 DEF EndLinks
    <3> QED
      BY <3>2, <3>4, <3>5 DEF LinksOf
  <2> QED
    BY <2>1, <2>2
<1>9. LinksRuled'
  <2> SUFFICES ASSUME NEW v \in Window, win'[v].swallowing # None
               PROVE  win'[v].rulesApplied /\ win'[v].swallowing \in Elements(Lineage[v])
    BY DEF LinksRuled
  <2>1. v # w /\ win'[v].swallowing = win[v].swallowing
    BY <1>7
  <2>2. win'[v].rulesApplied = win[v].rulesApplied
    BY <1>1, <2>1 DEF EndLinks
  <2> QED
    BY <2>1, <2>2 DEF LinkInv, LinksRuled
<1>10. \A c, d \in Window :
         win'[c].swallowing = win'[d].swallowing /\ win'[c].swallowing # None => c = d
  BY <1>7 DEF LinkInv, OneLink
<1>11. ASSUME NEW u \in Window
       PROVE  win'[u].swallowed <=> \E c \in Window : win'[c].swallowing = u
  <2>1. CASE u = w
    BY <1>6, <1>7, <2>1
  <2>2. CASE u = t /\ u # w
    <3>1. ~win'[u].swallowed
      BY <1>5, <2>2
    <3>2. ASSUME NEW c \in Window, win'[c].swallowing = u PROVE FALSE
      <4>1. win[c].swallowing = u /\ c # w
        BY <1>7, <3>2, WindowAssumption
      <4> QED
        BY <1>4, <2>2, <4>1, WindowAssumption
    <3> QED
      BY <3>1, <3>2
  <2>3. CASE u # t /\ u # w
    <3>1. win'[u].swallowed = win[u].swallowed
      BY <1>5, <2>3
    <3>2. \A c \in Window : win'[c].swallowing = u => win[c].swallowing = u
      BY <1>7, WindowAssumption
    <3>3. ASSUME NEW c \in Window, win[c].swallowing = u PROVE win'[c].swallowing = u
      <4>1. c # w
        BY <2>3, <3>3 DEF t
      <4> QED
        BY <1>5, <2>3, <3>3, <4>1
    <3> QED
      BY <3>1, <3>2, <3>3 DEF LinkInv, OneLink
  <2> QED
    BY <2>1, <2>2, <2>3
<1>12. OneLink'
  BY <1>10, <1>11 DEF OneLink
<1> QED
  BY <1>8, <1>9, <1>12 DEF LinkInv

LEMMA LateParentLinks ==
    ASSUME Known, LinkInv, NEW w \in Window, ParentChanged(w), w \notin Children
    PROVE  LinkInv'
<1>1. UnlistedUnlinked'
  <2> SUFFICES ASSUME NEW v \in Window \ Elements(windows)
               PROVE  LinksOf(win'[v]) = LinksOf(NewWindow)
    BY ParentChanges DEF UnlistedUnlinked
  <2>1. win'[v] = win[v]
    BY ParentChanges
  <2> QED
    BY <2>1 DEF LinkInv, UnlistedUnlinked
<1>2. LinksRuled'
  BY ParentChanges DEF LinkInv, LinksRuled, Children
<1>3. OneLink'
  BY ParentChanges DEF LinkInv, OneLink
<1> QED
  BY <1>1, <1>2, <1>3 DEF LinkInv

LEMMA LinkStep ==
    ASSUME Known, LinkInv, [Next]_vars, [\A w \in Children : ~ParentChanged(w)]_vars
    PROVE  LinkInv'
<1>1. ASSUME Ordinary PROVE LinkInv'
  BY <1>1, LinksStay DEF Ordinary
<1>2. CASE UNCHANGED vars
  <2>1. Ordinary
    BY <1>2, OnlyRaises DEF vars
  <2> QED
    BY <1>1, <2>1
<1>3. CASE \A w \in Children : ~ParentChanged(w)
  <2>1. CASE Hotplugged
    BY <2>1, HotplugLinks, LinksStay
  <2>2. CASE \E w \in Window : NewToplevel(w)
    BY <2>2, NewWindowLinks, LinksStay DEF LinkInv
  <2>3. CASE \E w \in Window : CommitFirst(w) \/ Destroy(w) \/ ParentChanged(w)
    BY <1>3, <2>3, FirstCommitLinks, DestroyLinks, LateParentLinks
  <2> QED
    BY <1>1, <2>1, <2>2, <2>3, OrdinarySteps
<1> QED
  BY <1>2, <1>3

LEMMA InitLinks == Init => LinkInv
<1> SUFFICES ASSUME Init PROVE LinkInv
  OBVIOUS
<1>1. Elements(windows) = {} /\ \A v \in Window : win[v] = NewWindow
  BY DEF Init, Elements
<1> QED
  BY <1>1, NewWindowUnlinked, WindowAssumption
     DEF LinkInv, UnlistedUnlinked, LinksRuled, OneLink

LEMMA LinksInvariant == Spec /\ NoLateParent(Children) => []LinkInv
<1>1. Init => LinkInv
  BY InitLinks
<1>2. IInv /\ LinkInv /\ [Next]_vars /\ [\A w \in Children : ~ParentChanged(w)]_vars => LinkInv'
  BY LinkStep DEF IInv
<1> QED
  BY <1>1, <1>2, Invariance, PTL DEF Spec, NoLateParent

\* However terminals and their children come and go, a terminal is hidden exactly while one
\* listed window holds the link that brings it back (try_swallow, do_swallow, on_unmap).
THEOREM HiddenTerminalsPaired == Spec /\ NoLateParent(Children) => []SwallowPairs
<1>1. IInv /\ LinkInv => SwallowPairs
  <2> SUFFICES ASSUME IInv, LinkInv, NEW t \in Window
               PROVE  Cardinality({c \in Elements(windows) : win[c].swallowing = t})
                         = IF win[t].swallowed THEN 1 ELSE 0
    BY KnownTypes DEF IInv, SwallowPairs
  <2> DEFINE links == {c \in Elements(windows) : win[c].swallowing = t}
  <2>1. \A c \in Window : win[c].swallowing = t => c \in Elements(windows)
    <3> SUFFICES ASSUME NEW c \in Window \ Elements(windows), win[c].swallowing = t PROVE FALSE
      OBVIOUS
    <3>1. win[c].swallowing = NewWindow.swallowing
      BY LinksAlike DEF LinkInv, UnlistedUnlinked
    <3> QED
      BY <3>1, WindowAssumption DEF NewWindow
  <2>2. CASE win[t].swallowed
    <3>1. PICK c \in Window : win[c].swallowing = t
      BY <2>2 DEF LinkInv, OneLink
    <3>2. links = {c}
      BY <2>1, <3>1, KnownTypes, WindowAssumption DEF IInv, LinkInv, OneLink
    <3> QED
      BY <2>2, <3>2, FS_Singleton
  <2>3. CASE ~win[t].swallowed
    <3>1. links = {}
      BY <2>3, KnownTypes DEF IInv, LinkInv, OneLink
    <3> QED
      BY <2>3, <3>1, FS_EmptySet
  <2> QED
    BY <2>2, <2>3
<1> QED
  BY <1>1, LinksInvariant, Invariance, PTL

-----------------------------------------------------------------------------
(***************************************************************************)
(* Late parents too: what stays of a link when a window's rules are        *)
(* applied again and it hides a second terminal.  The first stays hidden,  *)
(* with no window to bring it back; the window still hides the terminal it *)
(* is linked to, and no other window does.                                 *)
(***************************************************************************)

LinksHide ==
    \A c \in Window : win[c].swallowing # None =>
        /\ win[c].swallowing \in Elements(Lineage[c]) /\ win[win[c].swallowing].swallowed
        /\ \A d \in Window : win[d].swallowing = win[c].swallowing => d = c

HideInv == UnlistedUnlinked /\ LinksHide

LEMMA AncestorsAreWindows == \A c \in Window : Elements(Lineage[c]) \subseteq Window
<1> SUFFICES ASSUME NEW c \in Window PROVE Elements(Lineage[c]) \subseteq Window
  OBVIOUS
<1>1. Lineage[c] \in Seq(Window)
  BY LineageAssumption
<1> QED
  BY <1>1 DEF Elements

\* A link leads to a window.
LEMMA LinksToWindows ==
    ASSUME LinksHide, NEW c \in Window, win[c].swallowing # None
    PROVE  win[c].swallowing \in Window
BY AncestorsAreWindows DEF LinksHide

\* Who is hidden hides neither itself nor the window that hides it.
LEMMA LinksAcyclic ==
    ASSUME HideInv, NEW c \in Window, NEW d \in Window, win[c].swallowing = d
    PROVE  win[d].swallowed /\ win[d].swallowing # c /\ c # d
<1>1. win[d].swallowed /\ d \in Elements(Lineage[c])
  BY WindowAssumption DEF HideInv, LinksHide
<1>2. win[d].swallowing = c => c \in Elements(Lineage[d])
  BY WindowAssumption DEF HideInv, LinksHide
<1> QED
  BY <1>1, <1>2, AncestryAssumption

LEMMA HidesStay ==
    ASSUME HideInv, \A v \in Window : LinksOf(win'[v]) = LinksOf(win[v]),
           Elements(windows) \subseteq Elements(windows')
    PROVE  HideInv'
<1>1. \A v \in Window : win'[v].swallowing = win[v].swallowing /\ win'[v].swallowed = win[v].swallowed
  BY LinksEqual
<1>2. UnlistedUnlinked'
  BY DEF HideInv, UnlistedUnlinked
<1>3. LinksHide'
  BY <1>1, LinksToWindows DEF HideInv, LinksHide
<1> QED
  BY <1>2, <1>3 DEF HideInv

\* A first commit, or one after a late parent, links the window to a terminal that nothing hid.
LEMMA CommitHides ==
    ASSUME Known, HideInv, NEW w \in Window, CommitFirst(w)
    PROVE  HideInv'
<1> DEFINE t == SwallowTarget(w)
<1>1. CommitLinks(w, t)
  BY FirstCommitStates
<1> HIDE DEF t
<1>2. UnlistedUnlinked'
  <2> SUFFICES ASSUME NEW v \in Window \ Elements(windows)
               PROVE  LinksOf(win'[v]) = LinksOf(NewWindow)
    BY <1>1 DEF UnlistedUnlinked, CommitLinks
  <2>1. v # w /\ v # t
    BY <1>1, WindowAssumption DEF CommitLinks
  <2>2. win'[v] = win[v]
    BY <1>1, <2>1 DEF CommitLinks
  <2> QED
    BY <2>2 DEF HideInv, UnlistedUnlinked
<1>3. \A c \in Window : win'[c].swallowing = IF c = w /\ t # None THEN t ELSE win[c].swallowing
  BY <1>1 DEF CommitLinks
<1>4. \A v \in Window : win[v].swallowed => win'[v].swallowed
  BY <1>1 DEF CommitLinks
<1>5. t # None => /\ t \in Window /\ t \in Elements(Lineage[w]) /\ win'[t].swallowed
                  /\ \A c \in Window : win[c].swallowing # t
  BY <1>1 DEF HideInv, LinksHide, CommitLinks
<1>6. LinksHide'
  <2> SUFFICES ASSUME NEW c \in Window, win'[c].swallowing # None
               PROVE  /\ win'[c].swallowing \in Elements(Lineage[c])
                      /\ win'[win'[c].swallowing].swallowed
                      /\ \A d \in Window : win'[d].swallowing = win'[c].swallowing => d = c
    BY DEF LinksHide
  <2>1. CASE c = w /\ t # None
    BY <1>3, <1>5, <2>1
  <2>2. CASE ~(c = w /\ t # None)
    <3>1. win'[c].swallowing = win[c].swallowing
      BY <1>3, <2>2
    <3>2. win[c].swallowing \in Elements(Lineage[c]) /\ win[win[c].swallowing].swallowed
      BY <3>1 DEF HideInv, LinksHide
    <3>3. win[c].swallowing \in Window
      BY <3>2, AncestorsAreWindows
    <3>4. \A d \in Window : win'[d].swallowing = win[c].swallowing => d = c
      BY <1>3, <1>5, <3>1 DEF HideInv, LinksHide
    <3> QED
      BY <1>4, <3>1, <3>2, <3>3, <3>4
  <2> QED
    BY <2>1, <2>2
<1> QED
  BY <1>2, <1>6 DEF HideInv

\* A window's end undoes the links to and from it, and no other.
LEMMA EndHides ==
    ASSUME Known, HideInv, NEW w \in Window, Destroy(w)
    PROVE  HideInv'
<1> DEFINE t == win[w].swallowing
<1>1. EndLinks(w, t)
  BY EndStates
<1>2. \A c \in Window : \A d \in Window : win[c].swallowing = d =>
         win[d].swallowed /\ win[d].swallowing # c /\ c # d
  BY LinksAcyclic
<1>3. \A c \in Window : win[c].swallowing = t /\ t # None => c = w
  BY DEF HideInv, LinksHide
<1>4. t \in Window => t # w /\ win[t].swallowing # w /\ t \in Elements(windows')
  <2> SUFFICES ASSUME t \in Window PROVE t # w /\ win[t].swallowing # w /\ t \in Elements(windows)
    BY <1>1 DEF EndLinks
  <2>1. win[t].swallowed /\ t # w /\ win[t].swallowing # w
    BY <1>2
  <2>2. LinksOf(win[t]) # LinksOf(NewWindow)
    BY <2>1 DEF LinksOf, NewWindow
  <2> QED
    BY <2>1, <2>2 DEF HideInv, UnlistedUnlinked
<1> HIDE DEF t
<1>5. ASSUME NEW v \in Window \ {w}
      PROVE  /\ win'[v].swallowing = IF win[v].swallowing = w THEN None ELSE win[v].swallowing
             /\ v # t => win'[v].swallowed = win[v].swallowed
  <2>1. win[v].swallowing = w => win[w].swallowed
    BY <1>2
  <2>2. CASE v = t
    BY <1>1, <1>4, <2>2 DEF EndLinks
  <2>3. CASE v # t
    BY <1>1, <2>1, <2>3 DEF EndLinks
  <2> QED
    BY <2>2, <2>3
<1>6. win'[w].swallowing = None
  BY <1>1, NewWindowUnlinked DEF EndLinks
<1>7. UnlistedUnlinked'
  <2> SUFFICES ASSUME NEW v \in Window \ Elements(windows')
               PROVE  LinksOf(win'[v]) = LinksOf(NewWindow)
    BY DEF UnlistedUnlinked
  <2>1. CASE v = w
    BY <1>1, <2>1 DEF EndLinks
  <2>2. CASE v # w
    <3>1. v \notin Elements(windows) /\ v # t
      BY <1>1, <1>4, <2>2 DEF EndLinks
    <3>2. LinksOf(win[v]) = LinksOf(NewWindow)
      BY <3>1 DEF HideInv, UnlistedUnlinked
    <3>3. win[v].swallowing = None
      BY <3>2, LinksAlike, NewWindowUnlinked
    <3>4. /\ win'[v].swallowing = win[v].swallowing /\ win'[v].swallowed = win[v].swallowed
      BY <1>5, <2>2, <3>1, <3>3, WindowAssumption
    <3>5. /\ win'[v].named = win[v].named /\ win'[v].scratch = win[v].scratch
          /\ win'[v].rulesApplied = win[v].rulesApplied
      BY <1>1, <2>2 DEF EndLinks
    <3> QED
      BY <3>2, <3>4, <3>5 DEF LinksOf
  <2> QED
    BY <2>1, <2>2
<1>8. LinksHide'
  <2> SUFFICES ASSUME NEW c \in Window, win'[c].swallowing # None
               PROVE  /\ win'[c].swallowing \in Elements(Lineage[c])
                      /\ win'[win'[c].swallowing].swallowed
                      /\ \A d \in Window : win'[d].swallowing = win'[c].swallowing => d = c
    BY DEF LinksHide
  <2>1. c # w /\ win'[c].swallowing = win[c].swallowing /\ win[c].swallowing # w
    BY <1>5, <1>6
  <2>2. win[c].swallowing \in Elements(Lineage[c]) /\ win[win[c].swallowing].swallowed
    BY <2>1 DEF HideInv, LinksHide
  <2>3. win[c].swallowing \in Window /\ win[c].swallowing # t
    BY <1>3, <2>1, <2>2, AncestorsAreWindows
  <2>4. win'[win[c].swallowing].swallowed
    BY <1>5, <2>1, <2>2, <2>3
  <2>5. \A d \in Window : win'[d].swallowing = win[c].swallowing => d = c
    BY <1>5, <1>6, <2>1 DEF HideInv, LinksHide
  <2> QED
    BY <2>1, <2>2, <2>4, <2>5
<1> QED
  BY <1>7, <1>8 DEF HideInv

\* A late parent moves no link.
LEMMA ParentHides ==
    ASSUME Known, HideInv, NEW w \in Window, ParentChanged(w)
    PROVE  HideInv'
<1>1. UnlistedUnlinked'
  <2> SUFFICES ASSUME NEW v \in Window \ Elements(windows)
               PROVE  LinksOf(win'[v]) = LinksOf(NewWindow)
    BY ParentChanges DEF UnlistedUnlinked
  <2>1. win'[v] = win[v]
    BY ParentChanges
  <2> QED
    BY <2>1 DEF HideInv, UnlistedUnlinked
<1>2. \A v \in Window : win'[v].swallowing = win[v].swallowing /\ win'[v].swallowed = win[v].swallowed
  BY ParentChanges
<1>3. LinksHide'
  BY <1>2, LinksToWindows DEF HideInv, LinksHide
<1> QED
  BY <1>1, <1>3 DEF HideInv

LEMMA HideStep ==
    ASSUME Known, HideInv, [Next]_vars
    PROVE  HideInv'
<1>1. ASSUME Ordinary PROVE HideInv'
  BY <1>1, HidesStay DEF Ordinary
<1>2. CASE UNCHANGED vars
  <2>1. Ordinary
    BY <1>2, OnlyRaises DEF vars
  <2> QED
    BY <1>1, <2>1
<1>3. CASE Hotplugged
  BY <1>3, HotplugLinks, HidesStay
<1>4. CASE \E w \in Window : NewToplevel(w)
  BY <1>4, NewWindowLinks, HidesStay DEF HideInv
<1>5. CASE \E w \in Window : CommitFirst(w) \/ Destroy(w) \/ ParentChanged(w)
  BY <1>5, CommitHides, EndHides, ParentHides
<1> QED
  BY <1>1, <1>2, <1>3, <1>4, <1>5, OrdinarySteps

LEMMA InitHides == Init => HideInv
<1> SUFFICES ASSUME Init PROVE HideInv
  OBVIOUS
<1>1. Elements(windows) = {} /\ \A v \in Window : win[v] = NewWindow
  BY DEF Init, Elements
<1> QED
  BY <1>1, NewWindowUnlinked DEF HideInv, UnlistedUnlinked, LinksHide

LEMMA HidesInvariant == Spec => []HideInv
<1>1. IInv /\ HideInv /\ [Next]_vars => HideInv'
  BY HideStep DEF IInv
<1> QED
  BY <1>1, InitHides, Invariance, PTL DEF Spec

-----------------------------------------------------------------------------
(***************************************************************************)
(* The window a terminal comes back for.                                   *)
(***************************************************************************)

\* Only toplevel_destroyed takes a window off the list.
LEMMA OnlyDestroyUnlists ==
    ASSUME Known, [Next]_vars, NEW c \in Elements(windows), c \notin Elements(windows')
    PROVE  c \in Window /\ Destroy(c)
<1>1. c \in Window
  BY KnownTypes
<1>2. ~Ordinary /\ ~(UNCHANGED windows)
  BY DEF Ordinary
<1>3. ~Hotplugged
  BY <1>2 DEF Hotplugged, OutputAdded, OutputRemoved
<1>4. PICK w \in Window : NewToplevel(w) \/ CommitFirst(w) \/ Destroy(w) \/ ParentChanged(w)
  BY <1>2, <1>3, OrdinarySteps
<1>5. ~CommitFirst(w) /\ ~ParentChanged(w)
  <2>1. ~ParentChanged(w)
    BY <1>2 DEF ParentChanged
  <2>2. CommitFirst(w) => UNCHANGED windows
    BY FirstCommits, Zenon DEF CommitRuled
  <2> QED
    BY <1>2, <2>1, <2>2
<1>6. ~NewToplevel(w)
  BY NewWindowListed
<1>7. Destroy(w)
  BY <1>4, <1>5, <1>6
<1>8. Elements(windows') = Elements(windows) \ {w}
  BY <1>7, DestroyShape DEF DestroyedLists
<1> QED
  BY <1>1, <1>7, <1>8

\* A terminal has its rules from the moment it has a name, and only a window with a name
\* is taken for a terminal (find_target).
TermInv ==
    \A t \in Terminals : (win[t].named => win[t].rulesApplied) /\ (win[t].swallowed => win[t].named)

LEMMA LateParentTerminals ==
    ASSUME Known, TermInv, NEW w \in Window \ Terminals, ParentChanged(w)
    PROVE  TermInv'
<1>1. \A v \in Terminals : v \in Window /\ win'[v] = win[v]
  BY ParentChanges DEF Terminals
<1> QED
  BY <1>1 DEF TermInv, Terminals

LEMMA TermStep ==
    ASSUME Known, HideInv, TermInv, [Next]_vars,
           [\A w \in Terminals : ~ParentChanged(w)]_vars
    PROVE  TermInv'
<1>1. ASSUME \A v \in Window : LinksOf(win'[v]) = LinksOf(win[v]) PROVE TermInv'
  BY <1>1, LinksEqual DEF TermInv, Terminals
<1>2. ASSUME NEW w \in Window, CommitFirst(w) PROVE TermInv'
  <2> DEFINE t == SwallowTarget(w)
  <2>1. CommitLinks(w, t)
    BY <1>2, FirstCommitStates
  <2> HIDE DEF t
  <2> SUFFICES ASSUME NEW v \in Terminals
               PROVE  (win'[v].named => win'[v].rulesApplied) /\ (win'[v].swallowed => win'[v].named)
    BY DEF TermInv, Terminals
  <2>2. v \in Window
    BY DEF Terminals
  <2>3. v = t => win[v].named
    BY <2>1, <2>2, WindowAssumption DEF CommitLinks
  <2>4. CASE v = w
    BY <2>1, <2>4 DEF CommitLinks
  <2>5. CASE v # w
    BY <2>1, <2>2, <2>3, <2>5 DEF CommitLinks, TermInv
  <2> QED
    BY <2>4, <2>5
<1>3. ASSUME NEW w \in Window, Destroy(w) PROVE TermInv'
  <2> DEFINE t == win[w].swallowing
  <2>1. EndLinks(w, t)
    BY <1>3, EndStates
  <2> HIDE DEF t
  <2> SUFFICES ASSUME NEW v \in Terminals
               PROVE  (win'[v].named => win'[v].rulesApplied) /\ (win'[v].swallowed => win'[v].named)
    BY DEF TermInv, Terminals
  <2>2. CASE v = w
    BY <2>1, <2>2, NewWindowUnlinked DEF EndLinks
  <2>3. CASE v # w
    BY <2>1, <2>3 DEF EndLinks, TermInv, Terminals
  <2> QED
    BY <2>2, <2>3
<1>4. CASE UNCHANGED vars
  BY <1>1, <1>4 DEF vars
<1>5. CASE \A w \in Terminals : ~ParentChanged(w)
  BY <1>1, <1>2, <1>3, <1>5, OrdinarySteps, HotplugLinks, NewWindowLinks, LateParentTerminals
     DEF Ordinary, HideInv
<1> QED
  BY <1>4, <1>5

LEMMA TerminalsRuled ==
    Spec /\ NoLateParent(Terminals) => [](HideInv /\ TermInv)
<1>1. Init => HideInv /\ TermInv
  <2> SUFFICES ASSUME Init PROVE TermInv
    BY InitHides
  <2>1. \A v \in Window : win[v] = NewWindow
    BY DEF Init
  <2> QED
    BY <2>1, NewWindowUnlinked DEF TermInv, Terminals
<1>2. IInv /\ HideInv /\ TermInv /\ [Next]_vars
        /\ [\A w \in Terminals : ~ParentChanged(w)]_vars
      => (HideInv /\ TermInv)'
  BY HideStep, TermStep DEF IInv
<1> QED
  BY <1>1, <1>2, Invariance, PTL DEF Spec, NoLateParent

\* When the child of a hidden terminal closes, the terminal takes its place: its tags and
\* its monitor, its place on screen, and the keyboard unless the session is locked
\* (on_unmap, toplevel_destroyed).  With auto_back_empty_tag the view may change before the
\* terminal is back, and then it need not be on screen.
THEOREM TerminalsRestored ==
    ASSUME ~AutoBack
    PROVE  Spec /\ NoLateParent(Terminals) => ClosingChildRestoresTerminal
<1> DEFINE A == \A c \in Elements(windows), t \in Elements(windows) :
                   c \notin Elements(windows') /\ win[c].swallowing = t =>
                       /\ ~win'[t].swallowed
                       /\ win'[t].tags = win[c].tags /\ win'[t].mon = win[c].mon
                       /\ c \in space /\ monitors # <<>> => t \in space'
                       /\ locked = "no" => focus' = t
<1>1. IInv /\ SpaceInv /\ SpaceInv' /\ HideInv /\ TermInv /\ [Next]_vars => A
  <2> SUFFICES ASSUME IInv, SpaceInv, SpaceInv', HideInv, TermInv, [Next]_vars,
                      NEW c \in Elements(windows), NEW t \in Elements(windows),
                      c \notin Elements(windows'), win[c].swallowing = t
               PROVE  /\ ~win'[t].swallowed
                      /\ win'[t].tags = win[c].tags /\ win'[t].mon = win[c].mon
                      /\ c \in space /\ monitors # <<>> => t \in space'
                      /\ locked = "no" => focus' = t
    BY Zenon
  <2>1. Known /\ c \in Window /\ t \in Window /\ Destroy(c)
    BY OnlyDestroyUnlists, KnownTypes DEF IInv
  <2>2. PICK top : DestroyedLists(c, top)
    BY <2>1, DestroyShape
  <2>3. t # c
    BY <2>1, LinksAcyclic
  <2>4. t \in Elements(windows') /\ win' = Unswallowed(c, windows')
    BY <2>2, <2>3 DEF DestroyedLists
  <2>5. /\ ~win'[t].swallowed /\ win'[t].tags = win[c].tags /\ win'[t].mon = win[c].mon
        /\ win'[t].rulesApplied = win[t].rulesApplied
    BY <2>1, <2>3, <2>4, DestroyedStates
  <2>6. win[t].rulesApplied
    <3>1. win[t].swallowed
      BY <2>1, LinksAcyclic
    <3>2. t \in Elements(Lineage[c])
      BY <2>1, WindowAssumption DEF HideInv, LinksHide
    <3> QED
      BY <2>1, <3>1, <3>2 DEF TermInv, Terminals
  <2>7. c \in space /\ monitors # <<>> => t \in space'
    <3>1. monitors' = monitors
      BY <2>2 DEF DestroyedLists
    <3>2. c \in space /\ monitors # <<>> => Seen(win, monitors, c)
      BY DEF SpaceInv, SpaceShows
    <3> QED
      BY <2>4, <2>5, <2>6, <3>1, <3>2 DEF SpaceInv, SpaceShows, Seen
  <2>8. locked = "no" => focus' = t
    BY <2>2, <2>4 DEF DestroyedLists
  <2> QED
    BY <2>5, <2>7, <2>8
<1>2. IInv /\ SpaceInv /\ SpaceInv' /\ HideInv /\ TermInv /\ [Next]_vars => [A]_vars
  BY <1>1
<1> QED
  BY <1>2, TerminalsRuled, SpaceInvariant, Invariance, PTL DEF Spec, ClosingChildRestoresTerminal

-----------------------------------------------------------------------------
(***************************************************************************)
(* Auto-back finds windows, for a window that closes without bringing a    *)
(* terminal back: on_window_closed runs before the swallow link is undone, *)
(* and counts the terminal where it was hidden, not where it comes back.   *)
(***************************************************************************)

NoChildCloses == [][\A w \in Window : Destroy(w) => win[w].swallowing = None]_vars

\* The target of auto-back shows a window of the monitor, if any has a tag.
LEMMA AutoBackOccupied ==
    ASSUME Known, NEW ws \in Seq(Window), NEW i \in DOMAIN monitors, NEW left,
           NEW v \in Elements(ws), win[v].mon = i, win[v].tags # {}
    PROVE  OccupiedOn(ws, i, AutoBackTarget(ws, i, left))
<1> DEFINE shown == TagsOf(monitors[i])
           occupied == {k \in TagSets : OccupiedOn(ws, i, k)}
           past == LastIn(Without(tagHistory[i], shown), occupied, {})
           prev == PreviousTagsOf(monitors[i])
           T == {u \in Window : win[u].mon = i /\ win[u].tags # {}}
           any == FirstIn(ws, T, None)
<1>1. Without(tagHistory[i], shown) \in Seq(Views)
  BY MonitorShows, HistoryForgets DEF Known, Histories
<1>2. past # {} => past \in occupied
  <2> HIDE DEF occupied
  <2> QED
    BY <1>1, LastInFinds
<1>3. any \in Elements(ws) /\ any \in T
  <2>1. v \in T
    BY ElementsOf
  <2> HIDE DEF T
  <2> QED
    BY <2>1, FirstInHits
<1>4. any # None
  BY <1>3, ElementsOf, WindowAssumption
<1>5. OccupiedOn(ws, i, win[any].tags)
  BY <1>3 DEF OccupiedOn
<1>6. AutoBackTarget(ws, i, left) =
         IF left # None /\ left \in occupied \ {shown} THEN left
         ELSE IF past # {} THEN past
         ELSE IF prev \in occupied \ {shown} THEN prev
         ELSE IF any # None THEN win[any].tags
         ELSE shown
  BY DEF AutoBackTarget
<1>7. \A k \in occupied : OccupiedOn(ws, i, k)
  OBVIOUS
<1> HIDE DEF occupied, past, prev, any, shown
<1> QED
  BY <1>2, <1>4, <1>5, <1>6, <1>7

LEMMA ReassignedTags ==
    ASSUME NEW m \in ShowingMonitors, NEW shown
    PROVE  TagsOf(Reassigned(m, shown)) = shown
BY DEF TagsOf, Reassigned, ShowingMonitors

LEMMA ClosingFindsWindows ==
    ASSUME Known, NEW w \in Window, Destroy(w), win[w].swallowing = None,
           AutoBack, win[w].bufferMapped, ~win[w].floating, win[w].mon \in DOMAIN monitors,
           NEW u \in Elements(windows'), win[u].mon = win[w].mon, win[u].tags # {}
    PROVE  \E v \in Elements(windows') : v \in OwnedBy(win', monitors', win[w].mon)
<1> DEFINE i == win[w].mon
           ws == Without(windows, w)
           target == AutoBackTarget(ws, i, win[w].switchToTag)
           m == Reassigned(monitors[i], target)
<1>1. /\ windows' = ws /\ win' = Unswallowed(w, ws)
      /\ monitors' = IF AutoBacks(w, ws) THEN MonitorsWith(i, m) ELSE monitors
  BY Zenon DEF Destroy
<1>2. ws \in Seq(Window) /\ Elements(ws) = Elements(windows) \ {w}
  BY WithoutElements DEF Known, ListInv, Sound
<1>3. i \in DOMAIN monitors /\ monitors[i] \in ShowingMonitors /\ TagsOf(monitors[i]) # {}
  BY MonitorShows DEF Known, Views
<1> HIDE DEF ws
<1>4. \A v \in Elements(ws) : /\ v \in Window \ {w}
                             /\ win'[v].tags = win[v].tags /\ win'[v].mon = win[v].mon
  <2>1. \A v \in Elements(ws) : v \in Window \ {w} /\ v # win[w].swallowing
    BY <1>2, KnownTypes, WindowAssumption
  <2> QED
    BY <1>1, <2>1, DestroyedStates
<1>5. \E k : OccupiedOn(ws, i, k) /\ ShownTags(monitors', i) = k
  <2>1. CASE AutoBacks(w, ws)
    <3>1. OccupiedOn(ws, i, target)
      BY <1>1, <1>2, <1>3, AutoBackOccupied
    <3>2. TagsOf(m) = target
      <4> HIDE DEF target
      <4> QED
        BY <1>3, ReassignedTags
    <3> HIDE DEF m, target
    <3>3. i \in DOMAIN monitors' /\ monitors'[i] = m
      BY <1>1, <1>3, <2>1, KnownTypes DEF MonitorsWith
    <3> QED
      BY <3>1, <3>2, <3>3 DEF ShownTags
  <2>2. CASE ~AutoBacks(w, ws)
    <3>1. OccupiedOn(ws, i, ShownTags(monitors, i))
      BY <1>3, <2>2 DEF AutoBacks, ShownTags
    <3> QED
      BY <1>1, <2>2, <3>1
  <2> QED
    BY <2>1, <2>2
<1> HIDE DEF target, m
<1> QED
  BY <1>1, <1>4, <1>5 DEF OccupiedOn, OwnedBy

\* A tiled window that closes as the last one of its view leaves a view with windows in it,
\* whatever the history, the slots and the view recorded at spawn hold, if its monitor has a
\* window with a tag at all (auto_back_empty_tag::on_window_closed).
THEOREM AutoBackLeavesEmptyView == Spec /\ NoChildCloses => AutoBackFindsWindows
<1> DEFINE A == \A w \in Elements(windows) :
                   LET i == win[w].mon
                   IN  /\ w \notin Elements(windows')
                       /\ AutoBack /\ win[w].bufferMapped /\ ~win[w].floating
                       /\ i \in DOMAIN monitors
                       /\ \E v \in Elements(windows') : win[v].mon = i /\ win[v].tags # {}
                       => \E v \in Elements(windows') : v \in OwnedBy(win', monitors', i)
<1>1. IInv /\ [Next]_vars /\ [\A w \in Window : Destroy(w) => win[w].swallowing = None]_vars => [A]_vars
  <2> SUFFICES ASSUME IInv, [Next]_vars, \A w \in Window : Destroy(w) => win[w].swallowing = None
               PROVE  A
    OBVIOUS
  <2> SUFFICES ASSUME NEW w \in Elements(windows), w \notin Elements(windows'),
                      AutoBack, win[w].bufferMapped, ~win[w].floating,
                      win[w].mon \in DOMAIN monitors,
                      NEW u \in Elements(windows'), win[u].mon = win[w].mon, win[u].tags # {}
               PROVE  \E v \in Elements(windows') : v \in OwnedBy(win', monitors', win[w].mon)
    BY Zenon
  <2>1. Known /\ w \in Window /\ Destroy(w)
    BY OnlyDestroyUnlists DEF IInv
  <2> QED
    BY <2>1, ClosingFindsWindows
<1> QED
  BY <1>1, Invariance, PTL DEF Spec, NoChildCloses, AutoBackFindsWindows

-----------------------------------------------------------------------------
(***************************************************************************)
(* Where the keyboard goes.  A handler hands it to focused_window(), to a  *)
(* window the binding or the device picked, to a scratchpad it shows, or   *)
(* to the terminal that comes back.                                        *)
(***************************************************************************)

\* A window that a monitor owns and shows is seen.
LEMMA OwnedSeen ==
    ASSUME NEW wn, NEW ms, NEW sel, NEW v \in OwnedBy(wn, ms, sel)
    PROVE  v \in Window /\ wn[v].mon = sel /\ Seen(wn, ms, v)
BY DEF OwnedBy, ShownTags, Seen, AllVisible

\* What the end of toplevel_destroyed gives the keyboard to, from the stack and the
\* selection that auto-back left.
ClosedFocus(w, stack, sel, top) ==
    /\ Sound(windows', stack, {}) /\ top \in Elements(windows') \cup {None}
    /\ \/ top = win[w].swallowing /\ top \in Elements(windows')
       \/ top \in OwnedBy(win', monitors', sel)
       \/ top = FocusedIn(stack, win', monitors', sel)
    /\ focusStack' = StackAfter(stack, top)
    /\ selMon' = SelectedAfter(stack, win', sel, top)
    /\ IF locked = "no" THEN focus' = top ELSE focus' \in {None, focus}

LEMMA DestroyFocuses ==
    ASSUME Known, NEW w \in Window, Destroy(w)
    PROVE  \E stack, sel, top : ClosedFocus(w, stack, sel, top)
<1> DEFINE ws == Without(windows, w)
           rest == Without(focusStack, w)
           t == win[w].swallowing
           restored == IF t \in Elements(ws) THEN t ELSE None
           i == win[w].mon
           backs == AutoBacks(w, ws)
           ms == IF backs
                 THEN MonitorsWith(i, Reassigned(monitors[i],
                                                 AutoBackTarget(ws, i, win[w].switchToTag)))
                 ELSE monitors
           moved == backs /\ ms # monitors
           refocused == FocusedIn(rest, win, ms, selMon)
           stack == IF moved THEN StackAfter(rest, refocused) ELSE rest
           sel == IF moved THEN SelectedAfter(rest, win, selMon, refocused) ELSE selMon
           final == Unswallowed(w, ws)
           master(tiling) == IF tiling /\ win[w].bufferMapped
                             THEN TileMaster(ws, final, ms, sel) ELSE None
           topWhen(tiling) == IF restored # None THEN restored
                              ELSE IF master(tiling) # None THEN master(tiling)
                              ELSE FocusedIn(stack, final, ms, sel)
<1>1. PICK tiling \in BOOLEAN :
         /\ windows' = ws /\ win' = final /\ monitors' = ms
         /\ focusStack' = StackAfter(stack, topWhen(tiling))
         /\ selMon' = SelectedAfter(stack, final, sel, topWhen(tiling))
         /\ focus' = IF locked = "no" THEN topWhen(tiling)
                     ELSE IF focus = w THEN None ELSE focus
  BY ZenonT(60) DEF Destroy
<1> DEFINE top == topWhen(tiling)
<1>2. /\ windows' = ws /\ win' = final /\ monitors' = ms
      /\ focusStack' = StackAfter(stack, top)
      /\ selMon' = SelectedAfter(stack, final, sel, top)
      /\ IF locked = "no" THEN focus' = top ELSE focus' \in {None, focus}
  BY <1>1
<1>3. Sound(ws, rest, {})
  <2>1. windows \in Seq(Window) /\ Distinct(windows) /\ focusStack \in Seq(Window)
        /\ Distinct(focusStack) /\ Elements(focusStack) \subseteq Elements(windows)
    BY DEF Known, ListInv, Sound
  <2>2. ws \in Seq(Window) /\ Distinct(ws) /\ Elements(ws) = Elements(windows) \ {w}
    BY <2>1, WithoutElements
  <2>3. rest \in Seq(Window) /\ Distinct(rest) /\ Elements(rest) = Elements(focusStack) \ {w}
    BY <2>1, WithoutElements
  <2> HIDE DEF ws, rest
  <2> QED
    BY <2>1, <2>2, <2>3 DEF Sound
<1>4. Sound(ws, stack, {})
  <2> HIDE DEF ws, rest, ms
  <2>1. refocused \in Elements(ws) \cup {None}
    BY <1>3, FocusedListed
  <2>2. Sound(ws, StackAfter(rest, refocused), {})
    <3> HIDE DEF refocused
    <3> QED
      BY <1>3, <2>1, StackAfterSound
  <2> HIDE DEF refocused, moved
  <2> QED
    BY <1>3, <2>2
<1>5. None \notin Elements(ws)
  <2> HIDE DEF ws
  <2>1. Elements(ws) \subseteq Window
    BY <1>3, ElementsOf DEF Sound
  <2> QED
    BY <2>1, WindowAssumption
<1>6. \/ TileMaster(ws, final, ms, sel) = None
      \/ TileMaster(ws, final, ms, sel) \in Elements(ws) \cap OwnedBy(final, ms, sel)
  <2> DEFINE T == {v \in OwnedBy(final, ms, sel) :
                       final[v].rulesApplied /\ ~final[v].floating /\ ~final[v].fullscreen}
  <2>1. TileMaster(ws, final, ms, sel) = FirstIn(ws, T, None) /\ T \subseteq OwnedBy(final, ms, sel)
    BY DEF TileMaster
  <2> HIDE DEF T, ws, final, ms, sel
  <2>2. FirstIn(ws, T, None) = None \/ FirstIn(ws, T, None) \in Elements(ws) \cap T
    BY <1>3, FirstInFinds DEF Sound
  <2> QED
    BY <2>1, <2>2
<1>7. FocusedIn(stack, final, ms, sel) \in Elements(ws) \cup {None}
  <2> HIDE DEF stack, ws, final, ms, sel
  <2> QED
    BY <1>4, FocusedListed
<1> HIDE DEF stack, ws, final, ms, sel, t
<1>8. /\ top \in Elements(ws) \cup {None}
      /\ \/ top = t /\ top \in Elements(ws)
         \/ top \in OwnedBy(final, ms, sel)
         \/ top = FocusedIn(stack, final, ms, sel)
  <2>1. CASE t \in Elements(ws)
    <3>1. restored = t /\ restored # None
      BY <1>5, <2>1
    <3>2. top = t
      BY <3>1
    <3> QED
      BY <2>1, <3>2
  <2>2. CASE t \notin Elements(ws)
    <3>1. restored = None
      BY <2>2
    <3>2. \/ top = TileMaster(ws, final, ms, sel) /\ top # None
          \/ top = FocusedIn(stack, final, ms, sel)
      BY <3>1
    <3> HIDE DEF top
    <3> QED
      BY <1>6, <1>7, <2>2, <3>2
  <2> QED
    BY <2>1, <2>2
<1> HIDE DEF top
<1>9. ClosedFocus(w, stack, sel, top)
  BY <1>2, <1>4, <1>8 DEF ClosedFocus, t
<1> QED
  BY <1>9, Zenon

\* focus_window on focused_window(), or on another window that the monitor of that
\* selection owns and shows, with what the handler leaves behind.
FocusedOn ==
    \E stack, sel, w :
        /\ Sound(windows', stack, {})
        /\ w \in Elements(windows') \cup {None}
        /\ w \in OwnedBy(win', monitors', sel) \/ w = FocusedIn(stack, win', monitors', sel)
        /\ focusStack' = StackAfter(stack, w)
        /\ selMon' = SelectedAfter(stack, win', sel, w)
        /\ IF locked = "no" THEN focus' = w ELSE focus' \in {None, focus}

\* The keyboard is left, taken away, or given to a window that is seen.
Handed ==
    \/ focus' \in {None, focus}
    \/ focus' \in Elements(windows') /\ Seen(win', monitors', focus')

LEMMA FocusedHands == FocusedOn => Handed
<1> SUFFICES ASSUME FocusedOn PROVE Handed
  OBVIOUS
<1>1. PICK stack, sel, w :
         /\ Sound(windows', stack, {})
         /\ w \in Elements(windows') \cup {None}
         /\ w \in OwnedBy(win', monitors', sel) \/ w = FocusedIn(stack, win', monitors', sel)
         /\ IF locked = "no" THEN focus' = w ELSE focus' \in {None, focus}
  BY DEF FocusedOn
<1>2. \/ FocusedIn(stack, win', monitors', sel) = None
      \/ FocusedIn(stack, win', monitors', sel) \in OwnedBy(win', monitors', sel)
  BY <1>1, FocusedStacked DEF Sound
<1>3. w = None \/ Seen(win', monitors', w)
  BY <1>1, <1>2, OwnedSeen
<1> QED
  BY <1>1, <1>3 DEF Handed

\* A member of the kind at the head of a list is its first one.
LEMMA FirstInHead ==
    ASSUME NEW S, NEW s \in Seq(S), NEW T, NEW none, s # <<>>, s[1] \in T
    PROVE  FirstIn(s, T, none) = s[1]
<1> DEFINE hits == {i \in DOMAIN s : s[i] \in T}
           p == CHOOSE i \in hits : \A j \in hits : i <= j
<1>1. DOMAIN s = 1 .. Len(s) /\ Len(s) \in Nat /\ Len(s) # 0
  BY EmptySeq, LenProperties
<1>2. 1 \in hits /\ \A j \in hits : 1 <= j
  BY <1>1
<1>3. p \in hits /\ p <= 1
  <2>1. \E i \in hits : \A j \in hits : i <= j
    BY <1>2
  <2>2. p \in hits /\ \A j \in hits : p <= j
    BY <2>1
  <2> QED
    BY <1>2, <2>2
<1>4. p = 1
  BY <1>1, <1>3
<1>5. FirstIn(s, T, none) = s[p]
  BY <1>2 DEF FirstIn
<1> QED
  BY <1>4, <1>5

\* What is raised is on top.
LEMMA RaiseHead ==
    ASSUME NEW S, NEW s \in Seq(S), NEW e \in S, Distinct(s)
    PROVE  Raise(s, e) \in Seq(S) /\ Raise(s, e) # <<>> /\ Raise(s, e)[1] = e
<1> DEFINE r == Without(s, e)
           t == <<e>> \o r
<1>1. r \in Seq(S)
  BY WithoutElements
<1> HIDE DEF r
<1>2. <<e>> \in Seq(S) /\ Len(<<e>>) = 1 /\ <<e>>[1] = e
  OBVIOUS
<1>3. t \in Seq(S) /\ Len(t) = Len(r) + 1 /\ t[1] = e /\ Len(r) \in Nat
  BY <1>1, <1>2, ConcatProperties, LenProperties
<1>4. t # <<>>
  <2> HIDE DEF t
  <2> QED
    BY <1>3
<1> QED
  BY <1>3, <1>4 DEF Raise, r, t

\* focused_window() is the window that focus_window raised, on the monitor it selects.
LEMMA FocusAgrees ==
    ASSUME NEW ws, NEW stack, Sound(ws, stack, {}), NEW wn, NEW ms, NEW sel,
           NEW w \in Elements(ws) \cup {None},
           w \in OwnedBy(wn, ms, sel) \/ w = FocusedIn(stack, wn, ms, sel)
    PROVE  FocusedIn(StackAfter(stack, w), wn, ms, SelectedAfter(stack, wn, sel, w)) = w
<1>1. CASE w = None
  <2>1. w \notin OwnedBy(wn, ms, sel)
    BY <1>1, WindowAssumption DEF OwnedBy
  <2> QED
    BY <1>1, <2>1 DEF StackAfter, SelectedAfter
<1>2. CASE w # None
  <2>1. w \in OwnedBy(wn, ms, sel)
    BY <1>2, FocusedStacked DEF Sound
  <2>2. SelectedAfter(stack, wn, sel, w) = sel
    BY <2>1 DEF SelectedAfter, OwnedBy
  <2>3. w \in Window
    BY <2>1, OwnedSeen
  <2>4. /\ Raise(stack, w) \in Seq(Window) /\ Raise(stack, w) # <<>>
        /\ Raise(stack, w)[1] = w
    BY <2>3, RaiseHead DEF Sound
  <2>5. StackAfter(stack, w) = Raise(stack, w)
    BY <1>2 DEF StackAfter
  <2>6. FirstIn(Raise(stack, w), OwnedBy(wn, ms, sel), None) = w
    BY <2>1, <2>4, FirstInHead
  <2> QED
    BY <2>2, <2>5, <2>6 DEF FocusedIn
<1> QED
  BY <1>1, <1>2

LEMMA FocusedAgrees ==
    FocusedOn => (locked = "no" => focus' = FocusedIn(focusStack', win', monitors', selMon'))
<1> SUFFICES ASSUME FocusedOn, locked = "no"
             PROVE  focus' = FocusedIn(focusStack', win', monitors', selMon')
  OBVIOUS
<1>1. PICK stack, sel, w :
         /\ Sound(windows', stack, {})
         /\ w \in Elements(windows') \cup {None}
         /\ w \in OwnedBy(win', monitors', sel) \/ w = FocusedIn(stack, win', monitors', sel)
         /\ focusStack' = StackAfter(stack, w)
         /\ selMon' = SelectedAfter(stack, win', sel, w)
         /\ focus' = w
  BY DEF FocusedOn
<1> QED
  BY <1>1, FocusAgrees

LEMMA WindowFocused ==
    ASSUME NEW stack, Sound(windows', stack, {}), NEW wn, win' = wn, NEW sel,
           NEW w \in Elements(windows') \cup {None},
           w \in OwnedBy(wn, monitors', sel) \/ w = FocusedIn(stack, wn, monitors', sel),
           FocusWindow(stack, wn, sel, w)
    PROVE  FocusedOn
<1>1. /\ focusStack' = StackAfter(stack, w)
      /\ selMon' = SelectedAfter(stack, wn, sel, w)
      /\ IF locked = "no" THEN focus' = w ELSE focus' \in {None, focus}
  BY DEF FocusWindow, FocusAfter
<1>2. \E s, i, v :
        /\ Sound(windows', s, {})
        /\ v \in Elements(windows') \cup {None}
        /\ v \in OwnedBy(wn, monitors', i) \/ v = FocusedIn(s, wn, monitors', i)
        /\ focusStack' = StackAfter(s, v)
        /\ selMon' = SelectedAfter(s, wn, i, v)
        /\ IF locked = "no" THEN focus' = v ELSE focus' \in {None, focus}
  BY <1>1, Zenon
<1> QED
  BY <1>2 DEF FocusedOn

LEMMA SettledOn ==
    ASSUME NEW stack, Sound(windows', stack, {}), NEW wn, win' = wn, NEW sel,
           FocusWindow(stack, wn, sel, FocusedIn(stack, wn, monitors', sel))
    PROVE  FocusedOn
<1>1. FocusedIn(stack, wn, monitors', sel) \in Elements(windows') \cup {None}
  BY FocusedListed
<1> QED
  BY <1>1, WindowFocused

\* The window FocusStack steps to belongs to the selected monitor.
LEMMA FocusStepOwned ==
    ASSUME windows \in Seq(Window), NEW forward \in BOOLEAN, FocusStep(forward) # None
    PROVE  /\ FocusStep(forward) \in Elements(windows)
           /\ FocusStep(forward) \in OwnedBy(win, monitors, selMon)
<1> DEFINE on == {i \in DOMAIN windows :
                      windows[i] \in OwnedBy(win, monitors, selMon)
                        /\ win[windows[i]].rulesApplied}
           cur == {i \in on : windows[i] = FocusedWindow}
           after == {i \in on : \A c \in cur : i > c}
           before == {i \in on : \A c \in cur : i < c}
           ahead == IF forward THEN after ELSE before
           c == IF ahead # {} /\ cur # {} THEN ahead ELSE on
           first == CHOOSE i \in c : \A j \in c : i <= j
           last == CHOOSE i \in c : \A j \in c : j <= i
<1>1. FocusStep(forward) = IF on = {} THEN None
                           ELSE IF forward THEN windows[first] ELSE windows[last]
  BY DEF FocusStep
<1>2. on \in SUBSET (1 .. Len(windows)) /\ DOMAIN windows = 1 .. Len(windows)
      /\ \A i \in on : windows[i] \in OwnedBy(win, monitors, selMon)
  OBVIOUS
<1>3. c \in SUBSET on /\ (on # {} => c # {})
  OBVIOUS
<1> HIDE DEF on, c
<1>4. on # {}
  BY <1>1
<1>5. first \in c /\ last \in c
  <2>1. c \in SUBSET (1 .. Len(windows)) /\ c \in SUBSET Nat /\ c # {} /\ Len(windows) \in Nat
    BY <1>2, <1>3, <1>4
  <2> QED
    BY <2>1, FirstPosition, LastPosition
<1> HIDE DEF first, last
<1>6. \E i \in on : FocusStep(forward) = windows[i]
  BY <1>1, <1>3, <1>4, <1>5
<1> QED
  BY <1>2, <1>6 DEF Elements

\* So does the window Zoom promotes.
LEMMA ZoomOwned ==
    ASSUME Known, Zoom
    PROVE  \E p \in Elements(windows) \cap OwnedBy(win, monitors, selMon) :
               FocusWindow(focusStack, win, selMon, p)
<1> DEFINE f == FocusedWindow
           tiled == {w \in OwnedBy(win, monitors, selMon) :
                         ~win[w].floating /\ win[w].rulesApplied}
           c == FirstIn(windows, tiled \ {f}, None)
           promoted == IF FirstIn(windows, tiled, None) = f THEN c ELSE f
<1>1. /\ f # None /\ c # None
      /\ FocusWindow(focusStack, win, selMon, promoted)
  BY DEF Zoom
<1>2. f \in Elements(windows) \cap OwnedBy(win, monitors, selMon)
  <2>1. f \in Elements(windows)
    BY <1>1, FocusedListed DEF FocusedWindow, Known, ListInv
  <2>2. f \in OwnedBy(win, monitors, selMon)
    BY <1>1, KnownTypes, FocusedStacked DEF FocusedWindow
  <2> QED
    BY <2>1, <2>2
<1>3. c \in Elements(windows) \cap OwnedBy(win, monitors, selMon)
  <2> DEFINE T == tiled \ {f}
  <2>1. T \subseteq OwnedBy(win, monitors, selMon) /\ c = FirstIn(windows, T, None)
    OBVIOUS
  <2> HIDE DEF T, c
  <2>2. FirstIn(windows, T, None) = None \/ FirstIn(windows, T, None) \in Elements(windows) \cap T
    BY KnownTypes, FirstInFinds
  <2> QED
    BY <1>1, <2>1, <2>2
<1>4. promoted \in Elements(windows) \cap OwnedBy(win, monitors, selMon)
  BY <1>2, <1>3
<1> HIDE DEF promoted
<1> QED
  BY <1>1, <1>4

\* A window that takes the tags of the monitor it goes to is shown there.
LEMMA PlacedOwned ==
    ASSUME Known, NEW w \in Window, NEW i \in DOMAIN monitors,
           win'[w].mon = i, win'[w].tags = TagsOf(monitors[i])
    PROVE  w \in OwnedBy(win', monitors, i)
<1>1. TagsOf(monitors[i]) # {}
  BY MonitorShows DEF Known, Views
<1> QED
  BY <1>1 DEF OwnedBy, ShownTags

LEMMA TagMonFocuses == Known /\ TagMon /\ Follow => FocusedOn
<1> SUFFICES ASSUME Known, TagMon, Follow PROVE FocusedOn
  OBVIOUS
<1> DEFINE f == FocusedWindow
<1>1. PICK next \in Neighbours(selMon) :
         /\ win' = [win EXCEPT ![f].tags = TagsOf(monitors[next]), ![f].mon = next]
         /\ FocusWindow(focusStack, win', next, f)
         /\ f # None /\ UNCHANGED <<windows, monitors>>
  BY Zenon DEF TagMon
<1>2. f \in Elements(windows) /\ f \in Window
  BY <1>1, KnownTypes, FocusedListed DEF FocusedWindow, Known, ListInv
<1>3. next \in DOMAIN monitors
  BY NeighbourMonitors
<1>4. win'[f].mon = next /\ win'[f].tags = TagsOf(monitors[next])
  BY <1>1, <1>2, KnownTypes DEF WinStates, WindowState
<1>5. f \in OwnedBy(win', monitors, next)
  BY <1>2, <1>3, <1>4, PlacedOwned
<1>6. Sound(windows', focusStack, {})
  BY <1>1 DEF Known, ListInv, Sound
<1>7. f \in Elements(windows') \cup {None} /\ f \in OwnedBy(win', monitors', next)
  BY <1>1, <1>2, <1>5
<1> HIDE DEF f
<1> QED
  BY <1>1, <1>6, <1>7, WindowFocused

LEMMA BoundFocuses ==
    ASSUME Known, BoundAction
    PROVE  \/ FocusedOn
           \/ ToggleTag \/ ToggleFloating \/ ToggleFullscreen
           \/ TagMon /\ ~Follow
           \/ \E w \in Elements(windows) : ShowScratch(w)
<1>1. Sound(windows, focusStack, {})
  BY DEF Known, ListInv, Sound
<1>2. CASE View \/ ViewPrev \/ ViewNextOccTag \/ ToggleView
  <2>1. /\ FocusWindow(focusStack, win, selMon, FocusedIn(focusStack, win, monitors', selMon))
        /\ UNCHANGED <<windows, win>>
    BY <1>2, Zenon DEF View, ViewPrev, ViewNextOccTag, ToggleView, SwitchView, SettleOn
  <2> QED
    BY <1>1, <2>1, SettledOn
<1>3. CASE Tag
  <2>1. /\ FocusWindow(focusStack, win', selMon, FocusedIn(focusStack, win', monitors', selMon))
        /\ UNCHANGED windows
    BY <1>3, Zenon DEF Tag, SettleOn
  <2> QED
    BY <1>1, <2>1, SettledOn
<1>4. CASE FocusStack
  <2>1. PICK forward \in BOOLEAN :
           /\ FocusStep(forward) # None
           /\ FocusWindow(focusStack, win, selMon, FocusStep(forward))
           /\ UNCHANGED <<windows, win, monitors>>
    BY <1>4, Zenon DEF FocusStack
  <2>2. FocusStep(forward) \in Elements(windows) /\ FocusStep(forward) \in OwnedBy(win, monitors, selMon)
    BY <2>1, KnownTypes, FocusStepOwned
  <2> QED
    BY <1>1, <2>1, <2>2, WindowFocused
<1>5. CASE Zoom
  <2>1. PICK p \in Elements(windows) \cap OwnedBy(win, monitors, selMon) :
           FocusWindow(focusStack, win, selMon, p)
    BY <1>5, ZoomOwned
  <2>2. UNCHANGED <<win, monitors>>
    BY <1>5 DEF Zoom
  <2>3. PICK q \in Elements(windows) : windows' = Raise(windows, q)
    BY <1>5, ZoomPromotes DEF Known
  <2>4. q \in Window /\ windows \in Seq(Window) /\ Distinct(windows)
    BY KnownTypes DEF Known, ListInv, Sound
  <2>5. Elements(windows') = Elements(windows) /\ windows' \in Seq(Window) /\ Distinct(windows')
    <3>1. /\ Raise(windows, q) \in Seq(Window) /\ Distinct(Raise(windows, q))
          /\ Elements(Raise(windows, q)) = Elements(windows) \cup {q}
      BY <2>4, RaiseElements
    <3> QED
      BY <2>3, <3>1
  <2>6. Sound(windows', focusStack, {})
    BY <1>1, <2>5 DEF Sound
  <2> QED
    BY <2>1, <2>2, <2>5, <2>6, WindowFocused
<1>6. CASE FocusMon
  <2>1. \E next :
           /\ FocusWindow(focusStack, win, next, FocusedIn(focusStack, win, monitors, next))
           /\ UNCHANGED <<windows, win, monitors>>
    BY <1>6, Zenon DEF FocusMon
  <2> QED
    BY <1>1, <2>1, SettledOn
<1>7. CASE TagMon
  BY <1>7, TagMonFocuses
<1>8. CASE ToggleScratch \/ FocusOrToggleScratch \/ FocusOrToggleMatchingScratch
  <2>1. PICK w \in Elements(windows) : \E hide : HideOrShow(w, hide)
    BY <1>8, ScratchTargets
  <2>2. CASE HideScratch(w)
    <3>1. /\ FocusWindow(Without(focusStack, w), win', selMon,
                         FocusedIn(Without(focusStack, w), win', monitors', selMon))
          /\ UNCHANGED windows
      BY <2>2, Zenon DEF HideScratch, SettleOn
    <3>2. /\ Without(focusStack, w) \in Seq(Window) /\ Distinct(Without(focusStack, w))
          /\ Elements(Without(focusStack, w)) = Elements(focusStack) \ {w}
      BY WithoutElements DEF Known, ListInv, Sound
    <3>3. Sound(windows', Without(focusStack, w), {})
      BY <1>1, <3>1, <3>2 DEF Sound
    <3> QED
      BY <3>1, <3>3, SettledOn
  <2>3. HideScratch(w) \/ ShowScratch(w)
    BY <2>1 DEF HideOrShow
  <2> QED
    BY <2>2, <2>3
<1> QED
  BY <1>2, <1>3, <1>4, <1>5, <1>6, <1>7, <1>8 DEF BoundAction

\* Who owns a window depends on its monitor and tags, and on what that monitor shows.
LEMMA OwnedAlike ==
    ASSUME NEW wn, NEW wn2, NEW ms, NEW ms2, NEW sel,
           \A v \in Window : wn2[v].tags = wn[v].tags /\ wn2[v].mon = wn[v].mon,
           ShownTags(ms2, sel) = ShownTags(ms, sel)
    PROVE  OwnedBy(wn2, ms2, sel) = OwnedBy(wn, ms, sel)
BY DEF OwnedBy

\* commit() asks for the focus before it looks at the buffer.
LEMMA FirstCommitFocuses ==
    ASSUME Known, NEW w \in Window, CommitFirst(w)
    PROVE  FocusedOn
<1>1. PICK s, ms, sized : RuledFrom(w, s) /\ CommitRuled(w, s, ms, sized)
  BY FirstCommits
<1> DEFINE ruled == Swallow([win EXCEPT ![w] = s], w)
           target == FocusedIn(focusStack, ruled, ms, selMon)
<1>2. /\ windows' = windows /\ monitors' = ms
      /\ win' = IF sized THEN Buffered(ruled, ms, w) ELSE ruled
      /\ FocusWindow(focusStack, ruled, selMon, target)
  BY <1>1 DEF CommitRuled
<1>3. ruled \in [Window -> WinStates]
  BY <1>1, Replaced, SwallowTyped DEF RuledFrom
<1> HIDE DEF ruled
<1>4. \A v \in Window : win'[v].tags = ruled[v].tags /\ win'[v].mon = ruled[v].mon
  BY <1>2, <1>3, BufferedKeeps
<1>5. OwnedBy(win', ms, selMon) = OwnedBy(ruled, ms, selMon)
  BY <1>4, OwnedAlike
<1>6. target = FocusedIn(focusStack, win', ms, selMon)
  BY <1>5 DEF FocusedIn
<1>7. Sound(windows', focusStack, {})
  BY <1>2 DEF Known, ListInv, Sound
<1>8. target \in Elements(windows') \cup {None}
  BY <1>7, FocusedListed
<1>9. Elements(windows') \subseteq Window
  BY <1>2, KnownTypes
<1> HIDE DEF target
<1>10. SelectedAfter(focusStack, ruled, selMon, target) = SelectedAfter(focusStack, win', selMon, target)
  BY <1>4, <1>8, <1>9 DEF SelectedAfter
<1>11. FocusWindow(focusStack, win', selMon, target)
  BY <1>2, <1>10 DEF FocusWindow
<1>12. target = FocusedIn(focusStack, win', monitors', selMon)
  BY <1>2, <1>6
<1> QED
  BY <1>7, <1>8, <1>11, <1>12, WindowFocused

\* Closing a window that hid no terminal.
LEMMA ClosingFocuses ==
    ASSUME Known, NEW w \in Window, Destroy(w)
    PROVE  \/ FocusedOn
           \/ /\ win[w].swallowing \in Elements(windows')
              /\ focus' \in {None, focus, win[w].swallowing}
<1>1. PICK stack, sel, top : ClosedFocus(w, stack, sel, top)
  BY DestroyFocuses
<1>2. CASE top = win[w].swallowing /\ top \in Elements(windows')
  BY <1>1, <1>2 DEF ClosedFocus
<1>3. CASE \/ top \in OwnedBy(win', monitors', sel)
           \/ top = FocusedIn(stack, win', monitors', sel)
  <2>1. /\ Sound(windows', stack, {})
        /\ top \in Elements(windows') \cup {None}
        /\ top \in OwnedBy(win', monitors', sel) \/ top = FocusedIn(stack, win', monitors', sel)
        /\ focusStack' = StackAfter(stack, top)
        /\ selMon' = SelectedAfter(stack, win', sel, top)
        /\ IF locked = "no" THEN focus' = top ELSE focus' \in {None, focus}
    BY <1>1, <1>3 DEF ClosedFocus
  <2>2. FocusedOn
    BY <2>1, Zenon DEF FocusedOn
  <2> QED
    BY <2>2
<1> QED
  BY <1>1, <1>2, <1>3 DEF ClosedFocus

\* Monitor::view on tags there are shows them.
LEMMA ViewShowsMask ==
    ASSUME NEW m \in ShowingMonitors, NEW mask \in Views
    PROVE  TagsOf(ViewOf(m, mask)) = mask
<1>1. mask \cap Tags = mask /\ mask # {}
  BY DEF Views, TagSets
<1>2. CASE mask = TagsOf(m)
  BY <1>1, <1>2 DEF ViewOf
<1>3. CASE mask # TagsOf(m)
  <2>1. ViewOf(m, mask) = Flipped(m, mask)
    BY <1>1, <1>3 DEF ViewOf
  <2>2. TagsOf(Flipped(m, mask)) = mask
    BY DEF Flipped, TagsOf, ShowingMonitors
  <2> QED
    BY <2>1, <2>2
<1> QED
  BY <1>2, <1>3

\* request_activation of a window that carries a tag shows it where it is.
LEMMA ActivationFocuses ==
    ASSUME Known, IndexInv, NEW w \in Window, Activate(w), win[w].tags # {}, monitors # <<>>
    PROVE  FocusedOn
<1> DEFINE i == win[w].mon
           ms == MonitorsWith(i, ViewOf(monitors[i], win[w].tags))
<1>1. i \in DOMAIN monitors
  BY DEF Activate, IndexInv, Homed, HomedWindows, Indices
<1>2. /\ monitors' = ms /\ UNCHANGED <<windows, win>> /\ w \in Elements(windows)
      /\ FocusWindow(focusStack, win, i, w)
  BY <1>1 DEF Activate
<1>3. win[w].tags \in Views
  BY KnownTypes DEF WinStates, WindowState, Views
<1>4. TagsOf(ViewOf(monitors[i], win[w].tags)) = win[w].tags
  BY <1>1, <1>3, MonitorShows, ViewShowsMask DEF Known
<1>5. ms[i] = ViewOf(monitors[i], win[w].tags) /\ i \in DOMAIN ms
  BY <1>1 DEF MonitorsWith
<1>6. ShownTags(ms, i) = win[w].tags
  BY <1>4, <1>5 DEF ShownTags
<1> HIDE DEF ms
<1>7. w \in OwnedBy(win, ms, i)
  BY <1>3, <1>6 DEF OwnedBy, Views
<1>8. Sound(windows', focusStack, {})
  BY <1>2 DEF Known, ListInv, Sound
<1>9. w \in Elements(windows') \cup {None} /\ w \in OwnedBy(win, monitors', i) /\ win' = win
  BY <1>2, <1>7
<1> QED
  BY <1>2, <1>8, <1>9, WindowFocused

LEMMA ClientFocuses ==
    ASSUME Known, NEW w \in Window, ClientEvent(w)
    PROVE  \/ focus' = focus
           \/ FocusedOn
           \/ Destroy(w) /\ win[w].swallowing \in Elements(windows')
                /\ focus' \in {None, focus, win[w].swallowing}
           \/ Activate(w)
<1>1. CASE NewToplevel(w)
  BY <1>1, Zenon DEF NewToplevel
<1>2. CASE CommitBuffer(w) \/ FullscreenRequest(w) \/ ParentChanged(w) \/ DialogHint(w)
  BY <1>2 DEF CommitBuffer, FullscreenRequest, ParentChanged, DialogHint
<1> QED
  BY <1>1, <1>2, FirstCommitFocuses, ClosingFocuses DEF ClientEvent

LEMMA IpcViewFocuses ==
    ASSUME Known, IpcView
    PROVE  \/ FocusedOn
           \/ UNCHANGED <<windows, win, focusStack, selMon, focus, locked>>
                /\ ShownTags(monitors', selMon) = ShownTags(monitors, selMon)
<1>1. Sound(windows, focusStack, {})
  BY DEF Known, ListInv, Sound
<1>2. PICK I, mask, toggles :
        /\ monitors' = IpcViews(I, mask, toggles)
        /\ UNCHANGED <<windows, win, locked>>
        /\ \/ FocusWindow(focusStack, win, selMon, FocusedIn(focusStack, win, monitors', selMon))
           \/ selMon \notin I /\ UNCHANGED <<focusStack, selMon, focus>>
  BY Zenon DEF IpcView, SettleOn
<1>3. CASE FocusWindow(focusStack, win, selMon, FocusedIn(focusStack, win, monitors', selMon))
  BY <1>1, <1>2, <1>3, SettledOn
<1>4. CASE selMon \notin I /\ UNCHANGED <<focusStack, selMon, focus>>
  <2>1. DOMAIN monitors' = DOMAIN monitors
    BY <1>2 DEF IpcViews
  <2>2. selMon \in DOMAIN monitors => monitors'[selMon] = monitors[selMon]
    BY <1>2, <1>4 DEF IpcViews
  <2> QED
    BY <1>2, <1>4, <2>1, <2>2 DEF ShownTags
<1> QED
  BY <1>2, <1>3, <1>4

-----------------------------------------------------------------------------
(***************************************************************************)
(* The keyboard goes to a window that is on screen.                        *)
(***************************************************************************)

\* A hidden scratchpad (and any window without a tag) is never activated by its client.
NoHiddenActivated == [][\A w \in Window : Activate(w) => win[w].tags # {}]_vars

\* Who is handed the keyboard is seen, unless it is a terminal that comes back.
HandedSeen ==
    \/ Handed
    \/ focus' \notin Window
    \/ win[focus'].swallowed
    \/ monitors' = <<>>

LEMMA ShownScratchSeen ==
    ASSUME Known, IndexInv, NEW w \in Elements(windows), ShowScratch(w), monitors # <<>>
    PROVE  Handed
<1> DEFINE tags == PlacementTags(monitors, selMon)
<1>1. /\ win' = [win EXCEPT ![w].tags = tags] /\ UNCHANGED <<windows, monitors>>
      /\ focus' = FocusAfter(w)
  BY Zenon DEF ShowScratch, FocusWindow
<1>2. selMon \in DOMAIN monitors
  BY DEF IndexInv, Homed, Indices
<1>3. tags = TagsOf(monitors[selMon]) /\ tags # {}
  BY <1>2, MonitorShows DEF PlacementTags, Known, Views
<1>4. win'[w].tags = tags
  BY <1>1, KnownTypes DEF WinStates, WindowState
<1>5. Seen(win', monitors', w)
  BY <1>1, <1>2, <1>3, <1>4 DEF Seen, AllVisible
<1> QED
  BY <1>1, <1>5 DEF Handed, FocusAfter

LEMMA BoundSeen ==
    ASSUME Known, IndexInv, BoundAction
    PROVE  HandedSeen
<1>1. CASE ToggleTag \/ ToggleFloating \/ ToggleFullscreen
  BY <1>1 DEF ToggleTag, ToggleFloating, ToggleFullscreen, ChangeFocused, HandedSeen, Handed
<1>2. CASE TagMon /\ ~Follow
  <2>1. focus' = focus
    BY <1>2, Zenon DEF TagMon
  <2> QED
    BY <2>1 DEF HandedSeen, Handed
<1>3. ASSUME NEW w \in Elements(windows), ShowScratch(w)
      PROVE  HandedSeen
  <2>1. monitors' = monitors
    BY <1>3, Zenon DEF ShowScratch
  <2> QED
    BY <1>3, <2>1, ShownScratchSeen DEF HandedSeen
<1> QED
  BY <1>1, <1>2, <1>3, BoundFocuses, FocusedHands DEF HandedSeen

\* The terminal that comes back was swallowed.
LEMMA ClientSeen ==
    ASSUME Known, IndexInv, HideInv, NEW w \in Window, ClientEvent(w),
           Activate(w) => win[w].tags # {}
    PROVE  HandedSeen
<1>1. CASE Destroy(w) /\ win[w].swallowing \in Elements(windows')
             /\ focus' \in {None, focus, win[w].swallowing}
  <2> DEFINE t == win[w].swallowing
  <2>1. w \in Elements(windows)
    BY <1>1 DEF Destroy
  <2>2. t \in Elements(windows)
    BY <1>1, EndStates DEF EndLinks
  <2>3. t \in Window
    BY <2>2, KnownTypes
  <2>4. win[t].swallowed
    BY <2>1, <2>3, WindowAssumption DEF HideInv, LinksHide
  <2> QED
    BY <1>1, <2>4 DEF HandedSeen, Handed
<1>2. CASE Activate(w)
  <2>1. CASE monitors = <<>>
    <3>1. monitors' = <<>>
      <4>1. DOMAIN monitors = {}
        BY <2>1
      <4> QED
        BY <1>2, <2>1, <4>1 DEF Activate
    <3> QED
      BY <3>1 DEF HandedSeen
  <2>2. CASE monitors # <<>>
    BY <1>2, <2>2, ActivationFocuses, FocusedHands DEF HandedSeen
  <2> QED
    BY <2>1, <2>2
<1> QED
  BY <1>1, <1>2, ClientFocuses, FocusedHands DEF HandedSeen, Handed

LEMMA OthersSeen ==
    ASSUME Known, SpaceInv, DeviceEvent \/ LockEvent
    PROVE  HandedSeen
<1>1. CASE PointerMotion \/ Click
  <2>1. UNCHANGED <<windows, win, monitors>>
    BY <1>1 DEF PointerMotion, Click
  <2>2. \/ focus' = focus
        \/ \E v \in space : focus' = FocusAfter(v)
    BY <1>1, Zenon DEF PointerMotion, Click, FocusWindow
  <2>3. space \subseteq Elements(windows)
    BY DEF Known, ListInv, Sound
  <2>4. \A v \in space : monitors = <<>> \/ Seen(win, monitors, v)
    BY <2>3 DEF SpaceInv, SpaceShows
  <2>5. \A v : Seen(win', monitors', v) <=> Seen(win, monitors, v)
    BY <2>1 DEF Seen
  <2>6. CASE focus' = focus
    BY <2>6 DEF HandedSeen, Handed
  <2>7. ASSUME NEW v \in space, focus' = FocusAfter(v)
        PROVE  HandedSeen
    BY <2>1, <2>3, <2>4, <2>5, <2>7 DEF HandedSeen, Handed, FocusAfter
  <2> QED
    BY <2>2, <2>6, <2>7
<1>2. CASE IpcView
  BY <1>2, IpcViewFocuses, FocusedHands DEF HandedSeen, Handed
<1>3. CASE (\E o \in Output : OutputAdded(o)) \/ \E i \in DOMAIN monitors : OutputRemoved(i)
  BY <1>3 DEF OutputAdded, OutputRemoved, HandedSeen, Handed
<1>4. CASE LockNative \/ LockExt \/ NewLockSurface
  BY <1>4, WindowAssumption DEF LockNative, LockExt, NewLockSurface, HandedSeen, Handed
<1>5. CASE Unlock
  <2>1. focus' = FocusedIn(focusStack, win, monitors, selMon) /\ UNCHANGED <<windows, win, monitors>>
    BY <1>5 DEF Unlock, FocusedWindow
  <2>2. \/ focus' = None
        \/ focus' \in OwnedBy(win, monitors, selMon)
    BY <2>1, KnownTypes, FocusedStacked
  <2>3. focus' \in Elements(windows) \cup {None}
    BY <2>1, FocusedListed DEF Known, ListInv
  <2>4. focus' = None \/ Seen(win', monitors', focus')
    BY <2>1, <2>2, OwnedSeen DEF Seen
  <2> QED
    BY <2>1, <2>3, <2>4 DEF HandedSeen, Handed
<1> QED
  BY <1>1, <1>2, <1>3, <1>4, <1>5 DEF DeviceEvent, LockEvent

\* While there is a monitor, no handler gives the keyboard to a window that is off screen
\* when it ends (focus_window, toplevel_destroyed, commit, output hotplug, unlock), unless
\* a client activates a hidden window.
THEOREM KeyboardStaysOnScreen ==
    Spec /\ NoHiddenActivated => FocusStaysOnScreen
<1>1. /\ IInv /\ IInv' /\ IndexInv /\ SpaceInv /\ SpaceInv' /\ HideInv /\ [Next]_vars
      /\ [\A w \in Window : Activate(w) => win[w].tags # {}]_vars
      => [focus' # focus /\ focus' \in Window /\ monitors' # <<>>
            /\ win'[focus'].rulesApplied /\ ~win[focus'].swallowed /\ ~win'[focus'].swallowed
            => focus' \in space']_vars
  <2> SUFFICES ASSUME IInv, IInv', IndexInv, SpaceInv, SpaceInv', HideInv, Next,
                      \A w \in Window : Activate(w) => win[w].tags # {},
                      focus' # focus, focus' \in Window, monitors' # <<>>,
                      win'[focus'].rulesApplied, ~win[focus'].swallowed, ~win'[focus'].swallowed
               PROVE  focus' \in space'
    OBVIOUS
  <2>1. HandedSeen
    BY BoundSeen, ClientSeen, OthersSeen DEF Next, IInv
  <2>2. focus' \in Elements(windows') /\ Seen(win', monitors', focus')
    BY <2>1, WindowAssumption DEF HandedSeen, Handed
  <2>3. SpaceShows(space', windows', win', monitors')
    BY DEF SpaceInv, SpaceShows, Seen
  <2> QED
    BY <2>2, <2>3 DEF SpaceShows
<1> QED
  BY <1>1, Invariance, IndicesInvariant, SpaceInvariant, HidesInvariant, PTL
     DEF Spec, NoHiddenActivated, FocusStaysOnScreen

-----------------------------------------------------------------------------
(***************************************************************************)
(* The keyboard stays on focused_window().                                 *)
(***************************************************************************)

\* What keeps a step from changing focused_window() behind the keyboard's back, or from
\* giving the keyboard to another window.  The pointer selects a monitor and focuses a
\* window of the space, whoever owns it; output_removed and ToggleTag arrange, but focus
\* nothing; TagMon without `follow` sends the focused window away; a scratchpad is shown
\* with the tags of the selected monitor on the monitor it was left on; a hidden window is
\* activated unseen; a terminal comes back where its child was; and windows opened while
\* there is no monitor get no focus when one is added.
FocusMinded ==
    /\ ~PointerMotion /\ ~Click
    /\ \A i \in DOMAIN monitors : ~OutputRemoved(i)
    /\ ToggleTag => FocusedWindow \in OwnedBy(win', monitors, selMon)
    /\ TagMon => Follow
    /\ \A w \in Window : /\ ShowScratch(w) => win[w].mon = selMon
                         /\ Activate(w) => win[w].tags # {}
                         /\ Destroy(w) => win[w].swallowing = None
                         /\ NewToplevel(w) => monitors # <<>>

NoMonitorNoWindow == monitors = <<>> => Elements(windows) = {}

\* Once a step's handler has focused, the keyboard is where it should be.
LEMMA Refocuses ==
    ASSUME FocusedOn, locked # "no" => locked' # "no"
    PROVE  KeyboardOnFocusedWindow'
BY FocusedAgrees DEF KeyboardOnFocusedWindow, FocusedWindow

\* A step that changes nothing focused_window() looks at.
LEMMA FocusUnmoved ==
    ASSUME KeyboardOnFocusedWindow,
           UNCHANGED <<focusStack, selMon, focus, locked>>,
           Elements(windows) \subseteq Elements(windows'),
           \A v \in Elements(windows) : win'[v].rulesApplied => win[v].rulesApplied,
           OwnedBy(win', monitors', selMon) = OwnedBy(win, monitors, selMon)
    PROVE  KeyboardOnFocusedWindow'
<1>1. FocusedIn(focusStack', win', monitors', selMon') = FocusedWindow
  BY DEF FocusedIn, FocusedWindow
<1> QED
  BY <1>1 DEF KeyboardOnFocusedWindow, FocusedWindow

\* A step that changes one window, its place aside.
LEMMA StateUnmoved ==
    ASSUME Known, KeyboardOnFocusedWindow,
           UNCHANGED <<windows, focusStack, selMon, focus, locked, monitors>>,
           NEW w \in Window, NEW s, win' = [win EXCEPT ![w] = s],
           s.tags = win[w].tags, s.mon = win[w].mon, s.rulesApplied = win[w].rulesApplied
    PROVE  KeyboardOnFocusedWindow'
<1>1. \A v \in Window : win'[v] = IF v = w THEN s ELSE win[v]
  BY KnownTypes
<1>2. \A v \in Window : win'[v].tags = win[v].tags /\ win'[v].mon = win[v].mon
                          /\ win'[v].rulesApplied = win[v].rulesApplied
  BY <1>1
<1>3. OwnedBy(win', monitors', selMon) = OwnedBy(win, monitors, selMon)
  <2>1. ShownTags(monitors', selMon) = ShownTags(monitors, selMon)
    OBVIOUS
  <2> QED
    BY <1>2, <2>1 DEF OwnedBy
<1>4. Elements(windows) \subseteq Window
  BY KnownTypes
<1> QED
  BY <1>2, <1>3, <1>4, FocusUnmoved

LEMMA TogglesFocus ==
    ASSUME Known, KeyboardOnFocusedWindow, ToggleTag \/ ToggleFloating \/ ToggleFullscreen,
           ToggleTag => FocusedWindow \in OwnedBy(win', monitors, selMon)
    PROVE  KeyboardOnFocusedWindow'
<1> DEFINE f == FocusedWindow
<1>1. f \in Window /\ win[f] \in WindowState
  <2>1. f # None
    BY DEF ToggleTag, ToggleFloating, ToggleFullscreen
  <2> QED
    BY <2>1, KnownTypes DEF WinStates
<1>2. UNCHANGED <<windows, focusStack, selMon, focus, locked, monitors>>
  BY DEF ToggleTag, ToggleFloating, ToggleFullscreen, ChangeFocused
<1>3. CASE ToggleFloating
  <2> DEFINE s == [win[f] EXCEPT !.floating = ~win[f].floating,
                                 !.needsCentering = win[f].needsCentering \/ ~win[f].floating]
  <2>1. win' = [win EXCEPT ![f] = s]
    BY <1>3, Zenon DEF ToggleFloating, ChangeFocused
  <2>2. s.tags = win[f].tags /\ s.mon = win[f].mon /\ s.rulesApplied = win[f].rulesApplied
    BY <1>1 DEF WindowState
  <2> HIDE DEF s, f
  <2> QED
    BY <1>1, <1>2, <2>1, <2>2, StateUnmoved
<1>4. CASE ToggleFullscreen
  <2> DEFINE s == [win[f] EXCEPT !.fullscreen = ~win[f].fullscreen]
  <2>1. win' = [win EXCEPT ![f] = s]
    BY <1>4, Zenon DEF ToggleFullscreen, ChangeFocused
  <2>2. s.tags = win[f].tags /\ s.mon = win[f].mon /\ s.rulesApplied = win[f].rulesApplied
    BY <1>1 DEF WindowState
  <2> HIDE DEF s, f
  <2> QED
    BY <1>1, <1>2, <2>1, <2>2, StateUnmoved
<1>5. CASE ToggleTag
  <2>1. PICK new : win' = [win EXCEPT ![f].tags = new]
    BY <1>5, Zenon DEF ToggleTag
  <2>2. /\ \A v \in Window \ {f} : win'[v] = win[v]
        /\ win'[f].rulesApplied = win[f].rulesApplied /\ win'[f].mon = win[f].mon
    BY <1>1, <2>1, KnownTypes DEF WindowState
  <2>3. f \in OwnedBy(win, monitors, selMon)
    BY <1>1, KnownTypes, WindowAssumption, FocusedStacked DEF FocusedWindow
  <2>4. f \in OwnedBy(win', monitors', selMon)
    BY <1>2, <1>5
  <2> HIDE DEF f
  <2>5. OwnedBy(win', monitors', selMon) = OwnedBy(win, monitors, selMon)
    <3>1. \A v \in Window \ {f} : v \in OwnedBy(win', monitors', selMon) <=> v \in OwnedBy(win, monitors, selMon)
      BY <1>2, <2>2 DEF OwnedBy
    <3>2. OwnedBy(win', monitors', selMon) \subseteq Window /\ OwnedBy(win, monitors, selMon) \subseteq Window
      BY DEF OwnedBy
    <3> QED
      BY <2>3, <2>4, <3>1, <3>2
  <2>6. \A v \in Elements(windows) : win'[v].rulesApplied => win[v].rulesApplied
    BY <2>2, KnownTypes
  <2> QED
    BY <1>2, <2>5, <2>6, FocusUnmoved
<1> QED
  BY <1>3, <1>4, <1>5

\* Showing a scratchpad on the selected monitor it is on.
LEMMA ShownScratchFocuses ==
    ASSUME Known, IndexInv, NEW w \in Elements(windows), ShowScratch(w),
           win[w].mon = selMon, monitors # <<>>
    PROVE  FocusedOn
<1> DEFINE tags == PlacementTags(monitors, selMon)
<1>1. /\ win' = [win EXCEPT ![w].tags = tags] /\ UNCHANGED <<windows, monitors>>
      /\ FocusWindow(focusStack, win', selMon, w)
  BY Zenon DEF ShowScratch
<1>2. selMon \in DOMAIN monitors /\ w \in Window
  BY KnownTypes DEF IndexInv, Homed, Indices
<1>3. tags = TagsOf(monitors[selMon])
  BY <1>2 DEF PlacementTags
<1>4. win'[w].tags = tags /\ win'[w].mon = selMon
  BY <1>1, <1>2, KnownTypes DEF WinStates, WindowState
<1>5. w \in OwnedBy(win', monitors, selMon)
  BY <1>2, <1>3, <1>4, PlacedOwned
<1>6. Sound(windows', focusStack, {})
  BY <1>1 DEF Known, ListInv, Sound
<1>7. w \in Elements(windows') \cup {None} /\ w \in OwnedBy(win', monitors', selMon)
  BY <1>1, <1>5
<1> QED
  BY <1>1, <1>6, <1>7, WindowFocused

LEMMA BoundMinded ==
    ASSUME Known, IndexInv, KeyboardOnFocusedWindow, NoMonitorNoWindow, BoundAction, FocusMinded
    PROVE  KeyboardOnFocusedWindow'
<1>1. locked # "no" => locked' # "no"
  BY BoundLocked
<1>2. CASE FocusedOn
  BY <1>1, <1>2, Refocuses
<1>3. CASE ToggleTag \/ ToggleFloating \/ ToggleFullscreen
  BY <1>3, TogglesFocus DEF FocusMinded
<1>4. CASE TagMon /\ ~Follow
  BY <1>4 DEF FocusMinded
<1>5. ASSUME NEW w \in Elements(windows), ShowScratch(w)
      PROVE  KeyboardOnFocusedWindow'
  <2>1. w \in Window /\ monitors # <<>>
    BY KnownTypes DEF NoMonitorNoWindow
  <2>2. win[w].mon = selMon
    BY <1>5, <2>1 DEF FocusMinded
  <2> QED
    BY <1>1, <1>5, <2>1, <2>2, ShownScratchFocuses, Refocuses
<1> QED
  BY <1>2, <1>3, <1>4, <1>5, BoundFocuses

\* A window whose rules are still to come, or to come again, suspends the promise.
LEMMA WindowWaits ==
    ASSUME Known, NEW w \in Window, NewToplevel(w) \/ ParentChanged(w)
    PROVE  w \in Elements(windows') /\ ~win'[w].rulesApplied
<1>1. CASE NewToplevel(w)
  <2>1. LinksOf(win'[w]) = LinksOf(NewWindow) /\ w \in Elements(windows')
    BY <1>1, NewWindowStates
  <2>2. win'[w].rulesApplied = NewWindow.rulesApplied
    BY <2>1, LinksAlike
  <2> QED
    BY <2>1, <2>2 DEF NewWindow
<1>2. CASE ParentChanged(w)
  <2>1. /\ win' = [win EXCEPT ![w].rulesApplied = FALSE] /\ windows' = windows
        /\ w \in Elements(windows)
    BY <1>2 DEF ParentChanged
  <2>2. win'[w] = [win[w] EXCEPT !.rulesApplied = FALSE] /\ win[w] \in WindowState
    BY <2>1, KnownTypes DEF WinStates
  <2> QED
    BY <2>1, <2>2 DEF WindowState
<1> QED
  BY <1>1, <1>2

LEMMA ClientMinded ==
    ASSUME Known, IndexInv, KeyboardOnFocusedWindow, NoMonitorNoWindow, FocusMinded,
           NEW w \in Window, ClientEvent(w)
    PROVE  KeyboardOnFocusedWindow'
<1>1. locked # "no" => locked' # "no"
  BY ClientLocked
<1>2. CASE NewToplevel(w) \/ ParentChanged(w)
  BY <1>2, WindowWaits DEF KeyboardOnFocusedWindow
<1>3. CASE CommitFirst(w)
  BY <1>1, <1>3, FirstCommitFocuses, Refocuses
<1>4. CASE Destroy(w)
  <2>1. win[w].swallowing = None
    BY <1>4 DEF FocusMinded
  <2>2. None \notin Elements(windows')
    <3>1. Elements(windows') = Elements(windows) \ {w}
      BY <1>4, EndStates DEF EndLinks
    <3> QED
      BY <3>1, KnownTypes, WindowAssumption
  <2>3. FocusedOn
    BY <1>4, <2>1, <2>2, ClosingFocuses
  <2> QED
    BY <1>1, <2>3, Refocuses
<1>5. CASE Activate(w)
  <2>1. win[w].tags # {} /\ w \in Elements(windows)
    BY <1>5 DEF FocusMinded, Activate
  <2>2. monitors # <<>>
    BY <2>1 DEF NoMonitorNoWindow
  <2> QED
    BY <1>1, <1>5, <2>1, <2>2, ActivationFocuses, Refocuses
<1>6. CASE CommitBuffer(w)
  <2>1. /\ win' = Buffered(win, monitors, w)
        /\ UNCHANGED <<windows, focusStack, selMon, focus, locked, monitors>>
    BY <1>6 DEF CommitBuffer
  <2>2. \A v \in Window : /\ win'[v].tags = win[v].tags /\ win'[v].mon = win[v].mon
                          /\ win'[v].rulesApplied = win[v].rulesApplied
    BY <2>1, KnownTypes, BufferedKeeps
  <2>3. ShownTags(monitors', selMon) = ShownTags(monitors, selMon)
    BY <2>1
  <2>4. OwnedBy(win', monitors', selMon) = OwnedBy(win, monitors, selMon)
    BY <2>2, <2>3, OwnedAlike
  <2> QED
    BY <2>1, <2>2, <2>4, KnownTypes, FocusUnmoved
<1>7. CASE FullscreenRequest(w) \/ DialogHint(w)
  <2>1. /\ UNCHANGED <<windows, focusStack, selMon, focus, locked, monitors>>
        /\ \/ \E b : win' = [win EXCEPT ![w].fullscreen = b]
           \/ win' = [win EXCEPT ![w].floating = TRUE, ![w].needsCentering = TRUE]
    BY <1>7, Zenon DEF FullscreenRequest, DialogHint
  <2>2. win[w] \in WindowState
    BY KnownTypes DEF WinStates
  <2>3. ASSUME NEW b, win' = [win EXCEPT ![w].fullscreen = b]
        PROVE  KeyboardOnFocusedWindow'
    <3> DEFINE s == [win[w] EXCEPT !.fullscreen = b]
    <3>1. win' = [win EXCEPT ![w] = s]
      BY <2>3, Zenon
    <3>2. s.tags = win[w].tags /\ s.mon = win[w].mon /\ s.rulesApplied = win[w].rulesApplied
      BY <2>2 DEF WindowState
    <3> HIDE DEF s
    <3> QED
      BY <2>1, <3>1, <3>2, StateUnmoved
  <2>4. ASSUME win' = [win EXCEPT ![w].floating = TRUE, ![w].needsCentering = TRUE]
        PROVE  KeyboardOnFocusedWindow'
    <3> DEFINE s == [win[w] EXCEPT !.floating = TRUE, !.needsCentering = TRUE]
    <3>1. win' = [win EXCEPT ![w] = s]
      BY <2>4, KnownTypes
    <3>2. s.tags = win[w].tags /\ s.mon = win[w].mon /\ s.rulesApplied = win[w].rulesApplied
      BY <2>2 DEF WindowState
    <3> HIDE DEF s
    <3> QED
      BY <2>1, <3>1, <3>2, StateUnmoved
  <2> QED
    BY <2>1, <2>3, <2>4
<1> QED
  BY <1>2, <1>3, <1>4, <1>5, <1>6, <1>7 DEF ClientEvent

LEMMA DeviceMinded ==
    ASSUME Known, IndexInv, KeyboardOnFocusedWindow, NoMonitorNoWindow, FocusMinded, DeviceEvent
    PROVE  KeyboardOnFocusedWindow'
<1>1. locked # "no" => locked' # "no"
  BY DeviceLocked
<1>2. CASE IpcView
  <2>1. CASE /\ UNCHANGED <<windows, win, focusStack, selMon, focus, locked>>
             /\ ShownTags(monitors', selMon) = ShownTags(monitors, selMon)
    <3>1. OwnedBy(win', monitors', selMon) = OwnedBy(win, monitors, selMon)
      BY <2>1 DEF OwnedBy
    <3> QED
      BY <2>1, <3>1, FocusUnmoved
  <2> QED
    BY <1>1, <1>2, <2>1, IpcViewFocuses, Refocuses
<1>3. ASSUME NEW o \in Output, OutputAdded(o)
      PROVE  KeyboardOnFocusedWindow'
  <2>1. UNCHANGED <<windows, win, focusStack, selMon, focus, locked>>
    BY <1>3 DEF OutputAdded
  <2>2. CASE monitors = <<>>
    <3>1. Elements(windows) = {}
      BY <2>2 DEF NoMonitorNoWindow
    <3>2. \A ms : FocusedIn(focusStack, win, ms, selMon) = None
      BY <3>1, FocusedListed DEF Known, ListInv
    <3>3. FocusedIn(focusStack', win', monitors', selMon') = FocusedWindow
      BY <2>1, <3>2 DEF FocusedWindow
    <3> QED
      BY <2>1, <3>3 DEF KeyboardOnFocusedWindow, FocusedWindow
  <2>3. CASE monitors # <<>>
    <3>1. selMon \in DOMAIN monitors
      BY <2>3 DEF IndexInv, Homed, Indices
    <3>2. selMon \in DOMAIN monitors' /\ monitors'[selMon] = monitors[selMon]
      BY <1>3, <3>1, AddedMonitors
    <3>3. OwnedBy(win', monitors', selMon) = OwnedBy(win, monitors, selMon)
      BY <2>1, <3>1, <3>2 DEF OwnedBy, ShownTags
    <3> QED
      BY <2>1, <3>3, FocusUnmoved
  <2> QED
    BY <2>2, <2>3
<1> QED
  BY <1>2, <1>3 DEF DeviceEvent, FocusMinded

LEMMA LockMinded ==
    ASSUME KeyboardOnFocusedWindow, LockEvent
    PROVE  KeyboardOnFocusedWindow'
<1>1. CASE LockNative \/ LockExt \/ NewLockSurface
  BY <1>1 DEF LockNative, LockExt, NewLockSurface, KeyboardOnFocusedWindow
<1>2. CASE Unlock
  BY <1>2 DEF Unlock, KeyboardOnFocusedWindow, FocusedWindow
<1> QED
  BY <1>1, <1>2 DEF LockEvent

LEMMA NoWindowStep ==
    ASSUME Known, NoMonitorNoWindow, Next, FocusMinded
    PROVE  NoMonitorNoWindow'
<1> SUFFICES ASSUME monitors' = <<>> PROVE Elements(windows') = {}
  BY DEF NoMonitorNoWindow
<1>1. CASE Hotplugged
  <2>1. \A o \in Output : OutputAdded(o) => monitors' # <<>>
    BY AddedMonitors, KnownTypes
  <2> QED
    BY <1>1, <2>1 DEF Hotplugged, FocusMinded
<1>2. CASE ~Hotplugged
  <2>1. SameOutputs(monitors')
    BY <1>2, OutputsElsewhere
  <2>2. monitors = <<>>
    <3>1. DOMAIN monitors = {} /\ monitors \in Seq(ShowingMonitors)
      BY <2>1, KnownTypes DEF SameOutputs
    <3> QED
      BY <3>1, EmptySeq
  <2>3. Elements(windows) = {}
    BY <2>2 DEF NoMonitorNoWindow
  <2>4. \A w \in Window : ~(NewToplevel(w) \/ CommitFirst(w) \/ Destroy(w) \/ ParentChanged(w))
    BY <2>2, <2>3 DEF FocusMinded, CommitFirst, Destroy, ParentChanged
  <2>5. Ordinary
    BY <1>2, <2>4, OrdinarySteps
  <2> QED
    BY <2>3, <2>5 DEF Ordinary
<1> QED
  BY <1>1, <1>2

\* Between handlers the keyboard is on focused_window(), the most recently focused window
\* that the selected monitor owns and shows, unless the session is locked or a window waits
\* for its rules (view, tag, focus_stack_step, commit, toplevel_destroyed, unlock, hotplug):
\* as long as each step is one of those that mind the focus.
THEOREM KeyboardFollowsFocus == Spec /\ [][FocusMinded]_vars => []KeyboardOnFocusedWindow
<1>1. Init => KeyboardOnFocusedWindow /\ NoMonitorNoWindow
  <2> SUFFICES ASSUME Init PROVE KeyboardOnFocusedWindow /\ NoMonitorNoWindow
    OBVIOUS
  <2>1. windows = <<>> /\ focusStack = <<>> /\ focus = None
    BY DEF Init
  <2>2. FirstIn(<<>>, OwnedBy(win, monitors, selMon), None) = None
    BY DEF FirstIn
  <2> QED
    BY <2>1, <2>2 DEF KeyboardOnFocusedWindow, FocusedWindow, FocusedIn, NoMonitorNoWindow,
       Elements
<1>2. /\ KeyboardOnFocusedWindow /\ NoMonitorNoWindow /\ IInv /\ IndexInv
      /\ [Next]_vars /\ [FocusMinded]_vars
      => KeyboardOnFocusedWindow' /\ NoMonitorNoWindow'
  <2> SUFFICES ASSUME KeyboardOnFocusedWindow, NoMonitorNoWindow, IInv, IndexInv,
                      [Next]_vars, [FocusMinded]_vars
               PROVE  KeyboardOnFocusedWindow' /\ NoMonitorNoWindow'
    OBVIOUS
  <2>1. CASE UNCHANGED vars
    <3>1. UNCHANGED <<windows, focusStack, win, monitors, selMon, focus, locked>>
      BY <2>1 DEF vars
    <3> QED
      BY <3>1 DEF KeyboardOnFocusedWindow, FocusedWindow, NoMonitorNoWindow
  <2>2. CASE Next /\ FocusMinded
    <3>1. NoMonitorNoWindow'
      BY <2>2, NoWindowStep DEF IInv
    <3>2. KeyboardOnFocusedWindow'
      BY <2>2, BoundMinded, ClientMinded, DeviceMinded, LockMinded DEF IInv, Next
    <3> QED
      BY <3>1, <3>2
  <2> QED
    BY <2>1, <2>2
<1> QED
  BY <1>1, <1>2, Invariance, IndicesInvariant, PTL DEF Spec
=============================================================================
