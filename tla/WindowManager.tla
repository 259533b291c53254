--------------------------- MODULE WindowManager ---------------------------
(***************************************************************************)
(* The window-management core of rwl: struct Rwl's windows, focus stack,   *)
(* monitors and tag history, the per-window WindowState, the set of        *)
(* windows mapped in the Space, and the seat's keyboard focus.  Every      *)
(* handler runs to completion on the calloop thread, so one action is one  *)
(* whole handler, nested calls included.                                   *)
(*                                                                         *)
(* The build modelled has the default cargo features; the configuration    *)
(* has tag_transition = false, no Lua callbacks, and swallowing enabled.   *)
(* Geometry, layouts, borders and rendering are abstracted away.  Indices  *)
(* into the monitor list are 1-based here.                                 *)
(*                                                                         *)
(* is_urgent has no variable: request_activation sets it and               *)
(* focus_urgent, in the same handler, focuses that window and clears it.   *)
(***************************************************************************)
EXTENDS Monitors, FiniteSets

CONSTANTS
    Window,        \* toplevel surfaces clients may create
    None,          \* Option::None
    LockSurface,   \* the surface of an ext-session-lock-v1 client
    Output,        \* connectors that may be plugged in
    Follow,        \* Config::follow
    AutoBack,      \* Config::auto_back_empty_tag
    MouseFocus,    \* Config::mouse_focus
    Rules,         \* what the configured rules may make of a new window
    Lineage,       \* terminals among a window's process ancestors, nearest first
    FixedSize,     \* windows whose first buffer has min size = max size
    ScratchApps,   \* windows whose app id matches the scratchpad command
    Masks,         \* BOUND: the tag masks bindings and commands carry
    Bindings,      \* BOUND: the actions that are bound to a key or a command
    Events         \* BOUND: the kinds of client and device events that occur;
                   \* "headless" lets windows open while no output is plugged in

VARIABLES
    windows,       \* Rwl::windows, front of the list first
    focusStack,    \* Rwl::focus_stack, most recently focused first
    win,           \* WindowState of every window
    monitors,      \* Rwl::monitors
    selMon,        \* Rwl::sel_mon
    tagHistory,    \* Rwl::tag_history
    space,         \* the windows mapped in Rwl::space
    focus,         \* the surface with keyboard focus
    locked         \* Rwl::locked, and who holds the lock

vars == <<windows, focusStack, win, monitors, selMon, tagHistory, space, focus, locked>>

ASSUME WindowAssumption == None \notin Window /\ LockSurface \notin Window
ASSUME LockSurfaceAssumption == LockSurface # None
ASSUME NoneAssumption == None # {}
ASSUME OutputAssumption == IsFiniteSet(Output)
ASSUME RulesAssumption ==
    Rules \subseteq [tags : SUBSET (Nat \ {0}), floating : BOOLEAN, scratch : BOOLEAN,
                     monitor : Nat, switchToTag : BOOLEAN]
ASSUME LineageAssumption == Lineage \in [Window -> Seq(Window)]
\* No process is an ancestor of its own ancestors (find_target starts at the parent).
ASSUME AncestryAssumption ==
    \A v, w \in Window : v \in Elements(Lineage[w]) => w \notin Elements(Lineage[v])

\* A monitor index; 1 also stands for the placeholder 0 kept while no monitor exists.
MonitorIndex == 1 .. (Cardinality(Output) + 1)

WindowState ==
    [tags : TagSets, mon : Nat \ {0}, floating : BOOLEAN, fullscreen : BOOLEAN,
     rulesApplied : BOOLEAN, named : BOOLEAN, bufferMapped : BOOLEAN,
     needsCentering : BOOLEAN, scratch : BOOLEAN,
     switchToTag : TagSets \cup {None}, swallowing : Window \cup {None},
     swallowed : BOOLEAN]

\* WindowState::new
NewWindow ==
    [tags |-> {}, mon |-> 1, floating |-> FALSE, fullscreen |-> FALSE,
     rulesApplied |-> FALSE, named |-> FALSE, bufferMapped |-> FALSE,
     needsCentering |-> FALSE, scratch |-> FALSE,
     switchToTag |-> None, swallowing |-> None, swallowed |-> FALSE]

TypeOK ==
    /\ windows \in Seq(Window)
    /\ focusStack \in Seq(Window)
    /\ win \in [Window -> WindowState]
    /\ monitors \in Seq(MonitorRecords(Output))
    /\ selMon \in Nat \ {0}
    /\ tagHistory \in Seq(Seq(TagSets))
    /\ space \subseteq Window
    /\ focus \in Window \cup {None, LockSurface}
    /\ locked \in {"no", "native", "ext"}

Init ==
    /\ windows = <<>>
    /\ focusStack = <<>>
    /\ win = [w \in Window |-> NewWindow]
    /\ monitors = <<>>
    /\ selMon = 1
    /\ tagHistory = <<>>
    /\ space = {}
    /\ focus = None
    /\ locked = "no"

-----------------------------------------------------------------------------
(***************************************************************************)
(* Queries.  They take the lists as arguments because handlers ask them in *)
(* the middle of a sequence of changes.                                    *)
(***************************************************************************)

\* sel_monitor().map_or(0, Monitor::tags)
ShownTags(ms, i) == IF i \in DOMAIN ms THEN TagsOf(ms[i]) ELSE {}

\* The same with the default the code uses for placement, map_or(1, ...).
PlacementTags(ms, i) == IF i \in DOMAIN ms THEN TagsOf(ms[i]) ELSE {1}

\* MUTANT of OwnedBy: any window of monitor i counts, shown or not.
OwnedByUnseen(wn, ms, i) == {w \in Window : wn[w].mon = i /\ wn[w].tags # {}}

\* The windows monitor i owns and shows.
OwnedBy(wn, ms, i) ==
    {w \in Window : wn[w].mon = i /\ wn[w].tags \cap ShownTags(ms, i) # {}}

\* focused_window() with the given stack and selected monitor.
FocusedIn(stack, wn, ms, sel) == FirstIn(stack, OwnedBy(wn, ms, sel), None)
FocusedWindow == FocusedIn(focusStack, win, monitors, selMon)

\* The union of every monitor's visible tag set.
AllVisible(ms) == UNION {TagsOf(ms[i]) : i \in DOMAIN ms}

-----------------------------------------------------------------------------
(***************************************************************************)
(* arrange(): which windows it unmaps from the space and which it maps.    *)
(***************************************************************************)

HiddenFrom(wn, ms) ==
    {w \in Window : wn[w].swallowed \/ wn[w].tags \cap AllVisible(ms) = {}}

ShownOn(wn, m) ==
    {w \in Window : /\ ~wn[w].swallowed
                    /\ wn[w].tags \cap TagsOf(m) # {}
                    /\ wn[w].fullscreen \/ wn[w].floating \/ wn[w].rulesApplied}

\* arrange(i) for each of the monitors in I.
Arranged(mapped, ws, wn, ms, I) ==
    IF I = {} THEN mapped
    ELSE (mapped \ (Elements(ws) \cap HiddenFrom(wn, ms)))
           \cup (Elements(ws) \cap UNION {ShownOn(wn, ms[i]) : i \in I})

\* MUTANT of ArrangedAll: only the selected monitor is arranged.
ArrangedSelected(mapped, ws, wn, ms) == Arranged(mapped, ws, wn, ms, {selMon} \cap DOMAIN ms)

\* arrange_all()
ArrangedAll(mapped, ws, wn, ms) == Arranged(mapped, ws, wn, ms, DOMAIN ms)

-----------------------------------------------------------------------------
(***************************************************************************)
(* focus_window(w): raise w, then (unless the session is locked) give it   *)
(* the keyboard and, when the top of the stack changed, select its         *)
(* monitor.                                                                *)
(***************************************************************************)

StackAfter(stack, w) == IF w = None THEN stack ELSE Raise(stack, w)

SelectedAfter(stack, wn, sel, w) ==
    IF locked # "no" \/ w = None \/ Top(stack, None) = w THEN sel ELSE wn[w].mon

\* MUTANT of FocusAfter: the lock is not looked at.
FocusAfterUnlocked(w) == w

FocusAfter(w) == IF locked # "no" THEN focus ELSE w

\* The whole of focus_window as a step, started from the given stack and selection.
FocusWindow(stack, wn, sel, w) ==
    /\ focusStack' = StackAfter(stack, w)
    /\ selMon' = SelectedAfter(stack, wn, sel, w)
    /\ focus' = FocusAfter(w)

\* The arrange() calls focus_window makes by itself.
FocusArranged(mapped, stack, wn, w) ==
    LET old == Top(stack, None)
        touched == {wn[w].mon} \cup (IF old = None THEN {} ELSE {wn[old].mon})
    IN  IF locked # "no" \/ w = None \/ old = w THEN mapped
        ELSE Arranged(mapped, windows, wn, monitors, touched \cap DOMAIN monitors)

\* arrange_all() followed by focus_window(focused_window()), the end of most handlers.
SettleOn(stack, ws, wn, ms, sel) ==
    /\ space' = ArrangedAll(space, ws, wn, ms)
    /\ FocusWindow(stack, wn, sel, FocusedIn(stack, wn, ms, sel))

-----------------------------------------------------------------------------
(***************************************************************************)
(* Tag actions (Rwl::dispatch)                                             *)
(***************************************************************************)

\* update_tag_history(i, target), called before the view changes.
HistoryAfter(i, target) ==
    IF i \in DOMAIN monitors
    THEN [tagHistory EXCEPT ![i] = Recorded(tagHistory[i], TagsOf(monitors[i]), target)]
    ELSE tagHistory

\* monitors.get_mut(i).map(change)
MonitorsWith(i, m) ==
    IF i \in DOMAIN monitors THEN [monitors EXCEPT ![i] = m] ELSE monitors

\* The view of the selected monitor changes to m; history gets `target`.
SwitchView(m, target) ==
    /\ tagHistory' = HistoryAfter(selMon, target)
    /\ monitors' = MonitorsWith(selMon, m)
    /\ SettleOn(focusStack, windows, win, MonitorsWith(selMon, m), selMon)
    /\ UNCHANGED <<windows, win, locked>>

\* Action::View, and Action::ViewTagSpawn up to the command it spawns.
View ==
    /\ "View" \in Bindings /\ selMon \in DOMAIN monitors
    /\ \E mask \in Masks : SwitchView(ViewOf(monitors[selMon], mask), mask)

ViewPrev ==
    /\ "ViewPrev" \in Bindings /\ selMon \in DOMAIN monitors
    /\ LET m == monitors[selMon]
       IN  SwitchView(ViewPrevOf(m), PreviousTagsOf(m))

ViewNextOccTag ==
    /\ "ViewNextOccTag" \in Bindings /\ selMon \in DOMAIN monitors
    /\ \E dir \in {1, -1} :
         LET m == monitors[selMon]
             occupied == UNION {win[w].tags : w \in Elements(windows)}
             mask == NextOccupiedTag(m, occupied, dir)
         IN  /\ mask # {}
             /\ SwitchView(ViewOf(m, mask), mask)

ToggleView ==
    /\ "ToggleView" \in Bindings /\ selMon \in DOMAIN monitors
    /\ \E mask \in Masks :
         LET m == monitors[selMon]
             shown == Xor(TagsOf(m), mask) \cap Tags
         IN  SwitchView(ToggleViewOf(m, mask), IF shown = {} THEN TagsOf(m) ELSE shown)

\* Action::Tag: move the focused window to a mask and, if `follow`, view it.
Tag ==
    /\ "Tag" \in Bindings
    /\ \E mask \in {k \cap Tags : k \in Masks} \ {{}} :
         LET w == FocusedWindow
             moved == IF w = None THEN win ELSE [win EXCEPT ![w].tags = mask]
             follows == w # None /\ Follow /\ selMon \in DOMAIN monitors
             ms == IF follows THEN MonitorsWith(selMon, ViewOf(monitors[selMon], mask))
                   ELSE monitors
         IN  /\ win' = moved
             /\ monitors' = ms
             /\ tagHistory' = IF follows THEN HistoryAfter(selMon, mask) ELSE tagHistory
             /\ SettleOn(focusStack, windows, moved, ms, selMon)
             /\ UNCHANGED <<windows, locked>>

\* Action::ToggleTag: arrange_all(), without a focus_window call.
ToggleTag ==
    /\ "ToggleTag" \in Bindings /\ FocusedWindow # None
    /\ \E mask \in Masks :
         LET w == FocusedWindow
             new == Xor(win[w].tags, mask) \cap Tags
         IN  /\ new # {}
             /\ win' = [win EXCEPT ![w].tags = new]
             /\ space' = ArrangedAll(space, windows, win', monitors)
             /\ UNCHANGED <<windows, focusStack, monitors, selMon, tagHistory, focus, locked>>

-----------------------------------------------------------------------------
(***************************************************************************)
(* Actions on the focused window and on the stack                          *)
(***************************************************************************)

\* The target of focus_stack_step: the next or previous window of the selected monitor
\* in list order, cyclically.
FocusStep(forward) ==
    LET tagged == OwnedBy(win, monitors, selMon)
        on == {i \in DOMAIN windows : windows[i] \in tagged /\ win[windows[i]].rulesApplied}
        cur == {i \in on : windows[i] = FocusedWindow}
        after == {i \in on : \A c \in cur : i > c}
        before == {i \in on : \A c \in cur : i < c}
        ahead == IF forward THEN after ELSE before
        c == IF ahead # {} /\ cur # {} THEN ahead ELSE on
    IN  IF on = {} THEN None
        ELSE IF forward THEN windows[CHOOSE i \in c : \A j \in c : i <= j]
        ELSE windows[CHOOSE i \in c : \A j \in c : j <= i]

FocusStack ==
    /\ "FocusStack" \in Bindings
    /\ \E forward \in BOOLEAN :
         LET w == FocusStep(forward)
         IN  /\ w # None
             /\ space' = FocusArranged(space, focusStack, win, w)
             /\ FocusWindow(focusStack, win, selMon, w)
             /\ UNCHANGED <<windows, win, monitors, tagHistory, locked>>

\* Rwl::zoom
Zoom ==
    /\ "Zoom" \in Bindings
    /\ LET f == FocusedWindow
           tiled == {w \in OwnedBy(win, monitors, selMon) :
                         ~win[w].floating /\ win[w].rulesApplied}
           c == FirstIn(windows, tiled \ {f}, None)
           promoted == IF FirstIn(windows, tiled, None) = f THEN c ELSE f
           ws == Raise(windows, promoted)
       IN  /\ f # None
           /\ ~win[f].floating /\ ~win[f].fullscreen
           /\ c # None
           /\ windows' = ws
           /\ space' = ArrangedAll(space, ws, win, monitors)
           /\ FocusWindow(focusStack, win, selMon, promoted)
           /\ UNCHANGED <<win, monitors, tagHistory, locked>>

\* The focused window's state changes to s and everything is arranged again.
ChangeFocused(s) ==
    /\ win' = [win EXCEPT ![FocusedWindow] = s]
    /\ space' = ArrangedAll(space, windows, win', monitors)
    /\ UNCHANGED <<windows, focusStack, monitors, selMon, tagHistory, focus, locked>>

ToggleFloating ==
    /\ "ToggleFloating" \in Bindings /\ FocusedWindow # None
    /\ LET s == win[FocusedWindow]
       IN  ChangeFocused([s EXCEPT !.floating = ~s.floating,
                                   !.needsCentering = s.needsCentering \/ ~s.floating])

ToggleFullscreen ==
    /\ "ToggleFullscreen" \in Bindings /\ FocusedWindow # None
    /\ LET s == win[FocusedWindow]
       IN  ChangeFocused([s EXCEPT !.fullscreen = ~s.fullscreen])

\* dir_to_monitor
Neighbours(i) ==
    IF Len(monitors) < 2 THEN {}
    ELSE {(i % Len(monitors)) + 1, ((i + Len(monitors) - 2) % Len(monitors)) + 1}

FocusMon ==
    /\ "FocusMon" \in Bindings
    /\ \E next \in Neighbours(selMon) :
         /\ FocusWindow(focusStack, win, next, FocusedIn(focusStack, win, monitors, next))
         /\ space' = ArrangedAll(space, windows, win, monitors)
         /\ UNCHANGED <<windows, win, monitors, tagHistory, locked>>

TagMon ==
    /\ "TagMon" \in Bindings /\ FocusedWindow # None
    /\ \E next \in Neighbours(selMon) :
         LET f == FocusedWindow
             moved == [win EXCEPT ![f].tags = TagsOf(monitors[next]), ![f].mon = next]
         IN  /\ win' = moved
             /\ space' = ArrangedAll(space, windows, moved, monitors)
             /\ IF Follow THEN FocusWindow(focusStack, moved, next, f)
                ELSE UNCHANGED <<focusStack, selMon, focus>>
             /\ UNCHANGED <<windows, monitors, tagHistory, locked>>

(***************************************************************************)
(* Scratchpads.  Hiding clears the tags and takes the window off the focus *)
(* stack; showing gives it the selected monitor's tags and focuses it.     *)
(***************************************************************************)

\* MUTANT of HideScratch: the window keeps its tags.
HideScratchTagged(w) ==
    /\ SettleOn(Without(focusStack, w), windows, win, monitors, selMon)
    /\ UNCHANGED <<windows, win, monitors, tagHistory, locked>>

HideScratch(w) ==
    LET stack == Without(focusStack, w)
        hidden == [win EXCEPT ![w].tags = {}]
    IN  /\ win' = hidden
        /\ SettleOn(stack, windows, hidden, monitors, selMon)
        /\ UNCHANGED <<windows, monitors, tagHistory, locked>>

ShowScratch(w) ==
    LET shown == [win EXCEPT ![w].tags = PlacementTags(monitors, selMon)]
    IN  /\ win' = shown
        /\ space' = ArrangedAll(space, windows, shown, monitors)
        /\ FocusWindow(focusStack, shown, selMon, w)
        /\ UNCHANGED <<windows, monitors, tagHistory, locked>>

HideOrShow(w, hide) == IF hide THEN HideScratch(w) ELSE ShowScratch(w)

\* find_scratch
ScratchWindow == FirstIn(windows, {w \in Window : win[w].scratch}, None)

\* window_visible_on the selected monitor's tags
VisibleHere(w) == win[w].tags \cap ShownTags(monitors, selMon) # {}

ToggleScratch ==
    /\ "ToggleScratch" \in Bindings /\ locked = "no"
    /\ ScratchWindow # None
    /\ HideOrShow(ScratchWindow, VisibleHere(ScratchWindow))

FocusOrToggleScratch ==
    /\ "FocusOrToggleScratch" \in Bindings /\ locked = "no"
    /\ ScratchWindow # None
    /\ HideOrShow(ScratchWindow, FocusedWindow = ScratchWindow)

FocusOrToggleMatchingScratch ==
    /\ "FocusOrToggleMatchingScratch" \in Bindings /\ locked = "no"
    /\ LET w == FirstIn(windows, {v \in Window : win[v].scratch \/
                                       (v \in ScratchApps /\ win[v].named)}, None)
       IN  w # None /\ HideOrShow(w, VisibleHere(w))

-----------------------------------------------------------------------------
(***************************************************************************)
(* Windows come, get their rules on their first commit, and go.            *)
(***************************************************************************)

\* new_toplevel
NewToplevel(w) ==
    /\ w \notin Elements(windows)
    /\ monitors # <<>> \/ "headless" \in Events
    /\ LET stack == focusStack
           placed == [win EXCEPT ![w] =
                         [NewWindow EXCEPT !.tags = PlacementTags(monitors, selMon),
                                           !.mon = selMon]]
           old == Top(stack, None)
           touched == {selMon} \cup (IF old = None THEN {} ELSE {win[old].mon})
       IN  /\ win' = placed
           /\ windows' = <<w>> \o windows
           /\ focusStack' = Raise(stack, w)
           /\ space' = Arranged(space \cup {w}, windows', placed, monitors,
                                touched \cap DOMAIN monitors)
    /\ UNCHANGED <<monitors, selMon, tagHistory, focus, locked>>

\* MUTANT of SwallowTarget: a terminal that is already hidden is taken again.
SwallowTargetTaken(w) ==
    FirstIn(Lineage[w], {t \in Elements(windows) \ {w} : win[t].named}, None)

\* swallow::find_target: the nearest live, named, not yet swallowed terminal.
SwallowTarget(w) ==
    FirstIn(Lineage[w], {t \in Elements(windows) \ {w} : win[t].named /\ ~win[t].swallowed},
            None)

\* swallow::try_swallow / do_swallow on the window states wn.
Swallow(wn, w) ==
    LET t == SwallowTarget(w)
    IN  IF t = None THEN wn
        ELSE [wn EXCEPT
                ![w] = [wn[w] EXCEPT !.tags = wn[t].tags, !.mon = wn[t].mon,
                                     !.floating = wn[t].floating,
                                     !.needsCentering = wn[t].floating,
                                     !.swallowing = t],
                ![t] = [wn[t] EXCEPT !.swallowed = TRUE]]

\* target_monitor_for_window
RuleMonitor(r) ==
    IF r.monitor = 0 THEN selMon
    ELSE LET last == IF monitors = <<>> THEN 1 ELSE Len(monitors)
         IN  IF r.monitor < last THEN r.monitor ELSE last

\* Whether rule outcome r makes the window's monitor jump to the rule's tags.
RuleSwitches(w, r) == r.switchToTag /\ r.tags # {} /\ SwallowTarget(w) = None

\* apply_rules for a window without a parent.  A rule's tags may lie past tag_count.
RuledState(w, r) ==
    LET i == RuleMonitor(r)
        jumps == RuleSwitches(w, r) /\ i \in DOMAIN monitors
                   /\ TagsOf(monitors[i]) # r.tags \cap Tags
        floats == win[w].floating \/ r.floating
    IN  [win[w] EXCEPT
            !.rulesApplied = TRUE, !.named = TRUE,
            !.tags = IF r.tags # {} THEN r.tags \cap Tags ELSE PlacementTags(monitors, i),
            !.mon = i, !.floating = floats, !.needsCentering = floats,
            !.scratch = r.scratch,
            !.switchToTag = IF jumps THEN TagsOf(monitors[i]) ELSE win[w].switchToTag]

\* apply_rules for a window whose parent is p (None when p is not mapped).
ParentedState(w, p) ==
    [win[w] EXCEPT
        !.rulesApplied = TRUE, !.named = TRUE, !.floating = TRUE, !.needsCentering = TRUE,
        !.tags = IF p = None THEN PlacementTags(monitors, selMon) ELSE win[p].tags,
        !.mon = IF p = None THEN selMon ELSE win[p].mon]

\* The part of commit() that runs when the surface has a buffer: the first buffer
\* maps the window, a fixed-size window then floats, and a window waiting to be
\* centred is put in the space if any monitor shows it.
FloatsAtMap(wn, w) ==
    w \in FixedSize /\ ~wn[w].bufferMapped /\ ~wn[w].floating /\ ~wn[w].fullscreen

Centres(wn, ms, w) ==
    (wn[w].needsCentering \/ FloatsAtMap(wn, w)) /\ wn[w].mon \in DOMAIN ms

Buffered(wn, ms, w) ==
    [wn EXCEPT ![w] =
        [wn[w] EXCEPT !.bufferMapped = TRUE,
                      !.floating = wn[w].floating \/ FloatsAtMap(wn, w),
                      !.needsCentering = (wn[w].needsCentering \/ FloatsAtMap(wn, w))
                                           /\ ~Centres(wn, ms, w)]]

CentredSpace(wn, ms, w) ==
    IF Centres(wn, ms, w) /\ wn[w].tags \cap AllVisible(ms) # {} THEN {w} ELSE {}

\* commit() with rules still to be applied: s is what apply_rules makes of w.
CommitRuled(w, s, ms, sized) ==
    LET ruled == Swallow([win EXCEPT ![w] = s], w)
        target == FocusedIn(focusStack, ruled, ms, selMon)
        final == IF sized THEN Buffered(ruled, ms, w) ELSE ruled
    IN  /\ win' = final
        /\ monitors' = ms
        /\ space' = ArrangedAll(space, windows, final, ms)
                      \cup (IF sized THEN CentredSpace(ruled, ms, w) ELSE {})
        /\ FocusWindow(focusStack, ruled, selMon, target)
        /\ UNCHANGED <<windows, locked>>

CommitFirst(w) ==
    /\ w \in Elements(windows) /\ ~win[w].rulesApplied
    /\ \E sized \in BOOLEAN :
        /\ win[w].bufferMapped => sized
        /\ \/ \E r \in Rules :
                LET i == RuleMonitor(r)
                    switches == RuleSwitches(w, r)
                    ms == IF switches /\ i \in DOMAIN monitors
                          THEN MonitorsWith(i, ViewOf(monitors[i], r.tags))
                          ELSE monitors
                IN  /\ tagHistory' = IF switches THEN HistoryAfter(i, r.tags \cap Tags)
                                    ELSE tagHistory
                    /\ CommitRuled(w, RuledState(w, r), ms, sized)
           \/ /\ "parent" \in Events
              /\ \E p \in (Elements(windows) \ {w}) \cup {None} :
                    CommitRuled(w, ParentedState(w, p), monitors, sized)
              /\ UNCHANGED tagHistory

\* commit() of a buffer by a window that has its rules.
CommitBuffer(w) ==
    /\ w \in Elements(windows) /\ win[w].rulesApplied
    /\ win' = Buffered(win, monitors, w)
    /\ space' = (IF FloatsAtMap(win, w) THEN ArrangedAll(space, windows, win', monitors)
                 ELSE space) \cup CentredSpace(win, monitors, w)
    /\ UNCHANGED <<windows, focusStack, monitors, selMon, tagHistory, focus, locked>>

\* Some listed window of monitor i carries a tag of the mask.
OccupiedOn(ws, i, mask) ==
    \E v \in Elements(ws) : win[v].mon = i /\ win[v].tags \cap mask # {}

\* MUTANT of AutoBackTarget: the newest history entry is taken, with windows or without.
AutoBackTargetNewest(ws, i, left) ==
    LET past == Without(tagHistory[i], TagsOf(monitors[i]))
    IN  IF past = <<>> THEN PreviousTagsOf(monitors[i]) ELSE past[Len(past)]

\* MUTANT of AutoBackTarget: the fallback takes any window, one with no tag too.
AutoBackTargetUntagged(ws, i, left) ==
    LET occupied == {k \in TagSets : OccupiedOn(ws, i, k)} \ {TagsOf(monitors[i])}
        past == LastIn(tagHistory[i], occupied, {})
        any == FirstIn(ws, {v \in Window : win[v].mon = i}, None)
    IN  IF left # None /\ left \in occupied THEN left
        ELSE IF past # {} THEN past
        ELSE IF PreviousTagsOf(monitors[i]) \in occupied THEN PreviousTagsOf(monitors[i])
        ELSE IF any # None THEN win[any].tags
        ELSE TagsOf(monitors[i])

\* auto_back_empty_tag::on_window_closed: where monitor i goes when its view lost
\* its last window; the mask it leaves when there is nowhere to go.  `ws` is the
\* window list without the closed window, `left` the view it recorded at spawn.
AutoBackTarget(ws, i, left) ==
    LET shown == TagsOf(monitors[i])
        occupied == {k \in TagSets : OccupiedOn(ws, i, k)}
        past == LastIn(Without(tagHistory[i], shown), occupied, {})
        prev == PreviousTagsOf(monitors[i])
        any == FirstIn(ws, {v \in Window : win[v].mon = i /\ win[v].tags # {}}, None)
    IN  IF left # None /\ left \in occupied \ {shown} THEN left
        ELSE IF past # {} THEN past
        ELSE IF prev \in occupied \ {shown} THEN prev
        ELSE IF any # None THEN win[any].tags
        ELSE shown

\* Whether the destruction of w makes its monitor leave the tags it shows.
AutoBacks(w, ws) ==
    /\ AutoBack /\ win[w].bufferMapped /\ ~win[w].floating
    /\ ShownTags(monitors, win[w].mon) # {}
    /\ ~OccupiedOn(ws, win[w].mon, ShownTags(monitors, win[w].mon))

\* MUTANT of Unswallowed: the terminal comes back where it was hidden.
UnswallowedInPlace(w, ws) ==
    [v \in Window |->
        IF v = w THEN NewWindow
        ELSE IF v = win[w].swallowing THEN [win[v] EXCEPT !.swallowed = FALSE]
        ELSE IF win[v].swallowing = w THEN [win[v] EXCEPT !.swallowing = None]
        ELSE win[v]]

\* swallow::on_unmap: the terminal w hid comes back where w is; the children of a
\* hidden terminal forget it.  A destroyed window leaves no state.
Unswallowed(w, ws) ==
    LET t == win[w].swallowing
    IN  [v \in Window |->
            IF v = w THEN NewWindow
            ELSE IF v = t /\ v \in Elements(ws)
                 THEN [win[v] EXCEPT !.swallowed = FALSE, !.tags = win[w].tags, !.mon = win[w].mon]
            ELSE IF win[w].swallowed /\ win[v].swallowing = w
                 THEN [win[v] EXCEPT !.swallowing = None]
            ELSE win[v]]

\* tile_master_window
TileMaster(ws, wn, ms, sel) ==
    FirstIn(ws, {v \in OwnedBy(wn, ms, sel) :
                     wn[v].rulesApplied /\ ~wn[v].floating /\ ~wn[v].fullscreen}, None)

\* toplevel_destroyed: auto-back (with a focus_window of its own), then the swallow
\* link, then the focus target.  Whether the layout is tile is left open.
Destroy(w) ==
    /\ w \in Elements(windows)
    /\ LET ws == Without(windows, w)
           stack == Without(focusStack, w)
           i == win[w].mon
           backs == AutoBacks(w, ws)
           ms == IF backs
                 THEN MonitorsWith(i, Reassigned(monitors[i],
                                                 AutoBackTarget(ws, i, win[w].switchToTag)))
                 ELSE monitors
           moved == backs /\ ms # monitors
           refocused == FocusedIn(stack, win, ms, selMon)
           stack1 == IF moved THEN StackAfter(stack, refocused) ELSE stack
           sel1 == IF moved THEN SelectedAfter(stack, win, selMon, refocused) ELSE selMon
           final == Unswallowed(w, ws)
           restored == IF win[w].swallowing \in Elements(ws) THEN win[w].swallowing ELSE None
       IN  \E tiling \in BOOLEAN :
             LET master == IF tiling /\ win[w].bufferMapped
                           THEN TileMaster(ws, final, ms, sel1) ELSE None
                 top == IF restored # None THEN restored
                        ELSE IF master # None THEN master
                        ELSE FocusedIn(stack1, final, ms, sel1)
             IN  /\ windows' = ws
                 /\ win' = final
                 /\ monitors' = ms
                 /\ tagHistory' = IF backs
                                  THEN [tagHistory EXCEPT ![i] =
                                            Without(tagHistory[i], TagsOf(monitors[i]))]
                                  ELSE tagHistory
                 /\ focusStack' = StackAfter(stack1, top)
                 /\ selMon' = SelectedAfter(stack1, final, sel1, top)
                 /\ focus' = IF locked = "no" THEN top ELSE IF focus = w THEN None ELSE focus
                 /\ space' = ArrangedAll(space \ {w}, ws, final, ms)
    /\ UNCHANGED locked

-----------------------------------------------------------------------------
(***************************************************************************)
(* Requests of clients                                                     *)
(***************************************************************************)

\* fullscreen_request, unfullscreen_request (and maximize, which is the same).
FullscreenRequest(w) ==
    /\ "fullscreen" \in Events /\ w \in Elements(windows)
    /\ \E b \in BOOLEAN : win' = [win EXCEPT ![w].fullscreen = b]
    /\ space' = ArrangedAll(space, windows, win', monitors)
    /\ UNCHANGED <<windows, focusStack, monitors, selMon, tagHistory, focus, locked>>

\* parent_changed, to some parent: the next commit applies the rules again.
ParentChanged(w) ==
    /\ "parent" \in Events /\ w \in Elements(windows)
    /\ ~win[w].floating
    /\ win' = [win EXCEPT ![w].rulesApplied = FALSE]
    /\ UNCHANGED <<windows, focusStack, monitors, selMon, tagHistory, space, focus, locked>>

\* dialog_hint_changed, to a dialog or modal hint.
DialogHint(w) ==
    /\ "dialog" \in Events /\ w \in Elements(windows)
    /\ ~win[w].floating
    /\ win' = [win EXCEPT ![w].floating = TRUE, ![w].needsCentering = TRUE]
    /\ space' = ArrangedAll(space, windows, win', monitors)
    /\ UNCHANGED <<windows, focusStack, monitors, selMon, tagHistory, focus, locked>>

\* request_activation and the focus_urgent it calls.
Activate(w) ==
    /\ "activate" \in Events /\ w \in Elements(windows)
    /\ Top(focusStack, None) # w
    /\ LET i == win[w].mon
           ms == IF win[w].tags # {} /\ i \in DOMAIN monitors
                 THEN MonitorsWith(i, ViewOf(monitors[i], win[w].tags)) ELSE monitors
       IN  /\ monitors' = ms
           /\ space' = ArrangedAll(space, windows, win, ms)
           /\ FocusWindow(focusStack, win, i, w)
    /\ UNCHANGED <<windows, win, tagHistory, locked>>

-----------------------------------------------------------------------------
(***************************************************************************)
(* Devices: the pointer, the command socket's own views, and hotplug       *)
(***************************************************************************)

\* process_pointer_motion: the monitor under the pointer is selected even while
\* locked; focus follows the pointer onto a window of the space.
PointerMotion ==
    /\ "pointer" \in Events
    /\ \E i \in DOMAIN monitors \cup {selMon}, w \in space \cup {None} :
         LET follows == /\ locked = "no" /\ MouseFocus /\ w # None
                        /\ w # FocusedIn(focusStack, win, monitors, i)
         IN  /\ IF follows
                THEN /\ FocusWindow(focusStack, win, i, w)
                     /\ space' = FocusArranged(space, focusStack, win, w)
                ELSE selMon' = i /\ UNCHANGED <<focusStack, focus, space>>
             /\ UNCHANGED <<windows, win, monitors, tagHistory, locked>>

\* process_pointer_button: a press on a window, with no button binding.
Click ==
    /\ "click" \in Events /\ locked = "no"
    /\ \E w \in space :
         /\ FocusWindow(focusStack, win, selMon, w)
         /\ space' = FocusArranged(space, focusStack, win, w)
    /\ UNCHANGED <<windows, win, monitors, tagHistory, locked>>

\* cmd_dispatch "view" / "toggleview" for one monitor or for all of them: the
\* history is kept for the selected monitor only.
IpcTarget(i, mask, toggles) ==
    IF toggles THEN Xor(TagsOf(monitors[i]), mask) \cap Tags ELSE mask \cap Tags

IpcViews(I, mask, toggles) ==
    [i \in DOMAIN monitors |->
        IF i \notin I \/ IpcTarget(i, mask, toggles) = {} THEN monitors[i]
        ELSE IF toggles THEN ToggleViewOf(monitors[i], mask)
        ELSE ViewOf(monitors[i], mask)]

IpcView ==
    /\ "ipc" \in Events
    /\ \E I \in {{i} : i \in DOMAIN monitors} \cup {DOMAIN monitors},
          mask \in Masks, toggles \in BOOLEAN :
         LET target == IpcTarget(selMon, mask, toggles)
             ms == IpcViews(I, mask, toggles)
         IN  /\ monitors' = ms
             /\ tagHistory' = IF selMon \in I /\ target # {} THEN HistoryAfter(selMon, target)
                              ELSE tagHistory
             /\ IF selMon \in I
                THEN SettleOn(focusStack, windows, win, ms, selMon)
                ELSE /\ space' = ArrangedAll(space, windows, win, ms)
                     /\ UNCHANGED <<focusStack, selMon, focus>>
    /\ UNCHANGED <<windows, win, locked>>

\* output_added
OutputAdded(o) ==
    /\ \A i \in DOMAIN monitors : monitors[i].output # o
    /\ monitors' = Append(monitors, NewMonitor(o))
    /\ tagHistory' = Append(tagHistory, <<>>)
    /\ space' = ArrangedAll(space, windows, win, monitors')
    /\ UNCHANGED <<windows, focusStack, win, selMon, focus, locked>>

\* MUTANTS of Migrated: the indices above i stay; the tags of migrated windows stay.
MigratedUnshifted(i, target) ==
    [w \in Window |->
        IF win[w].mon = i /\ w \in Elements(windows)
        THEN [win[w] EXCEPT !.tags = IF win[w].tags = {} THEN {}
                                     ELSE PlacementTags(monitors, target),
                            !.mon = target]
        ELSE win[w]]

MigratedUntagged(i, target) ==
    [w \in Window |->
        IF w \notin Elements(windows) THEN win[w]
        ELSE LET home == IF win[w].mon = i THEN target ELSE win[w].mon
             IN  [win[w] EXCEPT !.mon = IF home > i THEN home - 1 ELSE home]]

\* The windows of monitor i go to monitor `target` (hidden scratchpads keep their
\* empty tags) and the indices above i shift down.
Migrated(i, target) ==
    [w \in Window |->
        IF w \notin Elements(windows) THEN win[w]
        ELSE LET home == IF win[w].mon = i THEN target ELSE win[w].mon
             IN  [win[w] EXCEPT
                     !.tags = IF win[w].mon = i /\ win[w].tags # {}
                              THEN PlacementTags(monitors, target) ELSE win[w].tags,
                     !.mon = IF home > i THEN home - 1 ELSE home]]

\* MUTANT of SelectedAfterRemoval: only an index past the end is corrected.
SelectedAfterRemovalUnshifted(i) ==
    LET left == Len(monitors) - 1
    IN  IF left = 0 THEN 1 ELSE IF selMon > left THEN left ELSE selMon

\* "Keep sel_mon valid after the removal."
SelectedAfterRemoval(i) ==
    LET left == Len(monitors) - 1
    IN  IF left = 0 THEN 1
        ELSE IF selMon > i THEN selMon - 1
        ELSE IF selMon > left THEN left ELSE selMon

\* output_removed: no focus_window call follows.
OutputRemoved(i) ==
    LET last == Len(monitors)
        target == IF last <= 1 THEN 1
                  ELSE IF selMon # i THEN selMon
                  ELSE IF i = 1 THEN 2 ELSE 1
    IN  /\ "hotplug" \in Events /\ i \in DOMAIN monitors
        /\ win' = Migrated(i, target)
        /\ monitors' = Dropped(monitors, i)
        /\ tagHistory' = Dropped(tagHistory, i)
        /\ selMon' = SelectedAfterRemoval(i)
        /\ space' = ArrangedAll(space, windows, win', monitors')
        /\ UNCHANGED <<windows, focusStack, focus, locked>>

-----------------------------------------------------------------------------
(***************************************************************************)
(* Locking, as far as it decides who has the keyboard.  The two lockers    *)
(* themselves are in ScreenLock.                                          *)
(***************************************************************************)

\* lock::lock
LockNative ==
    /\ "lock" \in Events /\ locked = "no"
    /\ locked' = "native" /\ focus' = None
    /\ UNCHANGED <<windows, focusStack, win, monitors, selMon, tagHistory, space>>

\* SessionLockHandler::lock leaves the keyboard where it is ...
LockExt ==
    /\ "lock" \in Events /\ locked = "no"
    /\ locked' = "ext"
    /\ UNCHANGED <<windows, focusStack, win, monitors, selMon, tagHistory, space, focus>>

\* ... until the locker's first surface: SessionLockHandler::new_surface.
NewLockSurface ==
    /\ locked = "ext"
    /\ focus' = LockSurface
    /\ UNCHANGED <<windows, focusStack, win, monitors, selMon, tagHistory, space, locked>>

\* MUTANT of Unlock: the top of the focus stack gets the keyboard, shown or not.
UnlockToTop ==
    /\ locked # "no"
    /\ locked' = "no" /\ focus' = Top(focusStack, None)
    /\ UNCHANGED <<windows, focusStack, win, monitors, selMon, tagHistory, space>>

\* lock::unlock and SessionLockHandler::unlock
Unlock ==
    /\ locked # "no"
    /\ locked' = "no" /\ focus' = FocusedWindow
    /\ UNCHANGED <<windows, focusStack, win, monitors, selMon, tagHistory, space>>

-----------------------------------------------------------------------------
BoundAction ==
    \/ View \/ ViewPrev \/ ViewNextOccTag \/ ToggleView \/ Tag \/ ToggleTag
    \/ FocusStack \/ Zoom \/ ToggleFloating \/ ToggleFullscreen \/ FocusMon \/ TagMon
    \/ ToggleScratch \/ FocusOrToggleScratch \/ FocusOrToggleMatchingScratch

ClientEvent(w) ==
    \/ NewToplevel(w) \/ CommitFirst(w) \/ CommitBuffer(w) \/ Destroy(w)
    \/ FullscreenRequest(w) \/ ParentChanged(w) \/ DialogHint(w) \/ Activate(w)

DeviceEvent ==
    \/ PointerMotion \/ Click \/ IpcView
    \/ \E o \in Output : OutputAdded(o)
    \/ \E i \in DOMAIN monitors : OutputRemoved(i)

LockEvent == LockNative \/ LockExt \/ NewLockSurface \/ Unlock

Next ==
    \/ BoundAction
    \/ \E w \in Window : ClientEvent(w)
    \/ DeviceEvent
    \/ LockEvent

Spec == Init /\ [][Next]_vars

-----------------------------------------------------------------------------
(***************************************************************************)
(* What is claimed of every reachable state.                               *)
(***************************************************************************)

\* A window is listed once and stacked at most once, and nothing that left the list
\* (toplevel_destroyed) stays on the focus stack or in the space.
WindowLists ==
    /\ Distinct(windows) /\ Distinct(focusStack)
    /\ Elements(focusStack) \subseteq Elements(windows)
    /\ space \subseteq Elements(windows)

\* Only a hidden scratchpad, which no tag shows, is off the focus stack: any other window
\* can be found again by focused_window().
StackedUnlessHidden ==
    \A w \in Elements(windows) \ Elements(focusStack) : win[w].tags = {}

\* Indices stay valid through hotplug: sel_mon and every mon_idx name a monitor (or the
\* placeholder while there is none), and tag_history has a deque for each monitor.
MonitorIndices ==
    /\ Len(tagHistory) = Len(monitors)
    /\ \A i, j \in DOMAIN monitors : monitors[i].output = monitors[j].output => i = j
    /\ selMon \in DOMAIN monitors \/ (monitors = <<>> /\ selMon = 1)
    /\ \A w \in Elements(windows) :
          win[w].mon \in DOMAIN monitors \/ (monitors = <<>> /\ win[w].mon = 1)

\* No monitor ever shows, or can go back to, the empty tag set: view, toggle_view and
\* the rules refuse it, and auto-back takes its target from the history, from the slots
\* and from windows, none of which may hand it one.
ViewsNonEmpty ==
    /\ \A i \in DOMAIN monitors, s \in {0, 1} : monitors[i].tagset[s] # {}
    /\ \A i \in DOMAIN tagHistory : {} \notin Elements(tagHistory[i])
    /\ \A w \in Window : win[w].switchToTag # {}

\* Each deque of update_tag_history holds a mask at most once and never overflows.
HistorySound ==
    \A i \in DOMAIN tagHistory :
        Distinct(tagHistory[i]) /\ Len(tagHistory[i]) <= HistoryCap

\* After every handler the space holds exactly what the monitors show: a window on no
\* shown tag and a swallowed terminal are unmapped, any other window that has its rules
\* is mapped.  (With no monitor arrange() does not run.)
ShownIffVisible ==
    monitors # <<>> =>
        \A w \in Elements(windows) :
            LET shown == ~win[w].swallowed /\ win[w].tags \cap AllVisible(monitors) # {}
            IN  /\ w \in space => shown
                /\ win[w].rulesApplied /\ shown => w \in space

\* A terminal is hidden exactly while one window of the list holds the link that will
\* bring it back when that window closes (do_swallow / on_unmap).
SwallowPairs ==
    \A t \in DOMAIN win :
        Cardinality({c \in Elements(windows) : win[c].swallowing = t})
            = IF win[t].swallowed THEN 1 ELSE 0

\* Between handlers the keyboard is on focused_window(): the most recently focused
\* window the selected monitor owns and shows (once no window still waits for its rules).
KeyboardOnFocusedWindow ==
    locked = "no" /\ (\A w \in Elements(windows) : win[w].rulesApplied)
        => focus = FocusedWindow

\* The native locker takes the keyboard from every client, and while either locker is up
\* nothing but the external locker's surface can get it.
LockHoldsKeyboard ==
    [][locked # "no" /\ locked' # "no" /\ focus' # focus => focus' \notin Window]_vars

NativeLockSilent == locked = "native" => focus = None

\* A window that closes as the last one of its view takes the view to a tag set that does
\* show a window of that monitor, if the monitor has a window with a tag at all.
AutoBackFindsWindows ==
    [][\A w \in Elements(windows) :
          LET i == win[w].mon
          IN  /\ w \notin Elements(windows')
              /\ AutoBack /\ win[w].bufferMapped /\ ~win[w].floating
              /\ i \in DOMAIN monitors
              /\ \E v \in Elements(windows') : win[v].mon = i /\ win[v].tags # {}
              => \E v \in Elements(windows') : v \in OwnedBy(win', monitors', i)]_vars

\* The monitors that are there before and after a step keep their windows, the selection,
\* their views and their histories, under whatever index they have now.
OutputsKept ==
    LET outputs2 == {monitors'[i].output : i \in DOMAIN monitors'}
        kept == {i \in DOMAIN monitors : monitors[i].output \in outputs2}
    IN  /\ \A w \in Elements(windows) : win[w].mon \in kept =>
              /\ monitors'[win'[w].mon].output = monitors[win[w].mon].output
              /\ win'[w].tags = win[w].tags
        /\ selMon \in kept => monitors'[selMon'].output = monitors[selMon].output
        /\ \A i \in kept, j \in DOMAIN monitors' :
              monitors[i].output = monitors'[j].output
                  => tagHistory'[j] = tagHistory[i] /\ monitors'[j] = monitors[i]

\* Plugging or unplugging an output moves nothing but the windows of the unplugged one:
\* every other window, history and the selection stay with the output they were on.
HotplugKeepsOutputs == [][Len(monitors') # Len(monitors) => OutputsKept]_vars

\* Unplugging an output hides no window: what it showed is shown by another monitor.
UnplugHidesNothing ==
    [][Len(monitors') < Len(monitors) /\ monitors' # <<>> =>
          \A w \in Elements(windows) :
              LET i == win[w].mon
              IN  i \in DOMAIN monitors /\ win[w].rulesApplied /\ w \in space
                    /\ win[w].tags \cap TagsOf(monitors[i]) # {}
                  => w \in space' /\ w \in OwnedBy(win', monitors', win'[w].mon)]_vars

\* While there is a monitor, the keyboard is only ever handed to a window that is on screen
\* when the handler ends.  Not so for a window that has yet to get its rules, nor for a
\* terminal that is swallowed or comes back: focused_window() does not look at is_swallowed,
\* so a binding can pick one, and a terminal comes back where its child was, shown or not.
FocusStaysOnScreen ==
    [][focus' # focus /\ focus' \in Window /\ monitors' # <<>>
         /\ win'[focus'].rulesApplied /\ ~win[focus'].swallowed /\ ~win'[focus'].swallowed
         => focus' \in space']_vars

\* Closing the child of a hidden terminal brings the terminal back in its place, on screen
\* if the child was, with the keyboard: no order of opening, tagging and closing windows
\* leaves a terminal hidden with nothing left to restore it.
ClosingChildRestoresTerminal ==
    [][\A c \in Elements(windows), t \in Elements(windows) :
          c \notin Elements(windows') /\ win[c].swallowing = t =>
              /\ ~win'[t].swallowed
              /\ win'[t].tags = win[c].tags /\ win'[t].mon = win[c].mon
              /\ c \in space /\ monitors # <<>> => t \in space'
              /\ locked = "no" => focus' = t]_vars

-----------------------------------------------------------------------------
(***************************************************************************)
(* What documents and comments of the repository say and the code does not *)
(* keep (see the findings of the README).                                  *)
(***************************************************************************)

\* arrange(), on a swallowed terminal: "unmapped from the space until the child closes".
SwallowedUnmapped == \A t \in Window : win[t].swallowed => t \notin space
=============================================================================
