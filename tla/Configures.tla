----------------------------- MODULE Configures -----------------------------
(***************************************************************************)
(* What a client is told about its window.  rwl decides in arrange() what  *)
(* every window on the view should look like and hands it to smithay,      *)
(* which sends a configure only when it believes that something changed;   *)
(* the client acknowledges and commits in its own time.  The module        *)
(* follows one toplevel, Watched, through the handlers of the window       *)
(* manager; the other windows only contribute to the layout and to the     *)
(* focus stack.  No handler reads one toplevel's role for another, so any  *)
(* window may be the one watched.                                          *)
(*                                                                         *)
(* One monitor with single-tag views; no swallowing, scratchpads, dialogs, *)
(* slide animation or screen lock (WindowManager and Slides have them). *)
(***************************************************************************)
EXTENDS Stacks, Toplevel, FiniteSets

CONSTANTS
    Window,      \* toplevels that may exist
    Watched,     \* the one whose protocol state is followed
    Tag,         \* the tags
    FixedSize,   \* windows whose first buffer has min size = max size
    Events,      \* BOUND: the kinds of bindings and requests that occur
    MaxSent      \* BOUND: unacknowledged configures when a handler starts

ASSUME WatchedAssumption == Watched \in Window /\ None \notin Window
ASSUME NoneAssumption == None \notin ToplevelStates
ASSUME TagAssumption == Tag # {}

VARIABLES
    windows,     \* Rwl::windows, front first
    focusStack,  \* Rwl::focus_stack, most recently focused first
    win,         \* WindowState of every window, and whether its surface has a buffer
    view,        \* the tag the monitor shows
    mapped,      \* Watched is in Rwl::space
    role         \* Watched's xdg_toplevel

vars == <<windows, focusStack, win, view, mapped, role>>

WindowState ==
    [tag : Tag, floating : BOOLEAN, fullscreen : BOOLEAN, rulesApplied : BOOLEAN,
     bufferMapped : BOOLEAN, content : BOOLEAN]

NewWindow(t) ==
    [tag |-> t, floating |-> FALSE, fullscreen |-> FALSE, rulesApplied |-> FALSE,
     bufferMapped |-> FALSE, content |-> FALSE]

TypeOK ==
    /\ windows \in Seq(Window)
    /\ focusStack \in Seq(Window)
    /\ win \in [Window -> WindowState]
    /\ view \in Tag
    /\ mapped \in BOOLEAN
    /\ role \in Roles

Open(w) == w \in Elements(windows)

Init ==
    /\ windows = <<>>
    /\ focusStack = <<>>
    /\ view \in Tag
    /\ win = [w \in Window |-> NewWindow(view)]
    /\ mapped = FALSE
    /\ role = NewRole

-----------------------------------------------------------------------------
(***************************************************************************)
(* arrange(), as far as Watched sees it.  p is the pair of its place in    *)
(* the space and its role; handlers chain several calls.                   *)
(***************************************************************************)

Now == [mapped |-> mapped, role |-> role]

OnView(wn, v) == {w \in Window : wn[w].tag = v}

\* The most recently focused window on the view.
Focused(st, wn, v) == FirstIn(st, OnView(wn, v), None)

Tiled(wn, v) ==
    {w \in OnView(wn, v) : wn[w].rulesApplied /\ ~wn[w].fullscreen /\ ~wn[w].floating}

\* The category arrange() sorts Watched into; "unruled" is skipped.
Placement(wn, v) ==
    LET s == wn[Watched]
    IN  CASE s.tag # v -> "hidden"
          [] s.tag = v /\ s.fullscreen -> "fullscreen"
          [] s.tag = v /\ ~s.fullscreen /\ s.floating -> "floating"
          [] s.tag = v /\ ~s.fullscreen /\ ~s.floating /\ s.rulesApplied -> "tiled"
          [] OTHER -> "unruled"

\* The place of Watched among the tiles, in the order of the list.
TileOf(ws, wn, v) ==
    LET tiles == {i \in DOMAIN ws : ws[i] \in Tiled(wn, v)}
        upTo == {i \in tiles : \E j \in DOMAIN ws : ws[j] = Watched /\ i <= j}
    IN  TileSize(Cardinality(tiles), Cardinality(upTo))

\* What each category's closure makes of the pending state.
Asked(state, ws, st, wn, v) ==
    LET place == Placement(wn, v)
        kept == [state EXCEPT !.tiled = place = "tiled",
                              !.activated = place # "hidden" /\ Focused(st, wn, v) = Watched]
    IN  IF place = "hidden" THEN kept
        ELSE [kept EXCEPT !.fullscreen = place = "fullscreen",
                          !.size = CASE place = "tiled" -> TileOf(ws, wn, v)
                                     [] place = "fullscreen" -> OutputSize
                                     [] OTHER -> ClientSize]

\* MUTANT of Arranged: what is news is only sent when the window was not in the space.
ArrangedQuietly(p, ws, st, wn, v) ==
    IF Watched \notin Elements(ws) \/ Placement(wn, v) = "unruled" THEN p
    ELSE LET drafted == WithPending(p.role, Asked(Draft(p.role), ws, st, wn, v))
         IN  [mapped |-> Placement(wn, v) # "hidden",
              role |-> IF Placement(wn, v) = "hidden" \/ ~p.mapped
                       THEN SendConfigure(drafted) ELSE drafted]

\* A window that is hidden, or that comes back, is always sent a configure; one that stays
\* on the view only when its state changed.
Arranged(p, ws, st, wn, v) ==
    IF Watched \notin Elements(ws) \/ Placement(wn, v) = "unruled" THEN p
    ELSE LET drafted == WithPending(p.role, Asked(Draft(p.role), ws, st, wn, v))
         IN  [mapped |-> Placement(wn, v) # "hidden",
              role |-> IF Placement(wn, v) = "hidden" \/ ~p.mapped
                       THEN SendConfigure(drafted) ELSE SendPending(drafted)]

StackAfter(st, w) == IF w = None THEN st ELSE Raise(st, w)

\* The arrange() focus_window(w) makes when the top of the stack changes.
FocusArranged(p, ws, st, wn, v, w) ==
    IF w = None \/ Top(st, None) = w THEN p
    ELSE Arranged(p, ws, StackAfter(st, w), wn, v)

Becomes(p) == mapped' = p.mapped /\ role' = p.role

\* arrange_all(), then focus_window(focused_window()).
ArrangeThenFocus(p, ws, st, wn, v) ==
    LET top == Focused(st, wn, v)
    IN  /\ focusStack' = StackAfter(st, top)
        /\ Becomes(FocusArranged(Arranged(p, ws, st, wn, v), ws, st, wn, v, top))

\* focus_window(w), then arrange_all().
FocusThenArrange(p, ws, st, wn, v, w) ==
    /\ focusStack' = StackAfter(st, w)
    /\ Becomes(Arranged(FocusArranged(p, ws, st, wn, v, w), ws, StackAfter(st, w), wn, v))

\* arrange_all() alone.
Arrange(p, ws, wn) ==
    /\ Becomes(Arranged(p, ws, focusStack, wn, view))
    /\ UNCHANGED focusStack

-----------------------------------------------------------------------------
(***************************************************************************)
(* Key bindings                                                            *)
(***************************************************************************)

FocusedWindow == Focused(focusStack, win, view)

View(t) ==
    /\ t # view
    /\ view' = t
    /\ ArrangeThenFocus(Now, windows, focusStack, win, t)
    /\ UNCHANGED <<windows, win>>

\* Action::Tag, without `follow`.
TagFocused(t) ==
    /\ FocusedWindow # None /\ t # view
    /\ win' = [win EXCEPT ![FocusedWindow].tag = t]
    /\ ArrangeThenFocus(Now, windows, focusStack, win', view)
    /\ UNCHANGED <<windows, view>>

ToggleFloating ==
    /\ FocusedWindow # None
    /\ win' = [win EXCEPT ![FocusedWindow].floating = ~@]
    /\ Arrange(Now, windows, win')
    /\ UNCHANGED <<windows, view>>

ToggleFullscreen ==
    /\ FocusedWindow # None
    /\ win' = [win EXCEPT ![FocusedWindow].fullscreen = ~@]
    /\ Arrange(Now, windows, win')
    /\ UNCHANGED <<windows, view>>

\* Action::FocusStack, to any window of the view.
FocusWindow(w) ==
    /\ Open(w) /\ win[w].tag = view /\ win[w].rulesApplied
    /\ w # FocusedWindow
    /\ focusStack' = StackAfter(focusStack, w)
    /\ Becomes(FocusArranged(Now, windows, focusStack, win, view, w))
    /\ UNCHANGED <<windows, win, view>>

\* handle_resize of a floating window under a grab: it may have left the view meanwhile.
ResizeGrab ==
    /\ Open(Watched) /\ win[Watched].floating
    /\ role' = SendPending(WithPending(role, [Draft(role) EXCEPT !.size = DraggedSize]))
    /\ UNCHANGED <<windows, focusStack, win, view, mapped>>

-----------------------------------------------------------------------------
(***************************************************************************)
(* Client requests                                                         *)
(***************************************************************************)

\* new_toplevel: an initial configure without Activated, then the window goes on top of
\* the focus stack and the monitor is arranged.
NewToplevel(w) ==
    /\ ~Open(w)
    /\ windows' = <<w>> \o windows
    /\ win' = [win EXCEPT ![w] = NewWindow(view)]
    /\ focusStack' = Raise(focusStack, w)
    /\ LET decorated == WithPending(NewRole, [DefaultState EXCEPT !.serverSide = TRUE])
           p == IF w = Watched THEN [mapped |-> TRUE, role |-> SendConfigure(decorated)]
                ELSE Now
       IN  Becomes(Arranged(p, windows', focusStack', win', view))
    /\ UNCHANGED view

\* fullscreen_request, unfullscreen_request, and maximize, which means the same.
FullscreenRequest(w, on) ==
    /\ Open(w)
    /\ win' = [win EXCEPT ![w].fullscreen = on]
    /\ Arrange(Now, windows, win')
    /\ UNCHANGED <<windows, view>>

\* The three requests of xdg-decoration: server-side becomes pending and all is arranged.
AskServerSide(r) ==
    Arrange([mapped |-> mapped,
             role |-> WithPending(r, [Draft(r) EXCEPT !.serverSide = TRUE])], windows, win)

NewDecoration ==
    /\ Open(Watched) /\ role.decoration = "none"
    /\ AskServerSide([role EXCEPT !.decoration = "unanswered"])
    /\ UNCHANGED <<windows, win, view>>

RequestMode ==
    /\ Open(Watched) /\ role.decoration # "none"
    /\ AskServerSide(role)
    /\ UNCHANGED <<windows, win, view>>

DestroyDecoration ==
    /\ Open(Watched) /\ role.decoration # "none"
    /\ role' = [role EXCEPT !.decoration = "none"]
    /\ UNCHANGED <<windows, focusStack, win, view, mapped>>

Ack(i) ==
    /\ Open(Watched) /\ i \in DOMAIN role.sent
    /\ role' = AckConfigure(role, i)
    /\ UNCHANGED <<windows, focusStack, win, view, mapped>>

\* pre_commit_hook: a null buffer on a surface that had one resets the role.
CommittedRole(w, buffer) ==
    IF w = Watched /\ buffer = "null" /\ win[w].content THEN Unmapped(role) ELSE role

HasContent(w, buffer) == CASE buffer = "new" -> TRUE
                           [] buffer = "null" -> FALSE
                           [] OTHER -> win[w].content

\* The forced configure on the first commit with a buffer: the states again, Activated by
\* the top of the whole stack.
FirstBufferRole(r, s, st) ==
    SendConfigure(WithPending(r,
        [Draft(r) EXCEPT !.activated = Top(st, None) = Watched,
                         !.tiled = ~s.floating /\ ~s.fullscreen,
                         !.fullscreen = s.fullscreen]))

\* The rest of commit(): the forced configure, and a fixed-size window starts to float.
Settle(p, st, w, s) ==
    LET first == s.content /\ ~s.bufferMapped
        floats == first /\ w \in FixedSize /\ ~s.floating /\ ~s.fullscreen
        told == IF first /\ w = Watched THEN [p EXCEPT !.role = FirstBufferRole(@, s, st)]
                ELSE p
        settled == [s EXCEPT !.bufferMapped = @ \/ first, !.floating = @ \/ floats]
    IN  /\ win' = [win EXCEPT ![w] = settled]
        /\ Becomes(IF floats THEN Arranged(told, windows, st, win', view) ELSE told)
        /\ focusStack' = st

\* The first commit: rules choose the tag and floating, then arrange_all and focus_window.
CommitFirst(w, buffer) ==
    /\ Open(w) /\ ~win[w].rulesApplied
    /\ \E t \in Tag, floating \in BOOLEAN :
         LET s == [win[w] EXCEPT !.tag = t, !.floating = @ \/ floating,
                                 !.rulesApplied = TRUE, !.content = HasContent(w, buffer)]
             wn == [win EXCEPT ![w] = s]
             top == Focused(focusStack, wn, view)
             p == Arranged([mapped |-> mapped, role |-> CommittedRole(w, buffer)],
                           windows, focusStack, wn, view)
         IN  Settle(FocusArranged(p, windows, focusStack, wn, view, top),
                    StackAfter(focusStack, top), w, s)

\* MUTANT of CommitLater: no safety net for a role that was reset.
CommitLaterBare(w, buffer) ==
    /\ Open(w) /\ win[w].rulesApplied
    /\ Settle([mapped |-> mapped, role |-> CommittedRole(w, buffer)], focusStack, w,
              [win[w] EXCEPT !.content = HasContent(w, buffer)])

\* A later commit; arrange_all() runs when the initial configure is (again) missing.
CommitLater(w, buffer) ==
    /\ Open(w) /\ win[w].rulesApplied
    /\ LET p == [mapped |-> mapped, role |-> CommittedRole(w, buffer)]
           s == [win[w] EXCEPT !.content = HasContent(w, buffer)]
       IN  Settle(IF p.role.initialSent THEN p
                  ELSE Arranged(p, windows, focusStack, [win EXCEPT ![w] = s], view),
                  focusStack, w, s)

\* A buffer may only follow an acknowledged configure (for the others, see README).
Commit(w, buffer) ==
    /\ w = Watched /\ buffer = "new" => role.acked # None
    /\ CommitFirst(w, buffer) \/ CommitLater(w, buffer)
    /\ UNCHANGED <<windows, view>>

\* toplevel_destroyed: the next focus is the master if the window had been seen.
Close(w) ==
    /\ Open(w)
    /\ windows' = Without(windows, w)
    /\ LET st == Without(focusStack, w)
           master == FirstIn(windows', Tiled(win, view), None)
           top == IF win[w].bufferMapped /\ master # None THEN master
                  ELSE Focused(st, win, view)
       IN  FocusThenArrange(IF w = Watched THEN [mapped |-> FALSE, role |-> NewRole]
                            ELSE Now, windows', st, win, view, top)
    /\ win' = [win EXCEPT ![w] = NewWindow(view)]
    /\ UNCHANGED view

-----------------------------------------------------------------------------
Binding ==
    \/ "tags" \in Events /\ \E t \in Tag : View(t) \/ TagFocused(t)
    \/ "floating" \in Events /\ ToggleFloating
    \/ "fullscreen" \in Events /\ ToggleFullscreen
    \/ "resize" \in Events /\ ResizeGrab
    \/ \E w \in Window : FocusWindow(w)

Request(w) ==
    \/ NewToplevel(w)
    \/ \E on \in BOOLEAN : "fullscreen" \in Events /\ FullscreenRequest(w, on)
    \/ \E buffer \in {"none", "new"} : Commit(w, buffer)
    \/ "unmap" \in Events /\ Commit(w, "null")

Decoration == NewDecoration \/ RequestMode

Next ==
    \/ /\ Len(role.sent) <= MaxSent
       /\ \/ Binding
          \/ \E w \in Window : Request(w)
          \/ "decoration" \in Events /\ Decoration
    \/ DestroyDecoration
    \/ \E i \in DOMAIN role.sent : Ack(i)
    \/ \E w \in Window : Close(w)

Spec == Init /\ [][Next]_vars

-----------------------------------------------------------------------------
(***************************************************************************)
(* Properties                                                              *)
(***************************************************************************)

\* What the last configure sent says is what the last arrange() wanted: whenever a handler
\* changes the layout, the focus or the view, Watched has been sent exactly the state the
\* new arrangement gives it, however many older configures are still unacknowledged.  The
\* step that maps Watched's first buffer is left out: the configure it forces takes
\* Activated from the top of the whole stack, on the view or not (FirstBufferRole).
ArrangeReachesClient ==
    [][ \/ <<windows, focusStack, view>> # <<windows, focusStack, view>>'
        \/ \E w \in Window : <<win[w].tag, win[w].floating, win[w].fullscreen>>
                               # <<win[w].tag, win[w].floating, win[w].fullscreen>>'
        => \/ ~Open(Watched)' \/ Placement(win, view)' = "unruled"
           \/ win[Watched].bufferMapped # win[Watched].bufferMapped'
           \/ Current(role') = Asked(Current(role'), windows', focusStack', win', view')
      ]_vars

\* No change is left unsent: whatever is pending between two handlers is what the client
\* was last sent.
NothingUnsent == role.pending # None /\ Open(Watched) => role.pending = Current(role)

\* An open window always has its initial configure, in particular after it has unmapped
\* itself with a null buffer: a client that waits for it never waits for ever.
AlwaysConfigured == Open(Watched) => role.initialSent

\* rwl forces server-side decorations: no decoration object is ever told client-side.
ServerSideForced == role.decoration # "client"
=============================================================================
