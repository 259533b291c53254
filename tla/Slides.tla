------------------------------- MODULE Slides -------------------------------
(***************************************************************************)
(* The slide animation between tags (src/features/effects/                 *)
(* tag_transition.rs) with the two parties it is split over: the tag       *)
(* switches, which mark the leaving windows, arrange every monitor and     *)
(* start the entering ones, and the frame loop, which advances the slides  *)
(* and takes finished ones out of the space.  A hidden window that slides  *)
(* out is left in the space by arrange(); from then on only a later frame  *)
(* can remove it.                                                          *)
(*                                                                         *)
(* Time is the set of slides whose duration has passed.  The direction of  *)
(* a slide and the easing curve are left out: a window is `shifted` while  *)
(* slide_offset_x may differ from 0.                                       *)
(***************************************************************************)
EXTENDS Monitors

CONSTANTS
    Window,        \* windows that may open
    Terminal,      \* the ones swallow_terminals names
    Screens,       \* number of monitors
    Masks,         \* masks of bindings, rules and IPC commands
    Events,        \* which of the operations below the instance includes
    Wakeup,        \* the literal 30 of post_transition_wakeup
    None

VARIABLES
    win,           \* Rwl::windows with the WindowState of each; None when not open
    space,         \* the windows Rwl::space holds
    monitors,      \* Rwl::monitors, the view of each
    selMon,
    was_active,    \* Rwl::tag_transition_was_active
    wakeup         \* Rwl::post_transition_wakeup

vars == <<win, space, monitors, selMon, was_active, wakeup>>

Mons == 1 .. Screens

\* slide_start: unset, set less than tag_transition_ms ago, or longer ago.
Starts == {"unset", "running", "over"}

WindowStates ==
    [tags : TagSets, rules_applied : BOOLEAN, buffer_mapped : BOOLEAN,
     is_swallowed : BOOLEAN, swallowing : Window \cup {None},
     slide_out : BOOLEAN, slide_start : Starts, shifted : BOOLEAN]

TypeOK ==
    /\ win \in [Window -> WindowStates \cup {None}]
    /\ space \subseteq Window
    /\ monitors \in [Mons -> MonitorRecords(Mons)]
    /\ selMon \in Mons
    /\ was_active \in BOOLEAN
    /\ wakeup \in 0 .. Wakeup

Opened(ws) == {w \in Window : ws[w] # None}
AllVisible(ms) == UNION {TagsOf(ms[i]) : i \in DOMAIN ms}
OnVisibleTag(ws, ms, w) == ws[w].tags \cap AllVisible(ms) # {}

\* What the constants are: None stands for no window and for no WindowState.
ConstantsSound ==
    /\ Screens \in Nat \ {0} /\ Wakeup \in Nat
    /\ None \notin Window /\ None \notin WindowStates

Init ==
    /\ win = [w \in Window |-> None]
    /\ space = {}
    /\ monitors = [i \in Mons |-> NewMonitor(i)]
    /\ selMon = 1
    /\ was_active = FALSE
    /\ wakeup = 0

-----------------------------------------------------------------------------
(* tag_transition.rs, and the parts of arrange() that read its marks.       *)

Sliding(s) == s.slide_start # "unset"

\* The early return both functions share.
Slides(old, new) == old # {} /\ new \cap Tags \notin {{}, old}

\* mark_slide_outs: every window of the old tags that is not on the new ones.
Marked(ws, old, new) ==
    [w \in Window |->
        IF /\ ws[w] # None /\ Slides(old, new)
           /\ ws[w].tags \cap old # {} /\ ws[w].tags \cap new \cap Tags = {}
        THEN [ws[w] EXCEPT !.slide_out = TRUE, !.slide_start = "running",
                           !.shifted = FALSE]
        ELSE ws[w]]

\* start_tag_transition: the windows of the new tags come in, unless they are
\* still leaving or have drawn nothing yet.
Started(ws, old, new) ==
    [w \in Window |->
        IF /\ ws[w] # None /\ Slides(old, new)
           /\ ws[w].tags \cap new \cap Tags # {} /\ ws[w].tags \cap old = {}
           /\ ~ws[w].slide_out /\ ws[w].buffer_mapped
        THEN [ws[w] EXCEPT !.slide_start = "running", !.shifted = TRUE]
        ELSE ws[w]]

\* arrange() of every monitor: the space afterwards.  A hidden or swallowed
\* window leaves it unless it is sliding out; one whose rules were not applied
\* yet is left as it is.
Arranged(ws, sp, ms) ==
    {w \in Opened(ws) :
        IF ws[w].is_swallowed \/ ~OnVisibleTag(ws, ms, w)
        THEN w \in sp /\ ws[w].slide_out /\ Sliding(ws[w])
        ELSE ws[w].rules_applied \/ w \in sp}

\* arrange() of the monitors `on` only: what is hidden leaves as above, but a window
\* is mapped only where one of them shows it.
ArrangedOn(ws, sp, ms, on) ==
    {w \in Arranged(ws, sp, ms) :
        w \in sp \/ \E i \in on : ws[w].tags \cap TagsOf(ms[i]) # {}}

\* arrange_all() where no transition is pending.
Rearranged(ws, ms) == win' = ws /\ space' = Arranged(ws, space, ms) /\ monitors' = ms

\* mark_slide_outs, arrange_all and start_tag_transition, in that order: by hand
\* in the actions, through pending_tag_transition elsewhere.
Switched(ws, ms, old, new) ==
    /\ win' = Started(Marked(ws, old, new), old, new)
    /\ space' = Arranged(Marked(ws, old, new), space, ms)
    /\ monitors' = ms

FrameIdle == UNCHANGED <<was_active, wakeup>>

-----------------------------------------------------------------------------
(* Tag switches.                                                            *)

\* Action::View, ViewNextOccTag and ViewTagSpawn.
View(mask) ==
    /\ Switched(win, [monitors EXCEPT ![selMon] = ViewOf(@, mask)],
                TagsOf(monitors[selMon]), mask)
    /\ UNCHANGED selMon /\ FrameIdle

\* Action::ViewPrev
ViewPrev ==
    /\ Switched(win, [monitors EXCEPT ![selMon] = ViewPrevOf(@)],
                TagsOf(monitors[selMon]), PreviousTagsOf(monitors[selMon]))
    /\ UNCHANGED selMon /\ FrameIdle

\* Action::ToggleView slides nothing.
ToggleView(mask) ==
    /\ "toggle" \in Events
    /\ Rearranged(win, [monitors EXCEPT ![selMon] = ToggleViewOf(@, mask)])
    /\ UNCHANGED selMon /\ FrameIdle

\* Action::Tag on a focused window; with `follow` the view goes along.
TagWindow(w, mask, follow) ==
    /\ "tag" \in Events
    /\ win[w] # None /\ OnVisibleTag(win, monitors, w)
    /\ mask \cap Tags # {}
    /\ Rearranged([win EXCEPT ![w].tags = mask \cap Tags],
                  IF follow THEN [monitors EXCEPT ![selMon] = ViewOf(@, mask)]
                            ELSE monitors)
    /\ UNCHANGED selMon /\ FrameIdle

\* Action::FocusMon
FocusMon ==
    /\ \E i \in Mons \ {selMon} : selMon' = i
    /\ Rearranged(win, monitors) /\ FrameIdle

\* Action::FocusStack steps to a window of the selected monitor.  When another had
\* the focus, focus_window arranges this monitor and that window's.
FocusStack ==
    /\ \E w \in Opened(win), i \in Mons :
          /\ win[w].rules_applied
          /\ win[w].tags \cap TagsOf(monitors[selMon]) # {}
          /\ Opened(win) # {w}
          /\ space' = ArrangedOn(win, space, monitors, {selMon, i})
    /\ UNCHANGED <<win, monitors, selMon>> /\ FrameIdle

\* The IPC command `view`, on one monitor or on all of them: every monitor is
\* switched and marked in turn, the pair of the last one is left pending for the
\* arrange_all at the end.
IpcView(indices, mask) ==
    /\ "ipc" \in Events
    /\ mask \cap Tags # {}
    /\ LET last == CHOOSE i \in indices : \A j \in indices : j <= i
           marks[n \in 0 .. Screens] ==
               IF n = 0 THEN win
               ELSE IF n \in indices
                    THEN Marked(marks[n - 1], TagsOf(monitors[n]), mask)
                    ELSE marks[n - 1]
           shown == [i \in Mons |->
                        IF i \in indices THEN ViewOf(monitors[i], mask) ELSE monitors[i]]
       IN  /\ win' = Started(marks[Screens], TagsOf(monitors[last]), mask)
           /\ space' = Arranged(marks[Screens], space, shown)
           /\ monitors' = shown
    /\ UNCHANGED selMon /\ FrameIdle

-----------------------------------------------------------------------------
(* Windows that open, draw and close.                                       *)

\* new_toplevel: mapped at once, on the tags in view.
NewToplevel(w) ==
    /\ win[w] = None
    /\ LET ws == [win EXCEPT ![w] =
               [tags |-> TagsOf(monitors[selMon]), rules_applied |-> FALSE,
                buffer_mapped |-> FALSE, is_swallowed |-> FALSE, swallowing |-> None,
                slide_out |-> FALSE, slide_start |-> "unset", shifted |-> FALSE]]
       IN  /\ win' = ws
           /\ space' = Arranged(ws, space \cup {w}, monitors)
    /\ UNCHANGED <<monitors, selMon>> /\ FrameIdle

\* The first commit: apply_rules, with or without a rule that sends the window to
\* other tags and takes the view along, then the arrangement.
CommitFirst(w, mask, switch_to_tag) ==
    /\ win[w] # None /\ ~win[w].rules_applied
    /\ LET view == TagsOf(monitors[selMon])
           placed(ws, tags) ==
               [ws EXCEPT ![w].rules_applied = TRUE, ![w].tags = tags]
       IN  IF switch_to_tag /\ mask \cap Tags # view
           THEN LET ws == placed(Marked(win, view, mask), mask \cap Tags)
                    ms == [monitors EXCEPT ![selMon] = ViewOf(@, mask)]
                IN  /\ win' = Started(ws, view, mask)
                    /\ space' = Arranged(ws, space, ms)
                    /\ monitors' = ms
           ELSE Rearranged(placed(win, IF mask = {} THEN view ELSE mask \cap Tags), monitors)
    /\ mask \cap Tags = {} => mask = {} /\ ~switch_to_tag
    /\ UNCHANGED selMon /\ FrameIdle

\* The first commit of a window started from a terminal, which takes its place.
CommitSwallowing(w, term) ==
    /\ "swallow" \in Events
    /\ win[w] # None /\ ~win[w].rules_applied
    /\ w \notin Terminal
    /\ term \in Terminal \ {w} /\ win[term] # None
    /\ win[term].rules_applied /\ ~win[term].is_swallowed
    /\ Rearranged([win EXCEPT ![w].rules_applied = TRUE, ![w].tags = win[term].tags,
                              ![w].swallowing = term, ![term].is_swallowed = TRUE], monitors)
    /\ UNCHANGED selMon /\ FrameIdle

\* The first commit with a buffer.
CommitBuffer(w) ==
    /\ win[w] # None /\ win[w].rules_applied /\ ~win[w].buffer_mapped
    /\ win' = [win EXCEPT ![w].buffer_mapped = TRUE]
    /\ UNCHANGED <<space, monitors, selMon>> /\ FrameIdle

\* What is left of the windows when w closes: on_unmap restores the terminal it
\* swallowed, or forgets the swallowed terminal that went away.
Closed(w) ==
    LET term == win[w].swallowing
        back == term # None /\ win[term] # None
    IN  [v \in Window |->
            IF v = w \/ win[v] = None THEN None
            ELSE IF back /\ v = term
            THEN [win[v] EXCEPT !.is_swallowed = FALSE, !.tags = win[w].tags]
            ELSE IF win[v].swallowing = w THEN [win[v] EXCEPT !.swallowing = None]
            ELSE win[v]]

\* toplevel_destroyed where the view stays.
Destroy(w) ==
    /\ win[w] # None
    /\ Rearranged(Closed(w), monitors)
    /\ UNCHANGED selMon /\ FrameIdle

\* toplevel_destroyed where auto_back_empty_tag leaves the empty tag of a monitor
\* for the tags of a window that is left, before the terminal is restored.  The
\* order in which the code looks for that window is in WindowManager.
DestroyAndBack(w, i, other) ==
    /\ "autoback" \in Events
    /\ win[w] # None /\ win[w].buffer_mapped
    /\ other \in Opened(win) \ {w}
    /\ \A v \in Opened(win) \ {w} : win[v].tags \cap TagsOf(monitors[i]) = {}
    /\ LET old == TagsOf(monitors[i])
           new == win[other].tags
           ms == [monitors EXCEPT ![i] = Reassigned(@, new)]
           gone == [win EXCEPT ![w] = None]
           switched == Started(Marked(gone, old, new), old, new)
           closed == [v \in Window |->
               IF switched[v] = None THEN None
               ELSE [switched[v] EXCEPT !.is_swallowed = Closed(w)[v].is_swallowed,
                                        !.tags = Closed(w)[v].tags,
                                        !.swallowing = Closed(w)[v].swallowing]]
       IN  /\ win' = closed
           /\ space' = Arranged(closed, Arranged(Marked(gone, old, new), space, ms), ms)
           /\ monitors' = ms
    /\ UNCHANGED selMon /\ FrameIdle

-----------------------------------------------------------------------------
(* The frame loop.                                                          *)

\* MUTANT of Advanced: only windows on a visible tag are advanced.
AdvancedVisible(ws, sp) ==
    [w \in Window |->
        IF w \in sp /\ Sliding(ws[w]) /\ OnVisibleTag(ws, monitors, w)
        THEN [ws[w] EXCEPT !.slide_start = IF @ = "over" THEN "unset" ELSE @,
                           !.shifted = ws[w].slide_out \/ ws[w].slide_start = "running"]
        ELSE ws[w]]

\* advance_tag_transitions: one more step of every slide in the space.
Advanced(ws, sp) ==
    [w \in Window |->
        IF w \notin sp \/ ~Sliding(ws[w]) THEN ws[w]
        ELSE IF ws[w].slide_start = "running" THEN [ws[w] EXCEPT !.shifted = TRUE]
        ELSE [ws[w] EXCEPT !.slide_start = "unset", !.shifted = ws[w].slide_out]]

Finished(ws) == {w \in Opened(ws) : ws[w].slide_out /\ ~Sliding(ws[w])}

\* MUTANT of FinalizedSpace: a finished slide-out is unmapped wherever it is now.
FinalizedSpaceAlways(ws, sp, ms) == sp \ Finished(ws)
\* MUTANT of FinalizedSpace: finished slide-outs are left to the arrangement that
\* follows the last slide.
FinalizedSpaceKept(ws, sp, ms) == sp

\* finalize_slide_outs: a finished slide-out leaves the space, unless its tag is
\* visible again; either way the mark is cleared.
FinalizedSpace(ws, sp, ms) == sp \ {w \in Finished(ws) : ~OnVisibleTag(ws, ms, w)}
Finalized(ws) ==
    [w \in Window |->
        IF w \in Finished(ws)
        THEN [ws[w] EXCEPT !.slide_out = FALSE, !.shifted = FALSE] ELSE ws[w]]

\* The result of advance_tag_transitions.
LeftRunning(ws, sp) == \E w \in sp : ws[w].slide_start = "running"

\* One frame.  When the last slide has ended everything is arranged again, and
\* once more halfway through the frames of the wake-up that follows.
Frame ==
    LET advanced == Advanced(win, space)
        active == LeftRunning(win, space)
        ended == was_active /\ ~active
        left == IF ended THEN Wakeup ELSE wakeup
        next == IF left > 0 THEN left - 1 ELSE 0
        settled == FinalizedSpace(advanced, space, monitors)
    IN  /\ win' = Finalized(advanced)
        /\ space' = IF ended \/ (left > 0 /\ next = Wakeup \div 2)
                    THEN Arranged(Finalized(advanced), settled, monitors) ELSE settled
        /\ was_active' = active
        /\ wakeup' = next
        /\ UNCHANGED <<monitors, selMon>>

\* tag_transition_ms pass.
Tick ==
    /\ \E w \in Opened(win) : win[w].slide_start = "running"
    /\ win' = [w \in Window |->
                  IF win[w] # None /\ win[w].slide_start = "running"
                  THEN [win[w] EXCEPT !.slide_start = "over"] ELSE win[w]]
    /\ UNCHANGED <<space, monitors, selMon>> /\ FrameIdle

-----------------------------------------------------------------------------
Switch ==
    \/ \E mask \in Masks : View(mask) \/ ToggleView(mask)
    \/ ViewPrev
    \/ FocusMon \/ FocusStack
    \/ \E w \in Window, mask \in Masks, follow \in BOOLEAN : TagWindow(w, mask, follow)
    \/ \E indices \in {{selMon}, Mons}, mask \in Masks : IpcView(indices, mask)

ClientStep ==
    \/ \E w \in Window :
          NewToplevel(w) \/ CommitBuffer(w) \/ Destroy(w)
    \/ \E w \in Window, mask \in Masks \cup {{}}, jump \in BOOLEAN : CommitFirst(w, mask, jump)
    \/ \E w, term \in Window : CommitSwallowing(w, term)
    \/ \E w, other \in Window, i \in Mons : DestroyAndBack(w, i, other)

Next == Switch \/ ClientStep \/ Frame \/ Tick

Spec == Init /\ [][Next]_vars

\* The clock runs, and frames are drawn while something slides or is left to
\* arrange: any_transitioning and the wake-up schedule the next one.
Fairness == WF_vars(Frame) /\ WF_vars(Tick)
FairSpec == Spec /\ Fairness

-----------------------------------------------------------------------------
(* Properties.                                                              *)

Hidden(w) == win[w] # None /\ ~OnVisibleTag(win, monitors, w)
Shown(w) == win[w] # None /\ OnVisibleTag(win, monitors, w) /\ ~win[w].is_swallowed

\* A window is drawn away from its place, or left on the screen while its tags are
\* hidden, only as long as a slide of its own is under way: no switch, close or swallow
\* in mid-slide leaves one beside the screen, or on it with nothing to come that takes
\* it off (advance_tag_transitions, finalize_slide_outs).  A terminal that is swallowed
\* in mid-slide may stay until the next arrangement.
OutOfPlaceIsSliding ==
    \A w \in Opened(win) :
        /\ win[w].shifted => Sliding(win[w])
        /\ w \in space /\ Hidden(w) => win[w].slide_out /\ Sliding(win[w])

\* A window that stays on a visible tag is never taken off the screen, whatever
\* marks earlier switches left on it: "never unmap a window that is on a visible
\* tag" (finalize_slide_outs).
VisibleStaysMapped ==
    [][\A w \in space : Shown(w) /\ Shown(w)' => w \in space']_vars

\* A window that arrange() left on the screen to slide out is taken off it in the
\* end, whatever becomes of the other slides.  (A terminal swallowed in mid-slide
\* can stay as long as the user keeps switching: each switch marks it anew.)
HiddenLeavesTheSpace ==
    \A w \in Window : (w \in space /\ Hidden(w)) ~> (w \notin space \/ ~Hidden(w))
=============================================================================
