---------------------------- MODULE SlidesProofs ----------------------------
(***************************************************************************)
(* The slides between tags, on any monitors and with any windows: nothing  *)
(* is left beside its place or on the screen of another tag unless a slide *)
(* of its own is under way, and nothing that shows is taken off.           *)
(***************************************************************************)
EXTENDS Slides, StacksLemmas

-----------------------------------------------------------------------------
(* Windows.                                                                 *)

WinMaps == [Window -> WindowStates \cup {None}]

\* Drawn in its place, unless it slides.
InPlace(s) == s.shifted => Sliding(s)

\* A window hides a terminal that is open and ruled, and is none itself.
Links(ws) ==
    \A v, t \in Window :
        ws[v] # None /\ ws[v].swallowing = t
            => v \notin Terminal /\ t \in Terminal /\ ws[t] # None /\ ws[t].rules_applied

Calm(ws) ==
    /\ ws \in WinMaps /\ Links(ws)
    /\ \A w \in Window : ws[w] # None => InPlace(ws[w])

\* The same window with the same tags and links; a slide may have started, but
\* none that leaves a hidden window has ended.
Follows(s, t) ==
    /\ t.tags = s.tags /\ t.rules_applied = s.rules_applied
    /\ t.is_swallowed = s.is_swallowed /\ t.swallowing = s.swallowing
    /\ s.slide_out /\ Sliding(s) => t.slide_out /\ Sliding(t)
    /\ InPlace(s) => InPlace(t)

Alike(ws, wt) ==
    \A w \in Window :
        /\ wt[w] = None <=> ws[w] = None
        /\ ws[w] # None => Follows(ws[w], wt[w])

LEMMA AlikeTransitive ==
    ASSUME NEW ws, NEW wt, NEW wu, Alike(ws, wt), Alike(wt, wu)
    PROVE  Alike(ws, wu)
BY DEF Alike, Follows

LEMMA CalmAlike ==
    ASSUME NEW ws, NEW wt \in WinMaps, Calm(ws), Alike(ws, wt)
    PROVE  Calm(wt)
<1>1. Links(wt)
  BY DEF Calm, Links, Alike, Follows
<1> QED
  BY <1>1 DEF Calm, Alike, Follows

LEMMA MarkedAlike ==
    ASSUME ConstantsSound, NEW ws \in WinMaps, NEW old, NEW new
    PROVE  Marked(ws, old, new) \in WinMaps /\ Alike(ws, Marked(ws, old, new))
<1> DEFINE wt == Marked(ws, old, new)
           out(s) == [s EXCEPT !.slide_out = TRUE, !.slide_start = "running", !.shifted = FALSE]
<1>1. ASSUME NEW s \in WindowStates
      PROVE  /\ out(s) \in WindowStates
             /\ out(s).tags = s.tags /\ out(s).rules_applied = s.rules_applied
             /\ out(s).is_swallowed = s.is_swallowed /\ out(s).swallowing = s.swallowing
             /\ out(s).slide_out = TRUE /\ out(s).slide_start = "running" /\ out(s).shifted = FALSE
  BY DEF WindowStates, Starts
<1>2. ASSUME NEW w \in Window
      PROVE  /\ ws[w] \in WindowStates \cup {None}
             /\ wt[w] = ws[w] \/ (ws[w] # None /\ wt[w] = out(ws[w]))
  BY DEF Marked, WinMaps
<1>3. wt = [w \in Window |-> wt[w]]
  BY DEF Marked
<1> HIDE DEF wt, out
<1>4. wt \in WinMaps
  BY <1>1, <1>2, <1>3 DEF WinMaps
<1>5. Alike(ws, wt)
  <2> SUFFICES ASSUME NEW w \in Window
               PROVE  /\ wt[w] = None <=> ws[w] = None
                      /\ ws[w] # None => Follows(ws[w], wt[w])
    BY DEF Alike
  <2>1. CASE wt[w] = ws[w]
    BY <2>1 DEF Follows
  <2>2. CASE ws[w] # None /\ wt[w] = out(ws[w])
    <3>1. ws[w] \in WindowStates
      BY <1>2, <2>2
    <3>2. wt[w] # None
      BY <1>1, <2>2, <3>1 DEF ConstantsSound
    <3>3. Follows(ws[w], wt[w])
      BY <1>1, <2>2, <3>1 DEF Follows, Sliding, InPlace
    <3> QED
      BY <2>2, <3>2, <3>3
  <2> QED
    BY <1>2, <2>1, <2>2
<1> QED
  BY <1>4, <1>5 DEF wt

LEMMA StartedAlike ==
    ASSUME ConstantsSound, NEW ws \in WinMaps, NEW old, NEW new
    PROVE  Started(ws, old, new) \in WinMaps /\ Alike(ws, Started(ws, old, new))
<1> DEFINE wt == Started(ws, old, new)
           in(s) == [s EXCEPT !.slide_start = "running", !.shifted = TRUE]
<1>1. ASSUME NEW s \in WindowStates
      PROVE  /\ in(s) \in WindowStates
             /\ in(s).tags = s.tags /\ in(s).rules_applied = s.rules_applied
             /\ in(s).is_swallowed = s.is_swallowed /\ in(s).swallowing = s.swallowing
             /\ in(s).slide_out = s.slide_out /\ in(s).slide_start = "running"
  BY DEF WindowStates, Starts
<1>2. ASSUME NEW w \in Window
      PROVE  /\ ws[w] \in WindowStates \cup {None}
             /\ wt[w] = ws[w] \/ (ws[w] # None /\ wt[w] = in(ws[w]))
  BY DEF Started, WinMaps
<1>3. wt = [w \in Window |-> wt[w]]
  BY DEF Started
<1> HIDE DEF wt, in
<1>4. wt \in WinMaps
  BY <1>1, <1>2, <1>3 DEF WinMaps
<1>5. Alike(ws, wt)
  BY <1>1, <1>2 DEF Alike, Follows, ConstantsSound, Sliding, InPlace
<1> QED
  BY <1>4, <1>5 DEF wt

-----------------------------------------------------------------------------
(* Monitors.                                                                *)

Screened == [Mons -> MonitorRecords(Mons)]

LEMMA FlippedTyped ==
    ASSUME NEW O, NEW m \in MonitorRecords(O), NEW shown \in TagSets
    PROVE  /\ Flipped(m, shown) \in MonitorRecords(O)
           /\ Reassigned(m, shown) \in MonitorRecords(O)
           /\ ViewPrevOf(m) \in MonitorRecords(O)
           /\ TagsOf(m) \in TagSets
<1>1. m.selTags \in {0, 1} /\ 1 - m.selTags \in {0, 1} /\ m.tagset \in [{0, 1} -> TagSets] /\ m.output \in O
  BY DEF MonitorRecords
<1>2. TagsOf(m) \in TagSets
  BY <1>1 DEF TagsOf
<1> QED
  BY <1>1, <1>2 DEF MonitorRecords, Flipped, Reassigned, ViewPrevOf

LEMMA ViewsTyped ==
    ASSUME NEW O, NEW m \in MonitorRecords(O), NEW mask
    PROVE  ViewOf(m, mask) \in MonitorRecords(O) /\ ToggleViewOf(m, mask) \in MonitorRecords(O)
<1>1. mask \cap Tags \in TagSets /\ Xor(TagsOf(m), mask) \cap Tags \in TagSets
  BY DEF TagSets
<1> QED
  BY <1>1, FlippedTyped DEF ViewOf, ToggleViewOf

-----------------------------------------------------------------------------
(* The arrangement.                                                         *)

\* What is on the screen while its tags are not is on its way out.
Leaving(ws, sp, ms) ==
    \A w \in sp : ~OnVisibleTag(ws, ms, w) => ws[w].slide_out /\ Sliding(ws[w])

Shows(ws, ms, w) == ws[w] # None /\ OnVisibleTag(ws, ms, w) /\ ~ws[w].is_swallowed

\* After an arrangement only what leaves is out of view, and what was mapped
\* and shows is still mapped; slides that start afterwards change neither.
LEMMA ArrangedSettles ==
    ASSUME NEW ws, NEW sp, NEW ms, NEW wt, Alike(ws, wt)
    PROVE  /\ Arranged(ws, sp, ms) \subseteq Opened(wt)
           /\ Leaving(wt, Arranged(ws, sp, ms), ms)
           /\ \A w \in Window : w \in sp /\ Shows(wt, ms, w) => w \in Arranged(ws, sp, ms)
<1>1. ASSUME NEW w \in Window
      PROVE  /\ wt[w] = None <=> ws[w] = None
             /\ ws[w] # None =>
                  /\ Follows(ws[w], wt[w])
                  /\ OnVisibleTag(ws, ms, w) <=> OnVisibleTag(wt, ms, w)
  BY DEF Alike, Follows, OnVisibleTag
<1> QED
  BY <1>1 DEF Arranged, Opened, Leaving, Shows, Follows

\* The invariant.
SlideInv ==
    /\ Calm(win) /\ space \subseteq Opened(win) /\ Leaving(win, space, monitors)
    /\ monitors \in Screened /\ selMon \in Mons
    /\ was_active \in BOOLEAN /\ wakeup \in 0 .. Wakeup

StaysMapped == \A w \in space : Shown(w) /\ Shown(w)' => w \in space'

\* A step that arranges the windows ws, and then at most starts slides.
LEMMA Settles ==
    ASSUME NEW ws, NEW sp, Calm(ws), win' \in WinMaps, Alike(ws, win'),
           space' = Arranged(ws, sp, monitors'),
           monitors' \in Screened, selMon' \in Mons,
           was_active' \in BOOLEAN, wakeup' \in 0 .. Wakeup
    PROVE  /\ SlideInv'
           /\ space \subseteq sp /\ space \subseteq Window => StaysMapped
<1>1. Calm(win')
  BY CalmAlike
<1>2. /\ space' \subseteq Opened(win')
      /\ Leaving(win', space', monitors')
      /\ \A w \in Window : w \in sp /\ Shows(win', monitors', w) => w \in space'
  BY ArrangedSettles
<1>3. SlideInv'
  <2>1. Calm(win)' /\ (space \subseteq Opened(win))' /\ Leaving(win, space, monitors)'
    BY <1>1, <1>2 DEF Calm, Links, Opened, Leaving, OnVisibleTag, AllVisible
  <2> QED
    BY <2>1 DEF SlideInv
<1>4. ASSUME space \subseteq sp, space \subseteq Window
      PROVE  StaysMapped
  <2> SUFFICES ASSUME NEW w \in space, Shown(w)'
               PROVE  w \in space'
    BY DEF StaysMapped
  <2>1. Shows(win', monitors', w)
    BY DEF Shown, Shows, OnVisibleTag, AllVisible
  <2> QED
    BY <1>2, <1>4, <2>1
<1> QED
  BY <1>3, <1>4

\* A step that marks what leaves, arranges and starts what enters.
LEMMA Switches ==
    ASSUME ConstantsSound, SlideInv,
           NEW ws, Calm(ws), NEW ms \in Screened, NEW old, NEW new,
           Switched(ws, ms, old, new), selMon' \in Mons, FrameIdle
    PROVE  SlideInv' /\ StaysMapped
<1> DEFINE marked == Marked(ws, old, new)
<1>1. ws \in WinMaps
  BY DEF Calm
<1>2. marked \in WinMaps /\ Alike(ws, marked)
  BY <1>1, MarkedAlike
<1>3. Calm(marked)
  BY <1>2, CalmAlike
<1>4. Started(marked, old, new) \in WinMaps /\ Alike(marked, Started(marked, old, new))
  BY <1>2, StartedAlike
<1>5. /\ win' = Started(marked, old, new) /\ space' = Arranged(marked, space, ms)
      /\ monitors' = ms
  BY DEF Switched
<1>6. /\ was_active' \in BOOLEAN /\ wakeup' \in 0 .. Wakeup
      /\ space \subseteq Window
  BY DEF FrameIdle, SlideInv, Opened
<1> HIDE DEF marked
<1>7. win' \in WinMaps /\ Alike(marked, win') /\ monitors' \in Screened
      /\ space' = Arranged(marked, space, monitors')
  BY <1>4, <1>5
<1> QED
  BY <1>3, <1>6, <1>7, Settles

\* A step that only arranges.
LEMMA Rearranges ==
    ASSUME SlideInv, NEW ws, Calm(ws), NEW ms \in Screened, NEW sp, space \subseteq sp,
           win' = ws, space' = Arranged(ws, sp, ms), monitors' = ms,
           selMon' \in Mons, FrameIdle
    PROVE  SlideInv' /\ StaysMapped
<1>1. ws \in WinMaps /\ Alike(ws, ws)
  BY DEF Calm, Alike, Follows
<1>2. /\ was_active' \in BOOLEAN /\ wakeup' \in 0 .. Wakeup
      /\ space \subseteq Window
  BY DEF FrameIdle, SlideInv, Opened
<1> QED
  BY <1>1, <1>2, Settles

-----------------------------------------------------------------------------
(* Tag switches.                                                            *)

LEMMA SettledParts ==
    ASSUME SlideInv
    PROVE  /\ Calm(win) /\ win \in WinMaps /\ monitors \in Screened /\ selMon \in Mons
           /\ \A i \in Mons : monitors[i] \in MonitorRecords(Mons) /\ TagsOf(monitors[i]) \in TagSets
<1>1. Calm(win) /\ win \in WinMaps /\ monitors \in Screened /\ selMon \in Mons
  BY DEF SlideInv, Calm
<1>2. \A i \in Mons : monitors[i] \in MonitorRecords(Mons)
  BY <1>1 DEF Screened
<1>3. {} \in TagSets
  BY DEF TagSets
<1> QED
  BY <1>1, <1>2, <1>3, FlippedTyped

LEMMA ScreenedOnce ==
    ASSUME NEW ms \in Screened, NEW i \in Mons, NEW m \in MonitorRecords(Mons)
    PROVE  [ms EXCEPT ![i] = m] \in Screened
BY DEF Screened

LEMMA ViewStep ==
    ASSUME ConstantsSound, SlideInv, NEW mask, View(mask) \/ ViewPrev
    PROVE  SlideInv' /\ StaysMapped
<1>1. Calm(win) /\ selMon \in Mons /\ monitors[selMon] \in MonitorRecords(Mons)
  BY SettledParts
<1>2. CASE View(mask)
  <2> DEFINE ms == [monitors EXCEPT ![selMon] = ViewOf(monitors[selMon], mask)]
  <2>1. ms \in Screened
    BY <1>1, ViewsTyped, ScreenedOnce, SettledParts
  <2>2. Switched(win, ms, TagsOf(monitors[selMon]), mask) /\ selMon' \in Mons /\ FrameIdle
    BY <1>1, <1>2 DEF View
  <2> QED
    BY <1>1, <2>1, <2>2, Switches
<1>3. CASE ViewPrev
  <2> DEFINE ms == [monitors EXCEPT ![selMon] = ViewPrevOf(monitors[selMon])]
  <2>1. ViewPrevOf(monitors[selMon]) \in MonitorRecords(Mons)
    <3>1. {1} \cap Tags \in TagSets
      BY DEF TagSets
    <3> QED
      BY <1>1, <3>1, FlippedTyped
  <2>2. ms \in Screened
    BY <1>1, <2>1, ScreenedOnce, SettledParts
  <2>3. /\ Switched(win, ms, TagsOf(monitors[selMon]), PreviousTagsOf(monitors[selMon]))
        /\ selMon' \in Mons /\ FrameIdle
    BY <1>1, <1>3 DEF ViewPrev
  <2> QED
    BY <1>1, <2>2, <2>3, Switches
<1> QED
  BY <1>2, <1>3

LEMMA ToggleStep ==
    ASSUME SlideInv, NEW mask, ToggleView(mask) \/ FocusMon
    PROVE  SlideInv' /\ StaysMapped
<1>1. Calm(win) /\ selMon \in Mons /\ monitors[selMon] \in MonitorRecords(Mons)
      /\ monitors \in Screened
  BY SettledParts
<1> DEFINE ms == [monitors EXCEPT ![selMon] = ToggleViewOf(monitors[selMon], mask)]
<1>2. ms \in Screened
  BY <1>1, ViewsTyped, ScreenedOnce
<1>3. /\ Rearranged(win, ms) \/ Rearranged(win, monitors)
      /\ selMon' \in Mons /\ FrameIdle
  BY <1>1 DEF ToggleView, FocusMon
<1> HIDE DEF ms
<1>4. \E m \in Screened : /\ win' = win /\ space' = Arranged(win, space, m) /\ monitors' = m
  BY <1>1, <1>2, <1>3 DEF Rearranged
<1> QED
  BY <1>1, <1>3, <1>4, Rearranges

\* Arranging two of the monitors takes off what arranging all of them does.
LEMMA FocusStackStep ==
    ASSUME SlideInv, FocusStack
    PROVE  SlideInv' /\ StaysMapped
<1>1. Calm(win) /\ win \in WinMaps /\ space \subseteq Opened(win)
  BY SettledParts DEF SlideInv
<1>2. Alike(win, win)
  BY DEF Alike, Follows
<1> DEFINE all == Arranged(win, space, monitors)
<1>3. /\ all \subseteq Opened(win) /\ Leaving(win, all, monitors)
      /\ \A w \in Window : w \in space /\ Shows(win, monitors, w) => w \in all
  BY <1>2, ArrangedSettles
<1>4. /\ win' = win /\ monitors' = monitors /\ selMon' = selMon /\ FrameIdle
      /\ \E on \in SUBSET Mons : space' = ArrangedOn(win, space, monitors, on)
  BY <1>1, SettledParts DEF FocusStack
<1>5. space' \subseteq all /\ space \cap all \subseteq space'
  BY <1>4 DEF ArrangedOn
<1> HIDE DEF all
<1>6. Leaving(win, space', monitors)
  BY <1>3, <1>5 DEF Leaving
<1>7. SlideInv'
  <2>1. (space \subseteq Opened(win))' /\ Leaving(win, space, monitors)'
    BY <1>3, <1>4, <1>5, <1>6 DEF Opened, Leaving, OnVisibleTag, AllVisible
  <2>2. Calm(win)'
    BY <1>1, <1>4 DEF Calm, Links
  <2> QED
    BY <1>4, <2>1, <2>2 DEF SlideInv, FrameIdle
<1>8. StaysMapped
  <2> SUFFICES ASSUME NEW w \in space, Shown(w)'
               PROVE  w \in space'
    BY DEF StaysMapped
  <2>1. w \in Window /\ Shows(win, monitors, w)
    BY <1>1, <1>4 DEF Opened, Shown, Shows, OnVisibleTag, AllVisible
  <2> QED
    BY <1>3, <1>5, <2>1
<1> QED
  BY <1>7, <1>8

\* One window changes, or opens, and goes on sliding as it did.
LEMMA CalmUpdate ==
    ASSUME ConstantsSound, NEW ws, Calm(ws), NEW w \in Window, NEW t \in WindowStates,
           InPlace(t),
           ws[w] # None => (ws[w].rules_applied => t.rules_applied),
           \A u \in Window : t.swallowing = u
               => w \notin Terminal /\ u \in Terminal /\ ws[u] # None /\ ws[u].rules_applied
    PROVE  Calm([ws EXCEPT ![w] = t])
<1> DEFINE wt == [ws EXCEPT ![w] = t]
<1>1. /\ wt \in WinMaps
      /\ \A v \in Window : wt[v] = IF v = w THEN t ELSE ws[v]
  BY DEF Calm, WinMaps
<1>2. t # None
  BY DEF ConstantsSound
<1> HIDE DEF wt
<1>3. Links(wt)
  BY <1>1, <1>2 DEF Links, Calm
<1>4. Calm(wt)
  BY <1>1, <1>3 DEF Calm
<1> QED
  BY <1>4 DEF wt

\* A window gets other tags, and its rules have been applied.
LEMMA CalmPlaced ==
    ASSUME ConstantsSound, NEW ws, Calm(ws), NEW w \in Window, ws[w] # None,
           NEW tags \in TagSets
    PROVE  /\ Calm([ws EXCEPT ![w].tags = tags])
           /\ Calm([ws EXCEPT ![w].rules_applied = TRUE, ![w].tags = tags])
<1> DEFINE s == ws[w]
           t == [s EXCEPT !.tags = tags]
           u == [s EXCEPT !.rules_applied = TRUE, !.tags = tags]
<1>1. s \in WindowStates /\ ws \in WinMaps
  BY DEF Calm, WinMaps
<1>2. /\ t \in WindowStates /\ u \in WindowStates /\ u.rules_applied
      /\ t.rules_applied = s.rules_applied
      /\ t.swallowing = s.swallowing /\ u.swallowing = s.swallowing
      /\ t.shifted = s.shifted /\ t.slide_start = s.slide_start
      /\ u.shifted = s.shifted /\ u.slide_start = s.slide_start
  <2> HIDE DEF s
  <2> QED
    BY <1>1 DEF WindowStates
<1>3. /\ [ws EXCEPT ![w].tags = tags] = [ws EXCEPT ![w] = t]
      /\ [ws EXCEPT ![w].rules_applied = TRUE, ![w].tags = tags] = [ws EXCEPT ![w] = u]
  BY <1>1 DEF WinMaps
<1>4. s = ws[w]
  OBVIOUS
<1> HIDE DEF s, t, u
<1>5. InPlace(t) /\ InPlace(u)
  BY <1>2, <1>4 DEF Calm, InPlace, Sliding
<1>6. \A v \in Window : s.swallowing = v
        => w \notin Terminal /\ v \in Terminal /\ ws[v] # None /\ ws[v].rules_applied
  BY <1>4 DEF Calm, Links
<1>7. Calm([ws EXCEPT ![w] = t])
  BY <1>2, <1>4, <1>5, <1>6, CalmUpdate
<1>8. Calm([ws EXCEPT ![w] = u])
  BY <1>2, <1>4, <1>5, <1>6, CalmUpdate
<1> QED
  BY <1>3, <1>7, <1>8

LEMMA TagStep ==
    ASSUME ConstantsSound, SlideInv, NEW w \in Window, NEW mask, NEW follow,
           TagWindow(w, mask, follow)
    PROVE  SlideInv' /\ StaysMapped
<1>1. Calm(win) /\ selMon \in Mons /\ monitors[selMon] \in MonitorRecords(Mons)
      /\ monitors \in Screened
  BY SettledParts
<1> DEFINE ms == IF follow THEN [monitors EXCEPT ![selMon] = ViewOf(monitors[selMon], mask)]
                 ELSE monitors
           ws == [win EXCEPT ![w].tags = mask \cap Tags]
<1>2. ms \in Screened
  BY <1>1, ViewsTyped, ScreenedOnce
<1>3. /\ Rearranged(ws, ms) /\ win[w] # None
      /\ selMon' \in Mons /\ FrameIdle
  BY <1>1 DEF TagWindow
<1>4. mask \cap Tags \in TagSets
  BY DEF TagSets
<1>5. Calm(ws)
  BY <1>1, <1>3, <1>4, CalmPlaced
<1> HIDE DEF ws, ms
<1> QED
  BY <1>2, <1>3, <1>5, Rearranges DEF Rearranged

\* The monitors an IPC command names are marked one after the other.
LEMMA IpcStep ==
    ASSUME ConstantsSound, SlideInv, NEW indices, NEW mask, IpcView(indices, mask)
    PROVE  SlideInv' /\ StaysMapped
<1> DEFINE last == CHOOSE i \in indices : \A j \in indices : j <= i
           marks[n \in 0 .. Screens] ==
               IF n = 0 THEN win
               ELSE IF n \in indices
                    THEN Marked(marks[n - 1], TagsOf(monitors[n]), mask)
                    ELSE marks[n - 1]
           shown == [i \in Mons |->
                        IF i \in indices THEN ViewOf(monitors[i], mask) ELSE monitors[i]]
           step == [i \in 1 .. Screens |-> [ws \in WinMaps |->
                        IF i \in indices THEN Marked(ws, TagsOf(monitors[i]), mask) ELSE ws]]
<1>1. Calm(win) /\ win \in WinMaps /\ selMon \in Mons
      /\ \A i \in Mons : monitors[i] \in MonitorRecords(Mons)
  BY SettledParts
<1>2. /\ win' = Started(marks[Screens], TagsOf(monitors[last]), mask)
      /\ space' = Arranged(marks[Screens], space, shown)
      /\ monitors' = shown /\ selMon' \in Mons /\ FrameIdle
  BY <1>1, Zenon DEF IpcView
<1>3. shown \in Screened
  <2>1. \A i \in Mons : ViewOf(monitors[i], mask) \in MonitorRecords(Mons)
    BY <1>1, ViewsTyped
  <2> QED
    BY <1>1, <2>1 DEF Screened
<1>4. Screens \in Nat /\ \A i \in 1 .. Screens : i \in 0 .. Screens /\ i - 1 \in 0 .. Screens /\ i # 0
  BY DEF ConstantsSound
<1>5. \A ws \in WinMaps, i \in 1 .. Screens :
        /\ Marked(ws, TagsOf(monitors[i]), mask) \in WinMaps
        /\ Alike(ws, Marked(ws, TagsOf(monitors[i]), mask))
  BY MarkedAlike
<1>6. step \in [1 .. Screens -> [WinMaps -> WinMaps]]
  BY <1>5
<1>7. \A i \in 1 .. Screens : \A ws \in WinMaps :
        step[i][ws] = IF i \in indices THEN Marked(ws, TagsOf(monitors[i]), mask) ELSE ws
  OBVIOUS
<1> HIDE DEF step
<1>8. marks = [n \in 0 .. Screens |->
               IF n = 0 THEN win
               ELSE IF n \in indices
                    THEN Marked(marks[n - 1], TagsOf(monitors[n]), mask)
                    ELSE marks[n - 1]]
  <2>1. PICK f \in [0 .. Screens -> WinMaps] : Iterates(f, Screens, win, step)
    <3> HIDE DEF marks
    <3> QED
      BY <1>1, <1>4, <1>6, LoopExists
  <2>2. \A i \in 1 .. Screens :
          f[i] = IF i \in indices THEN Marked(f[i - 1], TagsOf(monitors[i]), mask) ELSE f[i - 1]
    <3> HIDE DEF marks
    <3> QED
      BY <1>4, <1>7, <2>1 DEF Iterates
  <2>3. \A i \in 0 .. Screens : i # 0 => i \in 1 .. Screens
    BY <1>4
  <2>4. f = [n \in 0 .. Screens |->
               IF n = 0 THEN win
               ELSE IF n \in indices
                    THEN Marked(f[n - 1], TagsOf(monitors[n]), mask)
                    ELSE f[n - 1]]
    BY <2>1, <2>2, <2>3 DEF Iterates
  <2> QED
    BY <2>4
<1> HIDE DEF marks, shown, last
<1> DEFINE T == {i \in 0 .. Screens : marks[i] \in WinMaps /\ Alike(win, marks[i])}
<1>9. Alike(win, win)
  BY DEF Alike, Follows
<1>10. 0 \in T
  BY <1>1, <1>4, <1>8, <1>9
<1>11. \A i \in 1 .. Screens : i - 1 \in T => i \in T
  <2> SUFFICES ASSUME NEW i \in 1 .. Screens, i - 1 \in T PROVE i \in T
    OBVIOUS
  <2>1. marks[i] = IF i \in indices THEN Marked(marks[i - 1], TagsOf(monitors[i]), mask)
                   ELSE marks[i - 1]
    BY <1>4, <1>8
  <2>2. marks[i] \in WinMaps /\ Alike(marks[i - 1], marks[i])
    <3>1. Alike(marks[i - 1], marks[i - 1])
      BY DEF Alike, Follows
    <3> QED
      BY <1>5, <2>1, <3>1
  <2>3. Alike(win, marks[i])
    BY <2>2, AlikeTransitive
  <2> QED
    BY <1>4, <2>2, <2>3
<1>12. 0 .. Screens \subseteq T
  <2> HIDE DEF T
  <2> QED
    BY <1>4, <1>10, <1>11, UpTo
<1>13. marks[Screens] \in WinMaps /\ Alike(win, marks[Screens])
  BY <1>4, <1>12
<1> DEFINE ws == marks[Screens]
<1>14. Calm(ws)
  BY <1>1, <1>13, CalmAlike
<1>15. Started(ws, TagsOf(monitors[last]), mask) \in WinMaps
       /\ Alike(ws, Started(ws, TagsOf(monitors[last]), mask))
  BY <1>13, StartedAlike
<1>16. /\ was_active' \in BOOLEAN /\ wakeup' \in 0 .. Wakeup
       /\ space \subseteq Window
  BY <1>2 DEF FrameIdle, SlideInv, Opened
<1> HIDE DEF ws
<1>17. /\ win' \in WinMaps /\ Alike(ws, win')
       /\ space' = Arranged(ws, space, monitors') /\ monitors' \in Screened
  BY <1>2, <1>3, <1>15 DEF ws
<1> QED
  BY <1>2, <1>14, <1>16, <1>17, Settles

-----------------------------------------------------------------------------
(* Windows that open and draw.                                              *)

LEMMA OpenStep ==
    ASSUME ConstantsSound, SlideInv, NEW w \in Window, NewToplevel(w)
    PROVE  SlideInv' /\ StaysMapped
<1> DEFINE t == [tags |-> TagsOf(monitors[selMon]), rules_applied |-> FALSE,
                 buffer_mapped |-> FALSE, is_swallowed |-> FALSE, swallowing |-> None,
                 slide_out |-> FALSE, slide_start |-> "unset", shifted |-> FALSE]
           ws == [win EXCEPT ![w] = t]
<1>1. Calm(win) /\ monitors \in Screened /\ selMon \in Mons /\ TagsOf(monitors[selMon]) \in TagSets
  BY SettledParts
<1>2. /\ win[w] = None /\ win' = ws /\ space' = Arranged(ws, space \cup {w}, monitors)
      /\ monitors' = monitors /\ selMon' \in Mons /\ FrameIdle
  BY <1>1 DEF NewToplevel
<1>3. t \in WindowStates /\ t.swallowing = None /\ ~t.shifted
  BY <1>1 DEF WindowStates, Starts
<1> HIDE DEF t
<1>4. Calm(ws)
  BY <1>1, <1>2, <1>3, CalmUpdate DEF ConstantsSound, InPlace
<1>5. space \subseteq space \cup {w}
  OBVIOUS
<1> HIDE DEF ws
<1> QED
  BY <1>1, <1>2, <1>4, <1>5, Rearranges

LEMMA FirstStep ==
    ASSUME ConstantsSound, SlideInv, NEW w \in Window, NEW mask, NEW jump,
           CommitFirst(w, mask, jump)
    PROVE  SlideInv' /\ StaysMapped
<1> DEFINE view == TagsOf(monitors[selMon])
           marked == Marked(win, view, mask)
           placed == [marked EXCEPT ![w].rules_applied = TRUE, ![w].tags = mask \cap Tags]
           ms == [monitors EXCEPT ![selMon] = ViewOf(monitors[selMon], mask)]
           tags == IF mask = {} THEN view ELSE mask \cap Tags
           stays == [win EXCEPT ![w].rules_applied = TRUE, ![w].tags = tags]
<1>1. /\ Calm(win) /\ win \in WinMaps /\ monitors \in Screened /\ selMon \in Mons
      /\ view \in TagSets /\ monitors[selMon] \in MonitorRecords(Mons)
  BY SettledParts
<1>2. /\ win[w] # None /\ selMon' \in Mons /\ FrameIdle
      /\ \/ /\ win' = Started(placed, view, mask)
            /\ space' = Arranged(placed, space, ms) /\ monitors' = ms
         \/ Rearranged(stays, monitors)
  BY <1>1, Zenon DEF CommitFirst
<1>3. mask \cap Tags \in TagSets
  BY DEF TagSets
<1>4. /\ was_active' \in BOOLEAN /\ wakeup' \in 0 .. Wakeup
      /\ space \subseteq Window
  BY <1>2 DEF FrameIdle, SlideInv, Opened
<1>5. ASSUME win' = Started(placed, view, mask),
             space' = Arranged(placed, space, ms), monitors' = ms
      PROVE  SlideInv' /\ StaysMapped
  <2>1. ms \in Screened
    BY <1>1, ViewsTyped, ScreenedOnce
  <2>2. marked \in WinMaps /\ Alike(win, marked)
    BY <1>1, MarkedAlike
  <2>3. Calm(marked) /\ marked[w] # None
    BY <1>1, <1>2, <2>2, CalmAlike DEF Alike
  <2> HIDE DEF marked
  <2>4. Calm(placed)
    BY <1>3, <2>3, CalmPlaced
  <2> HIDE DEF placed
  <2>5. Started(placed, view, mask) \in WinMaps /\ Alike(placed, Started(placed, view, mask))
    BY <2>4, StartedAlike DEF Calm
  <2> HIDE DEF ms
  <2>6. win' \in WinMaps /\ Alike(placed, win') /\ monitors' \in Screened
        /\ space' = Arranged(placed, space, monitors')
    BY <1>5, <2>1, <2>5
  <2> QED
    BY <1>2, <1>4, <2>4, <2>6, Settles
<1>6. CASE Rearranged(stays, monitors)
  <2>1. tags \in TagSets
    BY <1>1, <1>3
  <2> HIDE DEF tags
  <2>2. Calm(stays)
    BY <1>1, <1>2, <2>1, CalmPlaced
  <2> HIDE DEF stays
  <2> QED
    BY <1>1, <1>2, <1>6, <2>2, Rearranges DEF Rearranged
<1> QED
  BY <1>2, <1>5, <1>6

LEMMA SwallowStep ==
    ASSUME ConstantsSound, SlideInv, NEW w \in Window, NEW term \in Window,
           CommitSwallowing(w, term)
    PROVE  SlideInv' /\ StaysMapped
<1> DEFINE s == win[w]
           h == win[term]
           tags == h.tags
           t == [s EXCEPT !.rules_applied = TRUE, !.tags = tags, !.swallowing = term]
           u == [h EXCEPT !.is_swallowed = TRUE]
           taken == [win EXCEPT ![w] = t]
           ws == [taken EXCEPT ![term] = u]
<1>1. Calm(win) /\ win \in WinMaps /\ monitors \in Screened /\ selMon \in Mons
  BY SettledParts
<1>2. /\ s # None /\ w \notin Terminal /\ term \in Terminal /\ term # w /\ h # None
      /\ h.rules_applied /\ selMon' \in Mons /\ FrameIdle
  BY <1>1 DEF CommitSwallowing
<1>3. s \in WindowStates /\ h \in WindowStates /\ tags \in TagSets
  BY <1>1, <1>2 DEF WinMaps, WindowStates
<1>4. Rearranged(ws, monitors)
  <2>1. [win EXCEPT ![w].rules_applied = TRUE, ![w].tags = win[term].tags,
                    ![w].swallowing = term, ![term].is_swallowed = TRUE] = ws
    BY <1>1, <1>2 DEF WinMaps
  <2> QED
    BY <2>1 DEF CommitSwallowing
<1>5. s = win[w] /\ h = win[term]
  OBVIOUS
<1>6. /\ t \in WindowStates /\ t.rules_applied = TRUE /\ t.swallowing = term
      /\ t.shifted = s.shifted /\ t.slide_start = s.slide_start
  <2> HIDE DEF s, h, tags
  <2> QED
    BY <1>3 DEF WindowStates
<1>7. /\ u \in WindowStates /\ u.rules_applied = h.rules_applied /\ u.swallowing = h.swallowing
      /\ u.shifted = h.shifted /\ u.slide_start = h.slide_start
  <2> HIDE DEF s, h, tags
  <2> QED
    BY <1>3 DEF WindowStates
<1> HIDE DEF t, u, tags, s, h
<1>8. InPlace(t) /\ InPlace(u)
  BY <1>1, <1>2, <1>5, <1>6, <1>7 DEF Calm, InPlace, Sliding
<1>9. Calm(taken)
  BY <1>1, <1>2, <1>5, <1>6, <1>8, CalmUpdate
<1>10. taken[term] = h /\ taken[w] = t
  BY <1>1, <1>2, <1>5 DEF WinMaps
<1> HIDE DEF taken
<1>11. \A v \in Window : u.swallowing = v
         => term \notin Terminal /\ v \in Terminal /\ taken[v] # None /\ taken[v].rules_applied
  BY <1>2, <1>7, <1>9, <1>10 DEF Calm, Links
<1>12. Calm(ws)
  BY <1>7, <1>8, <1>9, <1>10, <1>11, CalmUpdate
<1> HIDE DEF ws
<1> QED
  BY <1>1, <1>2, <1>4, <1>12, Rearranges DEF Rearranged

LEMMA BufferStep ==
    ASSUME ConstantsSound, SlideInv, NEW w \in Window, CommitBuffer(w)
    PROVE  SlideInv' /\ StaysMapped
<1> DEFINE s == win[w]
           t == [s EXCEPT !.buffer_mapped = TRUE]
           ws == [win EXCEPT ![w] = t]
<1>1. Calm(win) /\ win \in WinMaps
  BY SettledParts
<1>2. s # None /\ win' = ws /\ UNCHANGED <<space, monitors, selMon>> /\ FrameIdle
  BY <1>1 DEF CommitBuffer, WinMaps
<1>3. s \in WindowStates
  BY <1>1, <1>2 DEF WinMaps
<1>4. s = win[w]
  OBVIOUS
<1>5. /\ t \in WindowStates /\ t.rules_applied = s.rules_applied /\ t.tags = s.tags
      /\ t.is_swallowed = s.is_swallowed /\ t.swallowing = s.swallowing
      /\ t.shifted = s.shifted /\ t.slide_start = s.slide_start /\ t.slide_out = s.slide_out
  <2> HIDE DEF s
  <2> QED
    BY <1>3 DEF WindowStates
<1> HIDE DEF t, s
<1>6. Calm(ws)
  <2>1. InPlace(t)
    BY <1>1, <1>2, <1>4, <1>5 DEF Calm, InPlace, Sliding
  <2>2. \A u \in Window : t.swallowing = u
          => w \notin Terminal /\ u \in Terminal /\ win[u] # None /\ win[u].rules_applied
    BY <1>1, <1>2, <1>4, <1>5 DEF Calm, Links
  <2> QED
    BY <1>1, <1>2, <1>4, <1>5, <2>1, <2>2, CalmUpdate
<1>7. \A v \in Window : ws[v] = IF v = w THEN t ELSE win[v]
  BY <1>1 DEF WinMaps
<1> HIDE DEF ws
<1>8. t # None
  BY <1>5 DEF ConstantsSound
<1>9. space \subseteq Opened(ws) /\ Leaving(ws, space, monitors)
  BY <1>2, <1>4, <1>5, <1>7, <1>8 DEF SlideInv, Opened, Leaving, OnVisibleTag, Sliding
<1>10. SlideInv'
  BY <1>2, <1>6, <1>9 DEF SlideInv, FrameIdle, Calm, Links, Opened, Leaving, OnVisibleTag, AllVisible
<1> QED
  BY <1>2, <1>10 DEF StaysMapped

-----------------------------------------------------------------------------
(* Windows that close.                                                      *)

\* What toplevel_destroyed leaves of each window.
LEMMA ClosedWindows ==
    ASSUME ConstantsSound, Calm(win), NEW w \in Window, win[w] # None
    PROVE  /\ Closed(w) \in WinMaps
           /\ \A v \in Window :
                 /\ Closed(w)[v] = None <=> (v = w \/ win[v] = None)
                 /\ Closed(w)[v] # None =>
                       /\ Closed(w)[v].rules_applied = win[v].rules_applied
                       /\ Closed(w)[v].swallowing \in {win[v].swallowing, None}
                       /\ Closed(w)[v].swallowing # w
                       /\ InPlace(win[v]) => InPlace(Closed(w)[v])
                       /\ \/ /\ Closed(w)[v].tags = win[v].tags
                             /\ Closed(w)[v].is_swallowed = win[v].is_swallowed
                          \/ win[v].rules_applied
<1> DEFINE term == win[w].swallowing
           tags == win[w].tags
           ws == Closed(w)
           restored(s) == [s EXCEPT !.is_swallowed = FALSE, !.tags = tags]
           freed(s) == [s EXCEPT !.swallowing = None]
<1>1. win \in WinMaps /\ \A v \in Window : win[v] \in WindowStates \cup {None}
  BY DEF Calm, WinMaps
<1>2. tags \in TagSets
  BY <1>1 DEF WindowStates
<1>3. \A v \in Window : win[v] # None /\ win[v].swallowing = w
        => v \notin Terminal /\ w \in Terminal
  BY DEF Calm, Links
<1>4. term \in Window => w \notin Terminal /\ (win[term] # None => win[term].rules_applied)
  BY DEF Calm, Links
<1>5. ws = [v \in Window |->
             IF v = w \/ win[v] = None THEN None
             ELSE IF (term # None /\ win[term] # None) /\ v = term THEN restored(win[v])
             ELSE IF win[v].swallowing = w THEN freed(win[v])
             ELSE win[v]]
  BY DEF Closed
<1>6. ASSUME NEW s \in WindowStates
      PROVE  /\ restored(s) \in WindowStates
             /\ restored(s).rules_applied = s.rules_applied
             /\ restored(s).swallowing = s.swallowing
             /\ restored(s).shifted = s.shifted /\ restored(s).slide_start = s.slide_start
             /\ freed(s) \in WindowStates
             /\ freed(s).rules_applied = s.rules_applied
             /\ freed(s).swallowing = None
             /\ freed(s).tags = s.tags /\ freed(s).is_swallowed = s.is_swallowed
             /\ freed(s).shifted = s.shifted /\ freed(s).slide_start = s.slide_start
  <2> HIDE DEF tags
  <2> QED
    BY <1>2 DEF WindowStates
<1> HIDE DEF ws, restored, freed, tags
<1>7. ASSUME NEW v \in Window
      PROVE  \/ v = w /\ ws[v] = None
             \/ win[v] = None /\ ws[v] = None
             \/ /\ v # w /\ win[v] # None /\ v = term
                /\ ws[v] = restored(win[v])
             \/ v # w /\ win[v] # None /\ win[v].swallowing = w /\ ws[v] = freed(win[v])
             \/ v # w /\ win[v] # None /\ win[v].swallowing # w /\ ws[v] = win[v]
  BY <1>5
<1> HIDE DEF term
<1>8. None \notin WindowStates /\ None \notin Window
  BY DEF ConstantsSound
<1>9. ASSUME NEW v \in Window
      PROVE  /\ ws[v] \in WindowStates \cup {None}
             /\ ws[v] = None <=> (v = w \/ win[v] = None)
             /\ ws[v] # None =>
                   /\ ws[v].rules_applied = win[v].rules_applied
                   /\ ws[v].swallowing \in {win[v].swallowing, None}
                   /\ ws[v].swallowing # w
                   /\ InPlace(win[v]) => InPlace(ws[v])
                   /\ \/ ws[v].tags = win[v].tags /\ ws[v].is_swallowed = win[v].is_swallowed
                      \/ win[v].rules_applied
  <2>1. CASE ws[v] = None /\ (v = w \/ win[v] = None)
    BY <2>1
  <2>2. CASE v # w /\ win[v] # None /\ v = term /\ ws[v] = restored(win[v])
    <3>1. win[v] \in WindowStates /\ win[v].rules_applied /\ w \notin Terminal
      BY <1>1, <1>4, <2>2
    <3>2. win[v].swallowing # w
      BY <1>3, <2>2, <3>1
    <3>3. /\ ws[v] \in WindowStates
          /\ ws[v].rules_applied = win[v].rules_applied
          /\ ws[v].swallowing = win[v].swallowing
          /\ ws[v].shifted = win[v].shifted /\ ws[v].slide_start = win[v].slide_start
      <4>1. /\ restored(win[v]) \in WindowStates
            /\ restored(win[v]).rules_applied = win[v].rules_applied
            /\ restored(win[v]).swallowing = win[v].swallowing
            /\ restored(win[v]).shifted = win[v].shifted
            /\ restored(win[v]).slide_start = win[v].slide_start
        BY <1>6, <3>1, Zenon
      <4>2. ws[v] = restored(win[v])
        BY <2>2
      <4> QED
        BY <4>1, <4>2, Zenon
    <3>4. ws[v] # None
      BY <1>8, <3>3
    <3>5. InPlace(win[v]) => InPlace(ws[v])
      BY <3>3 DEF InPlace, Sliding
    <3>6. ws[v] = None <=> (v = w \/ win[v] = None)
      BY <2>2, <3>4
    <3> QED
      BY <3>1, <3>2, <3>3, <3>5, <3>6
  <2>3. CASE v # w /\ win[v] # None /\ ws[v] = freed(win[v])
    <3>1. win[v] \in WindowStates
      BY <1>1, <2>3
    <3>2. /\ ws[v] \in WindowStates
          /\ ws[v].rules_applied = win[v].rules_applied
          /\ ws[v].swallowing = None
          /\ ws[v].tags = win[v].tags /\ ws[v].is_swallowed = win[v].is_swallowed
          /\ ws[v].shifted = win[v].shifted /\ ws[v].slide_start = win[v].slide_start
      <4>1. /\ freed(win[v]) \in WindowStates
            /\ freed(win[v]).rules_applied = win[v].rules_applied
            /\ freed(win[v]).swallowing = None
            /\ freed(win[v]).tags = win[v].tags
            /\ freed(win[v]).is_swallowed = win[v].is_swallowed
            /\ freed(win[v]).shifted = win[v].shifted
            /\ freed(win[v]).slide_start = win[v].slide_start
        BY <1>6, <3>1, Zenon
      <4>2. ws[v] = freed(win[v])
        BY <2>3
      <4> QED
        BY <4>1, <4>2, Zenon
    <3>3. ws[v] # None /\ None # w
      BY <1>8, <3>2
    <3>4. InPlace(win[v]) => InPlace(ws[v])
      BY <3>2 DEF InPlace, Sliding
    <3>5. ws[v] = None <=> (v = w \/ win[v] = None)
      BY <2>3, <3>3
    <3> QED
      BY <3>2, <3>3, <3>4, <3>5
  <2>4. CASE v # w /\ win[v] # None /\ win[v].swallowing # w /\ ws[v] = win[v]
    BY <1>1, <2>4
  <2> QED
    BY <1>7, <2>1, <2>2, <2>3, <2>4
<1>10. ws \in WinMaps
  <2>1. ws = [v \in Window |-> ws[v]]
    BY <1>5
  <2> QED
    BY <1>9, <2>1 DEF WinMaps
<1> QED
  BY <1>9, <1>10 DEF ws

LEMMA ClosedCalm ==
    ASSUME ConstantsSound, Calm(win), NEW w \in Window, win[w] # None
    PROVE  Calm(Closed(w))
<1> DEFINE ws == Closed(w)
<1>1. /\ ws \in WinMaps
      /\ \A v \in Window :
            /\ ws[v] = None <=> (v = w \/ win[v] = None)
            /\ ws[v] # None =>
                  /\ ws[v].rules_applied = win[v].rules_applied
                  /\ ws[v].swallowing \in {win[v].swallowing, None}
                  /\ ws[v].swallowing # w
                  /\ InPlace(win[v]) => InPlace(ws[v])
  BY ClosedWindows
<1> HIDE DEF ws
<1>2. Links(ws)
  <2> SUFFICES ASSUME NEW v \in Window, NEW t \in Window, ws[v] # None, ws[v].swallowing = t
               PROVE  v \notin Terminal /\ t \in Terminal /\ ws[t] # None /\ ws[t].rules_applied
    BY DEF Links
  <2>1. win[v] # None /\ t # w /\ win[v].swallowing = t
    BY <1>1 DEF ConstantsSound
  <2>2. v \notin Terminal /\ t \in Terminal /\ win[t] # None /\ win[t].rules_applied
    BY <2>1 DEF Calm, Links
  <2> QED
    BY <1>1, <2>1, <2>2
<1>3. Calm(ws)
  BY <1>1, <1>2 DEF Calm
<1> QED
  BY <1>3 DEF ws

LEMMA CloseStep ==
    ASSUME ConstantsSound, SlideInv, NEW w \in Window, Destroy(w)
    PROVE  SlideInv' /\ StaysMapped
<1>1. Calm(win) /\ monitors \in Screened /\ selMon \in Mons
  BY SettledParts
<1>2. win[w] # None /\ Rearranged(Closed(w), monitors) /\ selMon' \in Mons /\ FrameIdle
  BY <1>1 DEF Destroy
<1>3. Calm(Closed(w))
  BY <1>1, <1>2, ClosedCalm
<1> QED
  BY <1>1, <1>2, <1>3, Rearranges DEF Rearranged

\* Where the view goes back as well, the slides start before the terminal is
\* restored, and the windows are arranged before and after.
LEMMA CloseAndBackStep ==
    ASSUME ConstantsSound, SlideInv, NEW w \in Window, NEW i \in Mons, NEW other \in Window,
           DestroyAndBack(w, i, other)
    PROVE  SlideInv' /\ StaysMapped
<1> DEFINE old == TagsOf(monitors[i])
           new == win[other].tags
           ms == [monitors EXCEPT ![i] = Reassigned(monitors[i], new)]
           gone == [win EXCEPT ![w] = None]
           marked == Marked(gone, old, new)
           switched == Started(marked, old, new)
           left == Closed(w)
           closed == [v \in Window |->
               IF switched[v] = None THEN None
               ELSE [switched[v] EXCEPT !.is_swallowed = left[v].is_swallowed,
                                        !.tags = left[v].tags,
                                        !.swallowing = left[v].swallowing]]
           inner == Arranged(marked, space, ms)
<1>1. /\ Calm(win) /\ win \in WinMaps /\ monitors \in Screened /\ selMon \in Mons
      /\ monitors[i] \in MonitorRecords(Mons)
  BY SettledParts
<1>2. /\ win[w] # None /\ win[other] # None
      /\ win' = closed /\ space' = Arranged(closed, inner, ms) /\ monitors' = ms
      /\ selMon' \in Mons /\ FrameIdle
  <2>1. /\ win[w] # None /\ other \in Opened(win) /\ selMon' \in Mons /\ FrameIdle
    BY <1>1 DEF DestroyAndBack
  <2>2. win' = closed /\ space' = Arranged(closed, inner, ms) /\ monitors' = ms
    BY Zenon DEF DestroyAndBack
  <2> QED
    BY <2>1, <2>2 DEF Opened
<1>3. ms \in Screened
  <2>1. new \in TagSets
    BY <1>1, <1>2 DEF WinMaps, WindowStates
  <2> HIDE DEF new
  <2>2. Reassigned(monitors[i], new) \in MonitorRecords(Mons)
    BY <1>1, <2>1, FlippedTyped
  <2> QED
    BY <1>1, <2>2, ScreenedOnce
<1>4. /\ gone \in WinMaps
      /\ \A v \in Window : gone[v] = IF v = w THEN None ELSE win[v]
  BY <1>1 DEF WinMaps
<1>5. marked \in WinMaps /\ Alike(gone, marked)
  BY <1>4, MarkedAlike
<1>6. switched \in WinMaps /\ Alike(marked, switched)
  BY <1>5, StartedAlike
<1>7. Alike(gone, switched)
  BY <1>5, <1>6, AlikeTransitive
<1>8. /\ left \in WinMaps
      /\ \A v \in Window :
            /\ left[v] = None <=> (v = w \/ win[v] = None)
            /\ left[v] # None =>
                  /\ left[v].rules_applied = win[v].rules_applied
                  /\ \/ left[v].tags = win[v].tags /\ left[v].is_swallowed = win[v].is_swallowed
                     \/ win[v].rules_applied
  <2>1. Calm(win) /\ win[w] # None
    BY <1>1, <1>2
  <2>2. /\ left \in WinMaps
        /\ \A v \in Window :
              /\ left[v] = None <=> (v = w \/ win[v] = None)
              /\ left[v] # None =>
                    /\ left[v].rules_applied = win[v].rules_applied
                    /\ left[v].swallowing \in {win[v].swallowing, None}
                    /\ left[v].swallowing # w
                    /\ InPlace(win[v]) => InPlace(left[v])
                    /\ \/ /\ left[v].tags = win[v].tags
                          /\ left[v].is_swallowed = win[v].is_swallowed
                       \/ win[v].rules_applied
    BY <2>1, ClosedWindows, Zenon
  <2> HIDE DEF left
  <2> QED
    BY <2>1, <2>2
<1>9. Calm(left)
  <2>1. Calm(win) /\ win[w] # None
    BY <1>1, <1>2
  <2> QED
    BY <2>1, ClosedCalm, Zenon
<1>10. None \notin WindowStates /\ None \notin Window
  BY DEF ConstantsSound
<1> DEFINE Merge(s, t) == [s EXCEPT !.is_swallowed = t.is_swallowed, !.tags = t.tags,
                                    !.swallowing = t.swallowing]
<1>11. ASSUME NEW s \in WindowStates, NEW t \in WindowStates
       PROVE  /\ Merge(s, t) \in WindowStates
              /\ Merge(s, t).is_swallowed = t.is_swallowed /\ Merge(s, t).tags = t.tags
              /\ Merge(s, t).swallowing = t.swallowing
              /\ Merge(s, t).rules_applied = s.rules_applied
              /\ Merge(s, t).shifted = s.shifted /\ Merge(s, t).slide_start = s.slide_start
  BY DEF WindowStates
<1>12. closed = [v \in Window |-> IF switched[v] = None THEN None ELSE Merge(switched[v], left[v])]
  OBVIOUS
<1> HIDE DEF closed, switched, marked, gone, left, ms, Merge, old, new, inner
<1>13. ASSUME NEW v \in Window
       PROVE  /\ closed[v] \in WindowStates \cup {None}
              /\ closed[v] = None <=> left[v] = None
              /\ closed[v] = None <=> marked[v] = None
              /\ closed[v] # None =>
                    /\ closed[v].tags = left[v].tags
                    /\ closed[v].is_swallowed = left[v].is_swallowed
                    /\ closed[v].swallowing = left[v].swallowing
                    /\ closed[v].rules_applied = left[v].rules_applied
                    /\ InPlace(closed[v])
                    /\ left[v].tags = win[v].tags /\ left[v].is_swallowed = win[v].is_swallowed
                          => /\ closed[v].tags = marked[v].tags
                             /\ closed[v].is_swallowed = marked[v].is_swallowed
                    /\ \/ left[v].tags = win[v].tags /\ left[v].is_swallowed = win[v].is_swallowed
                       \/ closed[v].rules_applied
  <2>1. /\ gone[v] = IF v = w THEN None ELSE win[v]
        /\ switched[v] = None <=> gone[v] = None
        /\ marked[v] = None <=> gone[v] = None
        /\ gone[v] # None => Follows(gone[v], switched[v]) /\ Follows(gone[v], marked[v])
        /\ left[v] = None <=> gone[v] = None
    BY <1>4, <1>5, <1>7, <1>8 DEF Alike
  <2>2. CASE switched[v] = None
    BY <1>12, <2>1, <2>2
  <2>3. CASE switched[v] # None
    <3>1. switched[v] \in WindowStates /\ left[v] \in WindowStates /\ gone[v] = win[v]
      BY <1>6, <1>8, <2>1, <2>3 DEF WinMaps
    <3>2. closed[v] = Merge(switched[v], left[v])
      BY <1>12, <2>3
    <3>3. InPlace(win[v])
      BY <1>1, <2>1, <2>3, <3>1 DEF Calm
    <3>4. InPlace(closed[v])
      BY <1>11, <2>1, <2>3, <3>1, <3>2, <3>3 DEF Follows, InPlace, Sliding
    <3>5. /\ switched[v].rules_applied = win[v].rules_applied
          /\ marked[v].tags = win[v].tags /\ marked[v].is_swallowed = win[v].is_swallowed
      BY <2>1, <2>3, <3>1 DEF Follows
    <3>6. /\ left[v].rules_applied = win[v].rules_applied
          /\ \/ left[v].tags = win[v].tags /\ left[v].is_swallowed = win[v].is_swallowed
             \/ win[v].rules_applied
      BY <1>8, <2>1, <2>3
    <3>7. closed[v] \in WindowStates /\ closed[v] # None
      BY <1>10, <1>11, <3>1, <3>2
    <3> QED
      BY <1>11, <2>1, <2>3, <3>1, <3>2, <3>4, <3>5, <3>6, <3>7
  <2> QED
    BY <2>2, <2>3
<1>14. Calm(closed)
  <2>1. closed = [v \in Window |-> closed[v]]
    BY <1>12
  <2>2. closed \in WinMaps
    BY <1>13, <2>1 DEF WinMaps
  <2>3. Links(closed)
    BY <1>9, <1>13 DEF Calm, Links
  <2> QED
    BY <1>13, <2>2, <2>3 DEF Calm
<1>15. /\ was_active' \in BOOLEAN /\ wakeup' \in 0 .. Wakeup
       /\ space \subseteq Window
  BY <1>2 DEF FrameIdle, SlideInv, Opened
<1>16. Alike(closed, closed) /\ Alike(marked, marked)
  BY DEF Alike, Follows
<1>17. SlideInv'
  <2>1. /\ win' \in WinMaps /\ Alike(closed, win') /\ monitors' \in Screened
        /\ space' = Arranged(closed, inner, monitors')
    BY <1>2, <1>3, <1>14, <1>16 DEF Calm
  <2> QED
    BY <1>2, <1>14, <1>15, <2>1, Settles
<1>18. StaysMapped
  <2> SUFFICES ASSUME NEW v \in space, Shown(v)'
               PROVE  v \in space'
    BY DEF StaysMapped
  <2>1. Shows(closed, ms, v) /\ v \in Window
    BY <1>2, <1>15 DEF Shown, Shows, OnVisibleTag, AllVisible
  <2>2. CASE closed[v].rules_applied
    BY <1>2, <2>1, <2>2 DEF Arranged, Shows, Opened
  <2>3. CASE ~closed[v].rules_applied
    <3>1. Shows(marked, ms, v)
      BY <1>13, <2>1, <2>3 DEF Shows, OnVisibleTag
    <3>2. v \in inner
      BY <1>16, <2>1, <3>1, ArrangedSettles DEF inner
    <3> QED
      BY <1>2, <1>16, <2>1, <3>2, ArrangedSettles
  <2> QED
    BY <2>2, <2>3
<1> QED
  BY <1>17, <1>18

-----------------------------------------------------------------------------
(* The frame loop.                                                          *)

\* One more step of the slides, and the end of those that finished.
LEMMA FrameWindows ==
    ASSUME ConstantsSound, SlideInv
    PROVE  LET advanced == Advanced(win, space)
               final == Finalized(advanced)
           IN  /\ final \in WinMaps
               /\ \A w \in Window :
                     /\ final[w] = None <=> win[w] = None
                     /\ win[w] # None =>
                           /\ advanced[w].tags = win[w].tags /\ final[w].tags = win[w].tags
                           /\ final[w].rules_applied = win[w].rules_applied
                           /\ final[w].swallowing = win[w].swallowing
                           /\ InPlace(final[w])
                           /\ w \notin Finished(advanced) /\ win[w].slide_out
                                 => final[w].slide_out /\ Sliding(final[w])
<1> DEFINE on(s) == [s EXCEPT !.shifted = TRUE]
           end(s) == [s EXCEPT !.slide_start = "unset", !.shifted = s.slide_out]
           clear(s) == [s EXCEPT !.slide_out = FALSE, !.shifted = FALSE]
           advanced == Advanced(win, space)
           final == Finalized(advanced)
           Same(s, t) ==
               /\ t \in WindowStates /\ t.tags = s.tags /\ t.rules_applied = s.rules_applied
               /\ t.swallowing = s.swallowing
<1>1. /\ win \in WinMaps /\ space \subseteq Opened(win)
      /\ \A w \in Window : win[w] # None => InPlace(win[w])
  BY DEF SlideInv, Calm
<1>2. ASSUME NEW s \in WindowStates
      PROVE  /\ Same(s, s) /\ Same(s, on(s)) /\ Same(s, end(s)) /\ Same(s, clear(s))
             /\ on(s).slide_out = s.slide_out /\ on(s).slide_start = s.slide_start
             /\ end(s).slide_out = s.slide_out /\ end(s).slide_start = "unset"
             /\ end(s).shifted = s.slide_out
             /\ clear(s).slide_out = FALSE /\ clear(s).shifted = FALSE
  BY DEF WindowStates, Starts
<1>3. ASSUME NEW w \in Window
      PROVE  \/ /\ advanced[w] = win[w] /\ (w \notin space \/ ~Sliding(win[w]))
             \/ /\ w \in space /\ win[w].slide_start = "running"
                /\ advanced[w] = on(win[w])
             \/ w \in space /\ advanced[w] = end(win[w])
  BY DEF Advanced
<1>4. ASSUME NEW w \in Window
      PROVE  \/ w \in Finished(advanced) /\ final[w] = clear(advanced[w])
             \/ w \notin Finished(advanced) /\ final[w] = advanced[w]
  BY DEF Finalized
<1>5. final = [w \in Window |-> final[w]]
  BY DEF Finalized
<1> HIDE DEF advanced, final, on, end, clear, Same
<1>6. ASSUME NEW w \in Window, win[w] # None
      PROVE  /\ Same(win[w], advanced[w]) /\ advanced[w].slide_out = win[w].slide_out
             /\ InPlace(advanced[w]) \/ w \in Finished(advanced)
             /\ advanced[w] # None
  <2>1. win[w] \in WindowStates /\ InPlace(win[w])
    BY <1>1, <1>6 DEF WinMaps
  <2>2. Same(win[w], advanced[w]) /\ advanced[w].slide_out = win[w].slide_out
    BY <1>2, <1>3, <2>1
  <2>3. advanced[w] # None
    BY <2>2 DEF Same, ConstantsSound
  <2>4. CASE advanced[w] = win[w]
    BY <2>1, <2>2, <2>3, <2>4
  <2>5. CASE win[w].slide_start = "running" /\ advanced[w] = on(win[w])
    BY <1>2, <2>1, <2>2, <2>3, <2>5 DEF InPlace, Sliding
  <2>6. CASE advanced[w] = end(win[w])
    BY <1>2, <2>1, <2>2, <2>3, <2>6 DEF InPlace, Sliding, Finished, Opened
  <2> QED
    BY <1>3, <2>2, <2>3, <2>4, <2>5, <2>6
<1>7. ASSUME NEW w \in Window, win[w] = None
      PROVE  final[w] = None
  <2>1. w \notin space
    BY <1>1, <1>7 DEF Opened
  <2>2. advanced[w] = None
    BY <1>3, <1>7, <2>1
  <2> QED
    BY <1>4, <2>2 DEF Finished, Opened
<1>8. ASSUME NEW w \in Window, win[w] # None
      PROVE  /\ Same(win[w], final[w]) /\ final[w] # None
             /\ advanced[w].tags = win[w].tags
             /\ InPlace(final[w])
             /\ w \notin Finished(advanced) /\ win[w].slide_out
                   => final[w].slide_out /\ Sliding(final[w])
  <2>1. /\ Same(win[w], advanced[w]) /\ advanced[w].slide_out = win[w].slide_out
        /\ InPlace(advanced[w]) \/ w \in Finished(advanced)
        /\ advanced[w] # None
    BY <1>6, <1>8
  <2>2. advanced[w] \in WindowStates /\ advanced[w].tags = win[w].tags
    BY <2>1 DEF Same
  <2>3. CASE w \in Finished(advanced) /\ final[w] = clear(advanced[w])
    <3> DEFINE s == advanced[w]
    <3>1. s \in WindowStates /\ final[w] = clear(s)
      BY <2>2, <2>3
    <3> HIDE DEF s
    <3>2. Same(s, clear(s)) /\ clear(s).shifted = FALSE
      BY <1>2, <3>1
    <3>3. Same(win[w], final[w]) /\ ~final[w].shifted
      BY <2>1, <3>1, <3>2 DEF Same, s
    <3> QED
      BY <2>2, <2>3, <3>3 DEF Same, InPlace, ConstantsSound
  <2>4. CASE w \notin Finished(advanced) /\ final[w] = advanced[w]
    BY <2>1, <2>2, <2>4 DEF Finished, Opened
  <2> QED
    BY <1>4, <2>3, <2>4
<1>9. final \in WinMaps
  <2>1. \A w \in Window : final[w] \in WindowStates \cup {None}
    BY <1>7, <1>8 DEF Same
  <2> QED
    BY <1>5, <2>1 DEF WinMaps
<1>10. \A w \in Window :
          /\ final[w] = None <=> win[w] = None
          /\ win[w] # None =>
                /\ advanced[w].tags = win[w].tags /\ final[w].tags = win[w].tags
                /\ final[w].rules_applied = win[w].rules_applied
                /\ final[w].swallowing = win[w].swallowing
                /\ InPlace(final[w])
                /\ w \notin Finished(advanced) /\ win[w].slide_out
                      => final[w].slide_out /\ Sliding(final[w])
  BY <1>7, <1>8 DEF Same
<1> QED
  BY <1>9, <1>10 DEF final, advanced

LEMMA FrameStep ==
    ASSUME ConstantsSound, SlideInv, Frame
    PROVE  SlideInv' /\ StaysMapped
<1> DEFINE advanced == Advanced(win, space)
           final == Finalized(advanced)
           settled == FinalizedSpace(advanced, space, monitors)
<1>1. /\ Calm(win) /\ win \in WinMaps /\ monitors \in Screened /\ selMon \in Mons
      /\ space \subseteq Opened(win) /\ Leaving(win, space, monitors)
      /\ wakeup \in 0 .. Wakeup
  BY SettledParts DEF SlideInv
<1>2. /\ win' = final
      /\ space' = Arranged(final, settled, monitors) \/ space' = settled
      /\ monitors' = monitors /\ selMon' = selMon
  BY Zenon DEF Frame
<1>3. was_active' \in BOOLEAN /\ wakeup' \in 0 .. Wakeup
  <2>1. was_active' \in BOOLEAN
    BY DEF Frame, LeftRunning
  <2>2. wakeup' \in 0 .. Wakeup
    BY <1>1 DEF Frame, ConstantsSound
  <2> QED
    BY <2>1, <2>2
<1>4. /\ final \in WinMaps
      /\ \A w \in Window :
            /\ final[w] = None <=> win[w] = None
            /\ win[w] # None =>
                  /\ advanced[w].tags = win[w].tags /\ final[w].tags = win[w].tags
                  /\ final[w].rules_applied = win[w].rules_applied
                  /\ final[w].swallowing = win[w].swallowing
                  /\ InPlace(final[w])
                  /\ w \notin Finished(advanced) /\ win[w].slide_out
                        => final[w].slide_out /\ Sliding(final[w])
  BY FrameWindows
<1>5. /\ settled \subseteq space
      /\ \A w \in space : w \in settled <=> (w \notin Finished(advanced) \/ OnVisibleTag(advanced, monitors, w))
  BY DEF FinalizedSpace
<1> HIDE DEF advanced, final, settled
<1>6. Calm(final)
  <2>1. Links(final)
    BY <1>1, <1>4 DEF Calm, Links
  <2> QED
    BY <1>4, <2>1 DEF Calm
<1>7. \A w \in space :
        /\ w \in Window /\ win[w] # None
        /\ OnVisibleTag(advanced, monitors, w) <=> OnVisibleTag(win, monitors, w)
        /\ OnVisibleTag(final, monitors, w) <=> OnVisibleTag(win, monitors, w)
  BY <1>1, <1>4 DEF Opened, OnVisibleTag
<1>8. settled \subseteq Opened(final) /\ Leaving(final, settled, monitors)
  BY <1>1, <1>4, <1>5, <1>7 DEF Leaving, Opened
<1>9. \A w \in space : Shows(final, monitors, w) => w \in settled
  BY <1>5, <1>7 DEF Shows
<1>10. Alike(final, final)
  BY DEF Alike, Follows
<1>11. space' = settled => SlideInv'
  BY <1>1, <1>2, <1>3, <1>6, <1>8
  DEF SlideInv, Calm, Links, Opened, Leaving, OnVisibleTag, AllVisible
<1>12. space' = Arranged(final, settled, monitors) => SlideInv'
  BY <1>1, <1>2, <1>3, <1>4, <1>6, <1>10, Settles
<1>13. StaysMapped
  <2> SUFFICES ASSUME NEW v \in space, Shown(v)'
               PROVE  v \in space'
    BY DEF StaysMapped
  <2>1. Shows(final, monitors, v)
    BY <1>2 DEF Shown, Shows, OnVisibleTag, AllVisible
  <2>2. v \in settled /\ v \in Window
    BY <1>7, <1>9, <2>1
  <2>3. v \in Arranged(final, settled, monitors)
    BY <1>10, <2>1, <2>2, ArrangedSettles
  <2> QED
    BY <1>2, <2>2, <2>3
<1> QED
  BY <1>2, <1>11, <1>12, <1>13

\* The clock ends no slide, it only lets the next frame do so.
LEMMA TickStep ==
    ASSUME ConstantsSound, SlideInv, Tick
    PROVE  SlideInv' /\ StaysMapped
<1> DEFINE late(s) == [s EXCEPT !.slide_start = "over"]
<1>1. /\ Calm(win) /\ win \in WinMaps
      /\ space \subseteq Opened(win) /\ Leaving(win, space, monitors)
  BY SettledParts DEF SlideInv
<1>2. /\ win' = [w \in Window |->
                    IF win[w] # None /\ win[w].slide_start = "running"
                    THEN late(win[w]) ELSE win[w]]
      /\ UNCHANGED <<space, monitors, selMon, was_active, wakeup>>
  BY DEF Tick, FrameIdle
<1>3. ASSUME NEW s \in WindowStates
      PROVE  /\ late(s) \in WindowStates /\ late(s).slide_start = "over"
             /\ late(s).tags = s.tags /\ late(s).rules_applied = s.rules_applied
             /\ late(s).is_swallowed = s.is_swallowed /\ late(s).swallowing = s.swallowing
             /\ late(s).slide_out = s.slide_out
  BY DEF WindowStates, Starts
<1> HIDE DEF late
<1>4. ASSUME NEW w \in Window
      PROVE  /\ win'[w] \in WindowStates \cup {None}
             /\ win'[w] = None <=> win[w] = None
             /\ win[w] # None => Follows(win[w], win'[w])
  <2>1. win[w] \in WindowStates \cup {None}
    BY <1>1 DEF WinMaps
  <2>2. CASE win'[w] = win[w]
    BY <2>1, <2>2 DEF Follows
  <2>3. CASE win[w] # None /\ win'[w] = late(win[w])
    BY <1>3, <2>1, <2>3 DEF Follows, InPlace, Sliding, ConstantsSound
  <2> QED
    BY <1>2, <2>2, <2>3
<1>5. win' \in WinMaps /\ Alike(win, win')
  <2>1. win' = [w \in Window |-> win'[w]]
    BY <1>2
  <2> QED
    BY <1>4, <2>1 DEF WinMaps, Alike
<1>6. Calm(win')
  BY <1>1, <1>5, CalmAlike
<1>7. space \subseteq Opened(win') /\ Leaving(win', space, monitors)
  BY <1>1, <1>4 DEF Opened, Leaving, Follows, OnVisibleTag
<1>8. SlideInv'
  BY <1>2, <1>6, <1>7 DEF SlideInv, Calm, Links, Opened, Leaving, OnVisibleTag, AllVisible
<1> QED
  BY <1>2, <1>8 DEF StaysMapped

-----------------------------------------------------------------------------
(* The theorems.                                                            *)

LEMMA SlideInit ==
    ASSUME ConstantsSound, Init
    PROVE  SlideInv
<1>1. /\ win = [w \in Window |-> None] /\ space = {} /\ selMon = 1
      /\ monitors = [i \in Mons |-> NewMonitor(i)] /\ was_active = FALSE /\ wakeup = 0
  BY DEF Init
<1>2. \A i \in Mons : NewMonitor(i) \in MonitorRecords(Mons)
  <2>1. {1} \in TagSets
    BY TagCountAssumption DEF TagSets, Tags
  <2> QED
    BY <2>1 DEF NewMonitor, MonitorRecords
<1>3. monitors \in Screened
  BY <1>1, <1>2 DEF Screened
<1>4. selMon \in Mons /\ wakeup \in 0 .. Wakeup /\ was_active \in BOOLEAN
  <2>1. Screens \in Nat \ {0} /\ Wakeup \in Nat
    BY DEF ConstantsSound
  <2>2. 1 \in Mons /\ 0 \in 0 .. Wakeup
    BY <2>1 DEF Mons
  <2> QED
    BY <1>1, <2>2
<1>5. Calm(win)
  BY <1>1 DEF Calm, WinMaps, Links
<1> QED
  BY <1>1, <1>3, <1>4, <1>5 DEF SlideInv, Leaving

LEMMA SlideSteps ==
    ASSUME ConstantsSound, SlideInv, [Next]_vars
    PROVE  SlideInv' /\ StaysMapped
<1>1. CASE UNCHANGED vars
  BY <1>1 DEF vars, StaysMapped, SlideInv, Calm, Links, Opened, Leaving, OnVisibleTag, AllVisible
<1>2. CASE Switch
  <2>1. CASE \E mask \in Masks : View(mask) \/ ToggleView(mask)
    BY <2>1, ViewStep, ToggleStep
  <2>2. CASE ViewPrev
    BY <2>2, ViewStep
  <2>3. CASE FocusMon \/ FocusStack
    BY <2>3, ToggleStep, FocusStackStep
  <2>4. CASE \E w \in Window, mask \in Masks, follow \in BOOLEAN : TagWindow(w, mask, follow)
    BY <2>4, TagStep
  <2>5. CASE \E indices \in {{selMon}, Mons}, mask \in Masks : IpcView(indices, mask)
    BY <2>5, IpcStep
  <2> QED
    BY <1>2, <2>1, <2>2, <2>3, <2>4, <2>5 DEF Switch
<1>3. CASE ClientStep
  BY <1>3, OpenStep, BufferStep, CloseStep, FirstStep, SwallowStep, CloseAndBackStep DEF ClientStep
<1>4. CASE Frame
  BY <1>4, FrameStep
<1>5. CASE Tick
  BY <1>5, TickStep
<1> QED
  BY <1>1, <1>2, <1>3, <1>4, <1>5 DEF Next

LEMMA SlideInvHolds == ASSUME ConstantsSound PROVE Spec => []SlideInv
<1>1. Init => SlideInv
  BY SlideInit
<1>2. SlideInv /\ [Next]_vars => SlideInv'
  BY SlideSteps
<1> QED
  BY <1>1, <1>2, PTL DEF Spec

\* The state of the slides has its type: a switch, a close or a frame leaves every
\* window a WindowState, and the space holds open windows only.
THEOREM SlidesTypeCorrect == ASSUME ConstantsSound PROVE Spec => []TypeOK
<1>1. SlideInv => TypeOK
  BY DEF SlideInv, Calm, WinMaps, Screened, Opened, TypeOK
<1> QED
  BY <1>1, SlideInvHolds, PTL

\* Whatever is drawn beside its place, or stays on the screen while its tags are
\* hidden, is sliding: no switch, close or swallow in mid-slide, on any number of
\* monitors, leaves a window where no frame to come would take it off
\* (advance_tag_transitions, finalize_slide_outs).
THEOREM NothingLeftOutOfPlace == ASSUME ConstantsSound PROVE Spec => []OutOfPlaceIsSliding
<1>1. SlideInv => OutOfPlaceIsSliding
  BY DEF SlideInv, Calm, InPlace, Leaving, Hidden, Opened, OutOfPlaceIsSliding
<1> QED
  BY <1>1, SlideInvHolds, PTL

\* A window that shows before a step and after it stays on the screen: neither an
\* arrangement nor the end of a slide-out that an earlier switch began takes it off
\* (arrange, finalize_slide_outs).
THEOREM VisibleIsKept == ASSUME ConstantsSound PROVE Spec => VisibleStaysMapped
<1>1. SlideInv /\ [Next]_vars => [StaysMapped]_vars
  BY SlideSteps
<1>2. [StaysMapped]_vars => [\A w \in space : Shown(w) /\ Shown(w)' => w \in space']_vars
  BY DEF StaysMapped
<1> QED
  BY <1>1, <1>2, SlideInvHolds, PTL DEF Spec, VisibleStaysMapped
=============================================================================
